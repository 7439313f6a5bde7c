-------------------------- MODULE UpdateJob_proofs --------------------------
(***************************************************************************)
(* The update of the pair loses no write a user was told of, for every     *)
(* kind of update and any number of faults, writes and repetitions.        *)
(*                                                                         *)
(* First what one step of the job may do (UpdateStepIs): which phases it   *)
(* leads to, what it sends and which command it gives.  Then the inductive *)
(* invariant JobInv and one lemma per action; most actions only take       *)
(* messages away or let a database follow the active one (PlaysKeep).      *)
(*                                                                         *)
(* Last, that the way back is whole while the new program is verified, as  *)
(* long as no server forgets that it took over: what a step asks of the    *)
(* other server (UpdateTurn), the invariant FallInv on top of JobInv and   *)
(* again one lemma per action.                                             *)
(***************************************************************************)
EXTENDS UpdateJob, TLAPS

(* What a step of the job may do                                           *)

\* The server that is updated first.
First(k) == IF k = "sequential" THEN A ELSE B

\* A job is well formed: its servers, its lock and its wait fit its phase.
Form(j) ==
  /\ j.first = First(j.kind) /\ j.second = Other(j.first)
  /\ j.phase = "Ask" \/ BeforeLock(j) => j.lock = "none"
  /\ j.phase \in {"Locked", "VerifyNew", "Release"} => j.lock = "on"
  /\ j.phase = "Follow" => j.lock = "off"
  /\ j.phase = "Rollback" => j.lock \in {"none", "on"}
  /\ j.phase = "Locked" /\ j.kind = "sequential" /\ ~j.freezeAcked => j.sealed
  /\ j.waitOp \in {"freeze", "seal"} => j.kind = "sequential" /\ j.phase = "Locked" /\ ~j.freezeAcked
  /\ j.waitOp = "freeze" => j.waitNode = B

\* It gives its own kernel no command any more.
Calm(j) == Ended(j) \/ j.phase = "Follow" \/ (j.phase = "Rollback" /\ j.lock = "none")

\* Sequential, from the answered freeze to the end of the lock.
Held(j) == /\ j.kind = "sequential" /\ j.freezeAcked /\ j.lock = "on"
           /\ j.phase \in {"Locked", "VerifyNew", "Rollback"}

\* The result that waits says that the seal is on.
SealAnswered(j, o) ==
  /\ j.phase = "Locked" /\ j.waitOp = "seal"
  /\ o.ack # None /\ o.ack.op = "seal" /\ o.ack.ok /\ o.ack.seq >= j.waitSeq

\* What a step may see, and the record it returns.
Look == [self : Server, late : BOOLEAN, lockMax : BOOLEAN, again : BOOLEAN,
         selfOK : BOOLEAN, partnerOK : BOOLEAN, partnerUp : BOOLEAN, ack : Ack \cup {None},
         selfCommit : {"old", "new"}, partnerCommit : {"old", "new"},
         mirrorSync : BOOLEAN, dbPending : BOOLEAN, handover : BOOLEAN, abort : BOOLEAN,
         confirm : {"no", "yes", "blocked"}, takeover : BOOLEAN, fresh : BOOLEAN]

StepRecord == [j : Job, op : Op \cup {None}, to : Server \cup {None},
           cmd : {"swap", "freeze", "abandon", None}, ack : {FALSE}]

\* Sending starts a wait with a new number; nothing else does.
Sends(j, r) ==
  /\ r.op # None => r.to \in Server /\ r.j.waitOp = r.op /\ r.j.waitNode = r.to /\ r.j.waitSeq = j.seq + 1
  /\ r.op = None => r.to = None /\ r.j.waitSeq \in {0, j.waitSeq}

\* The commands to the own kernel, and who may give which.
Commands(o, r) ==
  /\ r.cmd = "swap" => r.j.kind = "swap"
  /\ r.cmd = "freeze" => r.j.kind = "rolling" /\ o.self = A
  /\ r.cmd = "abandon" => /\ r.j.kind # "swap" /\ r.j.phase = "Rollback" /\ r.j.lock = "on"
                          /\ o.self = r.j.first /\ (r.j.kind = "sequential" => r.j.freezeAcked)

\* A lock ends in a calm job, and a countdown that is over in the lock.
Moves(j, o, k) ==
  /\ Locked(j) => Locked(k) \/ Calm(k)
  /\ Calm(j) => Calm(k)
  /\ j.phase = "Ask" /\ o.confirm # "yes" => k.phase = "Ask" \/ Calm(k)
  /\ j.phase = "Countdown" /\ o.late => Locked(k) \/ Calm(k)

\* The order of a sequential update: seal, freeze, held; never with a restart in between.
Seals(j, o, r) ==
  /\ r.j.waitOp = "seal" => r.op = "seal" \/ (j.waitOp = "seal" /\ r.j.waitSeq = j.waitSeq /\ ~o.fresh)
  /\ r.j.waitOp = "freeze" => ~o.fresh /\ (j.waitOp = "freeze" \/ SealAnswered(j, o))
  /\ Held(r.j) => Held(j) \/ (j.waitOp = "freeze" /\ ~o.fresh)

\* While the kernel has a command of the way back, the job stays on it.
Hands(j, o, k) ==
  j.phase = "Rollback" /\ j.lock = "on" /\ NewActive(j, o) /\ o.handover /\ ~o.late =>
    k.phase = "Rollback" /\ k.lock = "on" /\ k.freezeAcked = j.freezeAcked

\* What the step r of a job j says.
Outcome(j, o, r) ==
  /\ r \in StepRecord /\ Form(r.j) /\ r.j.kind = j.kind /\ r.j.seq \in {j.seq, j.seq + 1}
  /\ Sends(j, r) /\ Commands(o, r) /\ Moves(j, o, r.j) /\ Seals(j, o, r) /\ Hands(j, o, r.j)

\* The same job for all of this; marks may differ.
Like(j, k) ==
  /\ k.kind = j.kind /\ k.first = j.first /\ k.second = j.second /\ k.seq = j.seq
  /\ k.phase = j.phase /\ k.lock = j.lock /\ k.freezeAcked = j.freezeAcked /\ k.sealed = j.sealed
  /\ k.waitOp = j.waitOp /\ k.waitNode = j.waitNode /\ k.waitSeq = j.waitSeq

\* The same job without a wait.
Cleared(j, k) ==
  /\ k \in Job /\ k.kind = j.kind /\ k.first = j.first /\ k.second = j.second /\ k.seq = j.seq
  /\ k.waitOp = None /\ k.waitNode = None /\ k.waitSeq = 0

\* A job with other fields is a job.
LEMMA JobWithin ==
  ASSUME NEW j \in Job
  PROVE  /\ [j EXCEPT !.lock = "on", !.freezeAcked = FALSE, !.frozenSynced = FALSE] \in Job
         /\ [j EXCEPT !.rollbackSent = TRUE] \in Job
         /\ [j EXCEPT !.seq = 2] \in Job /\ [j EXCEPT !.phase = "Failed", !.seq = 0] \in Job
<1>1. [j EXCEPT !.lock = "on", !.freezeAcked = FALSE, !.frozenSynced = FALSE] \in Job
  BY DEF Job
<1>2. [j EXCEPT !.seq = 2] \in Job
  BY DEF Job
<1>3. [j EXCEPT !.phase = "Failed", !.seq = 0] \in Job
  BY DEF Job, Phase
<1>4. [j EXCEPT !.rollbackSent = TRUE] \in Job
  BY DEF Job
<1> QED
  BY <1>1, <1>2, <1>3, <1>4

\* Entering a phase clears the wait.
LEMMA EnterIs ==
  ASSUME NEW j \in Job, NEW p \in Phase
  PROVE  /\ Cleared(j, Enter(j, p)) /\ Enter(j, p).phase = p /\ Enter(j, p).lock = j.lock
         /\ Enter(j, p).freezeAcked = j.freezeAcked /\ Enter(j, p).sealed = j.sealed
<1>1. Enter(j, p) \in Job
  BY DEF Enter, Job
<1> QED
  BY <1>1 DEF Enter, Job, Cleared

\* Sending starts a wait.
LEMMA SendIs ==
  ASSUME NEW j \in Job, NEW op \in Op, NEW n \in Server
  PROVE  LET r == Send(j, op, n)
         IN /\ r \in StepRecord /\ r.op = op /\ r.to = n /\ r.cmd = None
            /\ r.j.waitOp = op /\ r.j.waitNode = n /\ r.j.waitSeq = j.seq + 1
            /\ r.j.kind = j.kind /\ r.j.first = j.first /\ r.j.second = j.second /\ r.j.seq = j.seq
            /\ r.j.phase = j.phase /\ r.j.lock = j.lock
            /\ r.j.freezeAcked = j.freezeAcked /\ r.j.sealed = j.sealed
<1> DEFINE s == j.seq + 1
           k == [j EXCEPT !.waitOp = op, !.waitNode = n, !.waitSeq = s, !.waitOK = FALSE]
<1>1. s \in Nat
  BY DEF Job
<1>2. Send(j, op, n) = [Step(k) EXCEPT !.op = op, !.to = n]
  BY Zenon DEF Send
<1> HIDE DEF s
<1>3. k \in Job
  BY <1>1 DEF Job
<1>4. /\ k.waitOp = op /\ k.waitNode = n /\ k.waitSeq = s
      /\ k.kind = j.kind /\ k.first = j.first /\ k.second = j.second /\ k.seq = j.seq
      /\ k.phase = j.phase /\ k.lock = j.lock
      /\ k.freezeAcked = j.freezeAcked /\ k.sealed = j.sealed
  BY DEF Job
<1> HIDE DEF k
<1>5. Send(j, op, n) = [j |-> k, op |-> op, to |-> n, cmd |-> None, ack |-> FALSE]
  BY <1>2 DEF Step
<1> QED
  BY <1>3, <1>4, <1>5 DEF StepRecord, s

\* Finishing clears the wait.
LEMMA FinishIs ==
  ASSUME NEW j \in Job, NEW p \in {"Done", "Failed"}
  PROVE  /\ Cleared(j, Finish(j, p)) /\ Finish(j, p).phase = p
<1>1. p \in Phase
  BY DEF Phase
<1>2. Finish(j, p) \in Job
  BY <1>1, EnterIs DEF Finish, Job, Cleared
<1> QED
  BY <1>1, <1>2, EnterIs DEF Finish, Job, Cleared

\* Nothing is no operation, no command and no server.
LEMMA NoneIs ==
  /\ None \notin {"swap", "freeze", "abandon", "seal", "install", "install_norestart", "rollback",
                  "rollback_norestart", "thaw", "reinit"}
  /\ None \notin Op /\ None \notin Server
BY NoneAssumption, DistinctAssumption DEF Op

\* A step without an operation.
LEMMA StepIs ==
  ASSUME NEW j \in Job
  PROVE  /\ Step(j) \in StepRecord /\ Step(j).j = j /\ Step(j).op = None /\ Step(j).to = None
         /\ Step(j).cmd = None
<1>1. Step(j) = [j |-> j, op |-> None, to |-> None, cmd |-> None, ack |-> FALSE]
  BY DEF Step
<1> QED
  BY <1>1 DEF StepRecord

\* A step with a command.
LEMMA CommandIs ==
  ASSUME NEW j \in Job, NEW c \in {"swap", "freeze", "abandon"}
  PROVE  /\ Command(j, c) \in StepRecord /\ Command(j, c).j = j /\ Command(j, c).op = None
         /\ Command(j, c).to = None /\ Command(j, c).cmd = c
<1>1. Command(j, c) = [Step(j) EXCEPT !.cmd = c]
  BY Zenon DEF Command
<1>2. Command(j, c) = [j |-> j, op |-> None, to |-> None, cmd |-> c, ack |-> FALSE]
  BY <1>1 DEF Step
<1> QED
  BY <1>2 DEF StepRecord

\* Where a step may lead, the wait apart.
Goes(j, o, k) ==
  /\ k \in Job /\ Form(k) /\ k.kind = j.kind /\ k.seq = j.seq
  /\ Moves(j, o, k) /\ Hands(j, o, k)
  /\ Held(k) => Held(j) \/ (j.waitOp = "freeze" /\ ~o.fresh)

\* What such a step, and such an operation, says.
LEMMA StepGoes ==
  ASSUME NEW j \in Job, NEW o \in Look, NEW k, Goes(j, o, k),
         k.waitSeq \in {0, j.waitSeq}, k.waitOp \notin {"seal", "freeze"}
  PROVE  Outcome(j, o, Step(k))
<1>1. k \in Job
  BY DEF Goes
<1>2. /\ Step(k) \in StepRecord /\ Step(k).j = k /\ Step(k).op = None /\ Step(k).to = None
      /\ Step(k).cmd = None
  BY <1>1, StepIs
<1> QED
  BY <1>2, NoneIs DEF Goes, Outcome, Sends, Commands, Seals

LEMMA SendGoes ==
  ASSUME NEW j \in Job, NEW o \in Look, NEW k, Goes(j, o, k),
         NEW op \in Op \ {"seal", "freeze"}, NEW n \in Server
  PROVE  Outcome(j, o, Send(k, op, n)) /\ Send(k, op, n).j.phase = k.phase
         /\ Send(k, op, n).j.lock = k.lock
<1> DEFINE r == Send(k, op, n)
<1>1. /\ r \in StepRecord /\ r.op = op /\ r.to = n /\ r.cmd = None
      /\ r.j.waitOp = op /\ r.j.waitNode = n /\ r.j.waitSeq = j.seq + 1
      /\ r.j.kind = k.kind /\ r.j.first = k.first /\ r.j.second = k.second /\ r.j.seq = k.seq
      /\ r.j.phase = k.phase /\ r.j.lock = k.lock
      /\ r.j.freezeAcked = k.freezeAcked /\ r.j.sealed = k.sealed
  BY SendIs DEF Goes
<1>2. op \in Op /\ op # None /\ op \notin {"seal", "freeze"}
  BY NoneIs
<1> HIDE DEF r
<1>3. Form(r.j)
  BY <1>1, <1>2 DEF Goes, Form, BeforeLock
<1>4. Moves(j, o, r.j) /\ Hands(j, o, r.j)
  BY <1>1 DEF Goes, Moves, Hands, Calm, Locked, Ended
<1>5. Seals(j, o, r)
  BY <1>1, <1>2 DEF Goes, Seals, Held
<1>6. Sends(j, r) /\ Commands(o, r)
  BY <1>1, <1>2, NoneIs DEF Sends, Commands, Goes
<1>7. Outcome(j, o, r)
  BY <1>1, <1>3, <1>4, <1>5, <1>6 DEF Outcome, Goes
<1> QED
  BY <1>1, <1>7 DEF r

\* Where a step from a job, or to the same job, may lead.
LEMMA CalmGoes ==
  ASSUME NEW j \in Job, NEW o \in Look, NEW k \in Job, Form(k), k.kind = j.kind, k.seq = j.seq,
         Calm(k), ~(j.phase = "Rollback" /\ j.lock = "on" /\ NewActive(j, o) /\ ~o.late)
  PROVE  Goes(j, o, k)
BY DEF Goes, Moves, Hands, Held, Calm, Ended, Form

LEMMA LikeGoes ==
  ASSUME NEW j \in Job, NEW o \in Look, Form(j), NEW k \in Job, Like(j, k),
         j.phase = "Countdown" => ~o.late
  PROVE  Goes(j, o, k)
BY DEF Goes, Form, Moves, Hands, Held, Calm, Locked, Ended, Like, BeforeLock

LEMMA LikeWaits ==
  ASSUME NEW j \in Job, NEW o \in Look, Form(j), NEW k \in Job, Like(j, k),
         j.phase = "Countdown" => ~o.late, j.waitOp \in {"seal", "freeze"} => ~o.fresh
  PROVE  Outcome(j, o, Step(k))
<1>1. Goes(j, o, k)
  BY LikeGoes
<1>2. Seals(j, o, Step(k))
  BY <1>1, StepIs DEF Seals, Like, Form, Goes
<1> QED
  BY <1>1, <1>2, StepIs, NoneIs DEF Goes, Outcome, Sends, Commands, Like

\* A step for a job with other marks is one for the job.
LEMMA LikeOutcome ==
  ASSUME NEW j \in Job, NEW o \in Look, Form(j), NEW k \in Job, Like(j, k),
         j.phase = "Countdown" => ~o.late, j.phase = "Locked" => ~o.fresh
  PROVE  Outcome(j, o, Step(k))
BY LikeWaits DEF Form

\* Ending a job is always allowed.
LEMMA FinishOutcome ==
  ASSUME NEW j \in Job, NEW o \in Look, Form(j), NEW k \in Job, Cleared(j, k), Ended(k),
         ~(j.phase = "Rollback" /\ j.lock = "on" /\ NewActive(j, o) /\ ~o.late)
  PROVE  Outcome(j, o, Step(k)) /\ Calm(k)
<1>1. Form(k) /\ Calm(k)
  BY NoneIs DEF Form, Cleared, Ended, Calm, BeforeLock
<1>2. Goes(j, o, k)
  BY <1>1, CalmGoes DEF Cleared
<1> QED
  BY <1>1, <1>2, StepGoes, NoneIs DEF Cleared, Op

LEMMA FinishHelpIs ==
  ASSUME NEW j \in Job, NEW o \in Look, Form(j), NEW k \in Job, Like(j, k),
         NEW p \in {"Done", "Failed"}, NEW h \in BOOLEAN,
         ~(j.phase = "Rollback" /\ j.lock = "on" /\ NewActive(j, o) /\ ~o.late)
  PROVE  Outcome(j, o, Step([Finish(k, p) EXCEPT !.help = h]))
<1> DEFINE e == Finish(k, p)
           f == [e EXCEPT !.help = h]
<1>1. Cleared(k, e) /\ e.phase = p
  BY FinishIs
<1> HIDE DEF e
<1>2. f \in Job
  BY <1>1 DEF Cleared, Job
<1>3. Cleared(j, f) /\ f.phase = p
  BY <1>1, <1>2 DEF Cleared, Like, Job
<1> HIDE DEF f
<1>4. Outcome(j, o, Step(f))
  BY <1>2, <1>3, FinishOutcome DEF Ended
<1> QED
  BY <1>4 DEF e, f

-----------------------------------------------------------------------------
(* The ways out: giving up before the lock, going back from it.            *)

\* Fields no other rule looks at.
LEMMA MarksAreAside ==
  ASSUME NEW e \in Job, NEW f \in BOOLEAN, NEW g \in BOOLEAN
  PROVE  /\ [e EXCEPT !.faulty = @ \/ f, !.help = TRUE] \in Job
         /\ Like(e, [e EXCEPT !.faulty = @ \/ f, !.help = TRUE])
         /\ [e EXCEPT !.rollbackSent = g, !.faulty = @ \/ f] \in Job
         /\ Like(e, [e EXCEPT !.rollbackSent = g, !.faulty = @ \/ f])
<1> DEFINE b == e.faulty \/ f
<1>1. b \in BOOLEAN
  OBVIOUS
<1>2. /\ [e EXCEPT !.faulty = @ \/ f, !.help = TRUE] = [e EXCEPT !.faulty = b, !.help = TRUE]
      /\ [e EXCEPT !.rollbackSent = g, !.faulty = @ \/ f] = [e EXCEPT !.rollbackSent = g, !.faulty = b]
  BY Zenon
<1> HIDE DEF b
<1>3. [e EXCEPT !.faulty = b, !.help = TRUE] \in Job /\ [e EXCEPT !.rollbackSent = g, !.faulty = b] \in Job
  <2>1. [e EXCEPT !.faulty = b, !.help = TRUE] \in Job
    BY <1>1 DEF Job
  <2>2. [e EXCEPT !.rollbackSent = g, !.faulty = b] \in Job
    BY <1>1 DEF Job
  <2> QED
    BY <2>1, <2>2
<1>4. /\ Like(e, [e EXCEPT !.faulty = b, !.help = TRUE])
      /\ Like(e, [e EXCEPT !.rollbackSent = g, !.faulty = b])
  BY <1>1 DEF Job, Like
<1> QED
  BY <1>2, <1>3, <1>4

\* Giving up before the lock is calm.
LEMMA UndoPrepIs ==
  ASSUME NEW j \in Job, NEW o \in Look, NEW k \in Job, NEW s \in BOOLEAN,
         k.kind = j.kind, k.seq = j.seq, k.first = First(j.kind), k.second = Other(k.first),
         k.lock = "none", j.phase # "Rollback"
  PROVE  Outcome(j, o, UndoPrep(k, o, s)) /\ Calm(UndoPrep(k, o, s).j)
<1>1. CASE ~s \/ k.kind = "swap"
  <2>1. UndoPrep(k, o, s) = Step(Finish(k, "Failed"))
    BY <1>1 DEF UndoPrep
  <2>2. Cleared(k, Finish(k, "Failed")) /\ Finish(k, "Failed").phase = "Failed"
    BY FinishIs
  <2>3. Form(Finish(k, "Failed")) /\ Calm(Finish(k, "Failed"))
    BY <2>2, NoneIs DEF Form, Cleared, Calm, Ended, BeforeLock
  <2>4. Goes(j, o, Finish(k, "Failed"))
    BY <2>2, <2>3, CalmGoes DEF Cleared
  <2> QED
    BY <2>1, <2>2, <2>3, <2>4, StepGoes, StepIs, NoneIs DEF Cleared
<1>2. CASE ~(~s \/ k.kind = "swap")
  <2> DEFINE b == [Enter(k, "Rollback") EXCEPT !.rollbackSent = TRUE]
  <2>1. Cleared(k, Enter(k, "Rollback")) /\ Enter(k, "Rollback").phase = "Rollback"
        /\ Enter(k, "Rollback").lock = "none"
    BY EnterIs DEF Phase
  <2>2. b \in Job
    BY <2>1, JobWithin DEF Cleared
  <2>3. Cleared(k, b) /\ b.phase = "Rollback" /\ b.lock = "none"
    BY <2>1, <2>2 DEF Cleared, Job
  <2>4. UndoPrep(k, o, s) = IF k.kind = "sequential" THEN Send(b, "rollback_norestart", o.self)
                            ELSE Send(b, "rollback", k.first)
    BY <1>2 DEF UndoPrep
  <2> HIDE DEF b
  <2>5. Form(b) /\ Calm(b)
    BY <2>3, NoneIs DEF Form, Cleared, Calm, Ended, BeforeLock
  <2>6. Goes(j, o, b)
    BY <2>3, <2>5, CalmGoes DEF Cleared
  <2>7. o.self \in Server /\ k.first \in Server
    BY DEF Look, Job
  <2>8. \A op \in {"rollback", "rollback_norestart"}, n \in Server :
          Outcome(j, o, Send(b, op, n)) /\ Calm(Send(b, op, n).j)
    <3> TAKE op \in {"rollback", "rollback_norestart"}, n \in Server
    <3>1. op \in Op \ {"seal", "freeze"}
      BY DEF Op
    <3> QED
      BY <2>3, <2>6, <3>1, SendGoes DEF Calm
  <2> QED
    BY <2>4, <2>7, <2>8
<1> QED
  BY <1>1, <1>2

\* The way back from the lock.
LEMMA RollbackIs ==
  ASSUME NEW j \in Job, NEW o \in Look, Form(j), j.phase \in {"Locked", "VerifyNew"},
         NEW f \in BOOLEAN
  PROVE  Outcome(j, o, Rollback(j, o, f))
<1>1. CASE NewActive(j, o) /\ j.kind # "swap" /\ ~j.frozenSynced
  <2> DEFINE e == Finish(j, "Failed")
             k == [e EXCEPT !.faulty = @ \/ f, !.help = TRUE]
  <2>1. Cleared(j, e) /\ e.phase = "Failed"
    BY FinishIs
  <2>3. Rollback(j, o, f) = Step(k)
    BY <1>1, Zenon DEF Rollback
  <2> HIDE DEF e
  <2>2. Cleared(j, k) /\ k.phase = "Failed"
    <3>1. e \in Job
      BY <2>1 DEF Cleared
    <3>2. k \in Job /\ Like(e, k)
      BY <3>1, MarksAreAside
    <3> HIDE DEF k
    <3> QED
      BY <2>1, <3>2 DEF Cleared, Like
  <2> HIDE DEF k
  <2>4. Ended(k)
    BY <2>2 DEF Ended
  <2> QED
    BY <2>2, <2>3, <2>4, FinishOutcome DEF Cleared
<1>2. CASE ~(NewActive(j, o) /\ j.kind # "swap" /\ ~j.frozenSynced)
  <2> DEFINE e == Enter(j, "Rollback")
             k == [e EXCEPT !.rollbackSent = FALSE, !.faulty = @ \/ f]
  <2>1. Cleared(j, e) /\ e.phase = "Rollback" /\ e.lock = j.lock /\ e.freezeAcked = j.freezeAcked
    BY EnterIs DEF Phase
  <2>3. Rollback(j, o, f) = IF NewActive(j, o) THEN SwapBack(k) ELSE Step(k)
    BY <1>2, Zenon DEF Rollback
  <2> HIDE DEF e
  <2>2. Cleared(j, k) /\ k.phase = "Rollback" /\ k.lock = j.lock /\ k.freezeAcked = j.freezeAcked
    <3>1. e \in Job
      BY <2>1 DEF Cleared
    <3>2. k \in Job /\ Like(e, k)
      BY <3>1, MarksAreAside
    <3> HIDE DEF k
    <3> QED
      BY <2>1, <3>2 DEF Cleared, Like
  <2> HIDE DEF k
  <2>4. j.lock = "on"
    BY DEF Form
  <2>5. Form(k) /\ Goes(j, o, k)
    BY <2>2, <2>4, NoneIs DEF Goes, Form, Cleared, Moves, Hands, Held, Locked, Ended, Calm, BeforeLock
  <2>6. Outcome(j, o, Step(k))
    <3>1. k.waitSeq \in {0, j.waitSeq} /\ k.waitOp \notin {"seal", "freeze"}
      BY <2>2, NoneIs DEF Cleared
    <3> QED
      BY <2>5, <3>1, StepGoes
  <2>7. ASSUME NewActive(j, o)
        PROVE  Outcome(j, o, SwapBack(k))
    <3> DEFINE c == IF k.kind = "swap" THEN "swap" ELSE "abandon"
    <3>1. c \in {"swap", "freeze", "abandon"}
      OBVIOUS
    <3>2. SwapBack(k) = Command(k, c)
      BY DEF SwapBack
    <3>3. /\ Command(k, c) \in StepRecord /\ Command(k, c).j = k /\ Command(k, c).op = None
          /\ Command(k, c).to = None /\ Command(k, c).cmd = c
      BY <2>2, <3>1, CommandIs DEF Cleared
    <3>4. Commands(o, Command(k, c))
      BY <2>2, <2>4, <2>7, <3>3 DEF Commands, NewActive, FirstActive, Cleared
    <3> HIDE DEF c
    <3> QED
      BY <2>2, <2>5, <3>2, <3>3, <3>4, NoneIs DEF Outcome, Goes, Sends, Seals, Cleared
  <2> QED
    BY <2>3, <2>6, <2>7
<1> QED
  BY <1>1, <1>2

-----------------------------------------------------------------------------
(* One lemma per phase.                                                    *)

\* Entering a phase before the lock, from one before the lock.
LEMMA EntersBefore ==
  ASSUME NEW j \in Job, NEW o \in Look, Form(j), j.phase = "Ask" \/ BeforeLock(j),
         NEW p \in {"Entry", "Prepare", "VerifyPrep", "Countdown"},
         j.phase = "Ask" => o.confirm = "yes", j.phase = "Countdown" => ~o.late
  PROVE  Outcome(j, o, Step(Enter(j, p)))
<1> DEFINE k == Enter(j, p)
<1>1. Cleared(j, k) /\ k.phase = p /\ k.lock = j.lock
  BY EnterIs DEF Phase
<1> HIDE DEF k
<1>2. j.lock = "none"
  BY DEF Form
<1>3. Goes(j, o, k)
  BY <1>1, <1>2, NoneIs DEF Goes, Form, Cleared, Moves, Hands, Held, Locked, Calm, Ended, BeforeLock
<1> QED
  BY <1>1, <1>3, StepGoes, NoneIs DEF Cleared, k

LEMMA AskIs ==
  ASSUME NEW j \in Job, NEW o \in Look, Form(j), j.phase = "Ask"
  PROVE  Outcome(j, o, AskStep(j, o))
<1>1. Outcome(j, o, Step(Finish(j, "Failed")))
  BY FinishIs, FinishOutcome DEF Cleared, Ended
<1>2. Outcome(j, o, Step(j))
  BY LikeOutcome DEF Like
<1>3. o.confirm = "yes" => Outcome(j, o, Step(Enter(j, "Entry")))
  BY EntersBefore
<1> QED
  BY <1>1, <1>2, <1>3 DEF AskStep

LEMMA EntryIs ==
  ASSUME NEW j \in Job, NEW o \in Look, Form(j), j.phase = "Entry"
  PROVE  Outcome(j, o, EntryStep(j, o))
<1> DEFINE k == [j EXCEPT !.phase = "Prepare"]
<1>1. k \in Job
  BY DEF Job, Phase
<1>2. /\ k.phase = "Prepare" /\ k.kind = j.kind /\ k.first = j.first /\ k.second = j.second
      /\ k.seq = j.seq /\ k.lock = j.lock /\ k.waitOp = j.waitOp /\ k.waitNode = j.waitNode
  BY DEF Job
<1>3. EntryStep(j, o) = CASE j.kind = "swap" -> Step(Enter(j, "Countdown"))
                          [] j.kind = "sequential" -> Send(k, "install_norestart", o.self)
                          [] OTHER -> Send(k, "install", j.first)
  BY DEF EntryStep
<1> HIDE DEF k
<1>4. Goes(j, o, k)
  BY <1>1, <1>2 DEF Goes, Form, Moves, Hands, Held, Locked, Calm, Ended, BeforeLock
<1>5. Outcome(j, o, Step(Enter(j, "Countdown")))
  BY EntersBefore DEF BeforeLock
<1>6. o.self \in Server /\ j.first \in Server
  BY DEF Look, Job
<1>7. Outcome(j, o, Send(k, "install_norestart", o.self)) /\ Outcome(j, o, Send(k, "install", j.first))
  BY <1>4, <1>6, SendGoes DEF Op
<1> QED
  BY <1>3, <1>5, <1>7

\* The answer taken is one of those a server gives.
LEMMA AckOfIs ==
  ASSUME NEW j \in Job, NEW o \in Look
  PROVE  /\ AckOf(j, o) \in Ack \cup {None}
         /\ AckOf(j, o) # None =>
              /\ AckOf(j, o) = o.ack /\ j.waitOp # None /\ o.ack.op = j.waitOp
              /\ o.ack.node = j.waitNode /\ o.ack.seq >= j.waitSeq
BY DEF AckOf, Look

LEMMA FailPrepIs ==
  ASSUME NEW j \in Job, NEW o \in Look, Form(j), BeforeLock(j), NEW f \in BOOLEAN
  PROVE  Outcome(j, o, FailPrep(j, o, f))
<1> DEFINE k == [j EXCEPT !.faulty = f]
<1>1. k \in Job
  BY DEF Job
<1>2. k.kind = j.kind /\ k.seq = j.seq /\ k.first = j.first /\ k.second = j.second /\ k.lock = "none"
  BY DEF Job, Form
<1>3. FailPrep(j, o, f) = UndoPrep(k, o, TRUE)
  BY DEF FailPrep
<1> HIDE DEF k
<1> QED
  BY <1>1, <1>2, <1>3, UndoPrepIs DEF Form, BeforeLock

LEMMA PrepareIs ==
  ASSUME NEW j \in Job, NEW o \in Look, Form(j), j.phase = "Prepare"
  PROVE  Outcome(j, o, PrepareStep(j, o))
<1> DEFINE a == AckOf(j, o)
<1>1. (~a.noFault) \in BOOLEAN
  OBVIOUS
<1>2. Outcome(j, o, Step(Enter(j, "VerifyPrep"))) /\ Outcome(j, o, Step(j))
  BY EntersBefore, LikeOutcome DEF BeforeLock, Like
<1>3. \A f \in BOOLEAN : Outcome(j, o, FailPrep(j, o, f))
  BY FailPrepIs DEF BeforeLock
<1> QED
  BY <1>1, <1>2, <1>3 DEF PrepareStep

LEMMA VerifyPrepIs ==
  ASSUME NEW j \in Job, NEW o \in Look, Form(j), j.phase = "VerifyPrep"
  PROVE  Outcome(j, o, VerifyPrepStep(j, o))
<1>1. Outcome(j, o, Step(Enter(j, "Countdown"))) /\ Outcome(j, o, Step(j))
  BY EntersBefore, LikeOutcome DEF BeforeLock, Like
<1>2. Outcome(j, o, FailPrep(j, o, TRUE))
  BY FailPrepIs DEF BeforeLock
<1> QED
  BY <1>1, <1>2 DEF VerifyPrepStep

LEMMA VerifyNewIs ==
  ASSUME NEW j \in Job, NEW o \in Look, Form(j), j.phase = "VerifyNew"
  PROVE  Outcome(j, o, VerifyNewStep(j, o))
<1> DEFINE k == Enter(j, "Release")
<1>1. Outcome(j, o, Step(Finish(j, "Done"))) /\ Outcome(j, o, Step(j))
  BY FinishIs, FinishOutcome, LikeOutcome DEF Cleared, Ended, Like
<1>2. Cleared(j, k) /\ k.phase = "Release" /\ k.lock = j.lock
  BY EnterIs DEF Phase
<1> HIDE DEF k
<1>3. Goes(j, o, k)
  BY <1>2, NoneIs DEF Goes, Form, Cleared, Moves, Hands, Held, Locked, Calm, Ended, BeforeLock
<1>4. j.second \in Server
  BY DEF Job
<1>5. Outcome(j, o, Send(k, "thaw", j.second))
  BY <1>3, <1>4, SendGoes DEF Op
<1>6. \A f \in BOOLEAN : Outcome(j, o, Rollback(j, o, f))
  BY RollbackIs
<1>7. NewStarted(j, o) \in BOOLEAN
  BY DEF NewStarted, FirstActive, Job
<1> QED
  BY <1>1, <1>5, <1>6, <1>7 DEF VerifyNewStep, k

LEMMA CountdownIs ==
  ASSUME NEW j \in Job, NEW o \in Look, Form(j), j.phase = "Countdown"
  PROVE  Outcome(j, o, CountdownStep(j, o))
<1> DEFINE e == Enter(j, "Locked")
           k == [e EXCEPT !.lock = "on", !.freezeAcked = FALSE, !.frozenSynced = FALSE]
           s == [k EXCEPT !.sealed = TRUE]
<1>1. Cleared(j, e) /\ e.phase = "Locked"
  BY EnterIs DEF Phase
<1>2. CountdownStep(j, o) =
        CASE ~o.late -> Step(j)
          [] o.late /\ j.kind = "sequential" -> Send(s, "seal", o.self)
          [] o.late /\ j.kind # "sequential" -> IF o.self = j.second THEN SwapCommand(k) ELSE Step(k)
  BY Zenon DEF CountdownStep
<1> HIDE DEF e
<1>3. k \in Job /\ Cleared(j, k) /\ k.phase = "Locked" /\ k.lock = "on" /\ k.freezeAcked = FALSE
  <2>1. k \in Job
    BY <1>1, JobWithin DEF Cleared
  <2> QED
    BY <1>1, <2>1 DEF Cleared, Job
<1> HIDE DEF k
<1>4. /\ s \in Job /\ Cleared(j, s) /\ s.phase = "Locked" /\ s.lock = "on"
      /\ s.freezeAcked = FALSE /\ s.sealed = TRUE
  <2>1. s \in Job
    BY <1>3 DEF Job
  <2> QED
    BY <1>3, <2>1 DEF Cleared, Job
<1> HIDE DEF s
<1>5. ~o.late => Outcome(j, o, Step(j))
  BY LikeOutcome DEF Like
<1>6. o.self \in Server
  BY DEF Look
<1>7. ASSUME j.kind = "sequential"
      PROVE  Outcome(j, o, Send(s, "seal", o.self))
  <2> DEFINE r == Send(s, "seal", o.self)
  <2>1. /\ r \in StepRecord /\ r.op = "seal" /\ r.to = o.self /\ r.cmd = None
        /\ r.j.waitOp = "seal" /\ r.j.waitNode = o.self /\ r.j.waitSeq = s.seq + 1
        /\ r.j.kind = s.kind /\ r.j.first = s.first /\ r.j.second = s.second /\ r.j.seq = s.seq
        /\ r.j.phase = s.phase /\ r.j.lock = s.lock
        /\ r.j.freezeAcked = s.freezeAcked /\ r.j.sealed = s.sealed
    BY <1>4, <1>6, SendIs DEF Op
  <2> HIDE DEF r
  <2>2. Form(r.j)
    BY <1>4, <1>7, <2>1 DEF Form, Cleared, BeforeLock
  <2>3. Sends(j, r) /\ Commands(o, r)
    BY <1>4, <1>6, <2>1, NoneIs DEF Sends, Commands, Cleared
  <2>4. Moves(j, o, r.j) /\ Seals(j, o, r) /\ Hands(j, o, r.j)
    BY <1>4, <2>1 DEF Moves, Seals, Hands, Held, Locked, Ended, Calm
  <2> QED
    BY <1>4, <2>1, <2>2, <2>3, <2>4 DEF Outcome, Cleared, r
<1>8. ASSUME j.kind # "sequential"
      PROVE  Goes(j, o, k)
  BY <1>3, <1>8, NoneIs DEF Goes, Form, Cleared, Moves, Hands, Held, Locked, Calm, Ended, BeforeLock
<1>9. ASSUME j.kind # "sequential"
      PROVE  Outcome(j, o, Step(k))
  BY <1>3, <1>8, <1>9, StepGoes, NoneIs DEF Cleared
<1>10. ASSUME j.kind # "sequential", o.self = j.second
       PROVE  Outcome(j, o, SwapCommand(k))
  <2> DEFINE c == IF k.kind = "swap" THEN "swap" ELSE "freeze"
  <2>1. SwapCommand(k) = Command(k, c) /\ c \in {"swap", "freeze", "abandon"}
    BY DEF SwapCommand
  <2>2. c = "freeze" => k.kind = "rolling" /\ o.self = A
    <3>1. k.kind \in {"rolling", "sequential", "swap"} /\ k.kind = j.kind /\ j.first = First(j.kind)
      BY <1>3, KindsAssumption DEF Cleared, Job, Form
    <3>2. o.self = Other(j.first)
      BY <1>10 DEF Form
    <3> QED
      BY <1>10, <3>1, <3>2 DEF First, Other
  <2>3. c = "swap" => k.kind = "swap"
    OBVIOUS
  <2>4. c # "abandon"
    OBVIOUS
  <2> HIDE DEF c
  <2>5. /\ Command(k, c) \in StepRecord /\ Command(k, c).j = k /\ Command(k, c).op = None
        /\ Command(k, c).to = None /\ Command(k, c).cmd = c
    BY <1>3, <2>1, CommandIs
  <2>6. Commands(o, Command(k, c))
    BY <2>2, <2>3, <2>4, <2>5 DEF Commands
  <2> QED
    BY <1>3, <1>8, <1>10, <2>1, <2>5, <2>6, NoneIs DEF Outcome, Goes, Sends, Seals, Cleared
<1> QED
  BY <1>2, <1>5, <1>7, <1>9, <1>10

LEMMA ReleaseIs ==
  ASSUME NEW j \in Job, NEW o \in Look, Form(j), j.phase = "Release"
  PROVE  Outcome(j, o, ReleaseStep(j, o)) /\ Outcome(j, o, Unprotected(j))
<1>1. \A k \in Job : Like(j, k) => Outcome(j, o, Follow(k))
  <2> SUFFICES ASSUME NEW k \in Job, Like(j, k)
               PROVE  Outcome(j, o, Follow(k))
    OBVIOUS
  <2> DEFINE e == Enter(k, "Follow")
             f == [e EXCEPT !.lock = "off"]
  <2>1. Cleared(k, e) /\ e.phase = "Follow"
    BY EnterIs DEF Phase
  <2>2. Follow(k) = Send(f, "install", k.second)
    BY Zenon DEF Follow
  <2> HIDE DEF e
  <2>3. Cleared(k, f) /\ f.phase = "Follow" /\ f.lock = "off"
    <3>1. f \in Job
      BY <2>1 DEF Cleared, Job
    <3> QED
      BY <2>1, <3>1 DEF Cleared, Job
  <2> HIDE DEF f
  <2>4. Form(f) /\ Calm(f)
    BY <2>3, NoneIs DEF Form, Like, Cleared, Calm, Ended, BeforeLock
  <2>5. Goes(j, o, f)
    BY <2>3, <2>4, CalmGoes DEF Cleared, Like
  <2>6. k.second \in Server
    BY DEF Job
  <2> QED
    BY <2>2, <2>5, <2>6, SendGoes DEF Op
<1>2. [j EXCEPT !.unprotected = TRUE] \in Job /\ Like(j, [j EXCEPT !.unprotected = TRUE])
  BY DEF Job, Like
<1>3. Outcome(j, o, Unprotected(j))
  BY <1>1, <1>2 DEF Unprotected
<1>4. GotOK(j) \in Job /\ Like(j, GotOK(j)) /\ Like(j, j)
  BY DEF GotOK, Job, Like
<1>5. \A k \in {j, GotOK(j)} : Outcome(j, o, Follow(k)) /\ Outcome(j, o, Step(k))
  BY <1>1, <1>4, LikeOutcome
<1> QED
  BY <1>3, <1>5 DEF ReleaseStep

LEMMA FollowIs ==
  ASSUME NEW j \in Job, NEW o \in Look, Form(j), j.phase = "Follow"
  PROVE  Outcome(j, o, FollowStep(j, o))
<1> DEFINE a == AckOf(j, o)
<1>1. \A k \in Job : Like(j, k) =>
        /\ Outcome(j, o, Step(k)) /\ Goes(j, o, k)
        /\ Outcome(j, o, Send(k, "reinit", j.second))
  <2>1. j.second \in Server
    BY DEF Job
  <2> QED
    BY <2>1, LikeOutcome, LikeGoes, SendGoes DEF Op
<1>2. \A k \in Job : Like(j, k) =>
        Outcome(j, o, Send([k EXCEPT !.attempts = 1], "install", j.second))
  <2> SUFFICES ASSUME NEW k \in Job, Like(j, k)
               PROVE  Outcome(j, o, Send([k EXCEPT !.attempts = 1], "install", j.second))
    OBVIOUS
  <2> DEFINE f == [k EXCEPT !.attempts = 1]
  <2>1. f \in Job
    BY DEF Job
  <2>2. Like(j, f)
    BY DEF Like, Job
  <2>3. j.second \in Server
    BY DEF Job
  <2> HIDE DEF f
  <2>4. Goes(j, o, f)
    BY <2>1, <2>2, LikeGoes
  <2>5. Outcome(j, o, Send(f, "install", j.second))
    BY <2>3, <2>4, SendGoes DEF Op
  <2> QED
    BY <2>5 DEF f
<1>3. \A k \in Job, h \in BOOLEAN : Like(j, k) => Outcome(j, o, Step([Finish(k, "Done") EXCEPT !.help = h]))
  BY FinishHelpIs
<1>4. GotOK(j) \in Job /\ Like(j, GotOK(j)) /\ Like(j, j)
  BY DEF GotOK, Job, Like
<1>5. Outcome(j, o, ReinitStep(j, o))
  <2>1. (~a.ok) \in BOOLEAN /\ TRUE \in BOOLEAN
    OBVIOUS
  <2> QED
    BY <1>1, <1>3, <1>4, <2>1, Zenon DEF ReinitStep
<1>6. \A k \in {j, GotOK(j)} : k \in Job /\ Like(j, k) /\ k.unprotected \in BOOLEAN
  BY <1>4 DEF Job
<1> DEFINE k == IF a # None /\ a.ok THEN GotOK(j) ELSE j
           bad == a # None /\ ~a.ok
<1>7. FollowStep(j, o) \in {ReinitStep(j, o), Step([Finish(k, "Done") EXCEPT !.help = k.unprotected]),
        Send([k EXCEPT !.attempts = 1], "install", j.second), Send(k, "reinit", j.second), Step(k)}
  BY DEF FollowStep
<1>8. k \in Job /\ Like(j, k) /\ k.unprotected \in BOOLEAN
  BY <1>6
<1> HIDE DEF k
<1> QED
  BY <1>1, <1>2, <1>3, <1>5, <1>7, <1>8

\* The command given again: the job only counts on.
LEMMA CommandAgain ==
  ASSUME NEW j \in Job, NEW o \in Look, Form(j), NEW c \in {"swap", "freeze", "abandon"},
         Commands(o, Command(j, c)), j.phase \in {"Locked", "Rollback"},
         j.waitOp \notin {"seal", "freeze"}
  PROVE  Outcome(j, o, [Command(j, c) EXCEPT !.j = [j EXCEPT !.seq = @ + 1]])
<1> DEFINE s == j.seq + 1
           k == [j EXCEPT !.seq = s]
           r == [Command(j, c) EXCEPT !.j = [j EXCEPT !.seq = @ + 1]]
<1>1. s \in Nat
  BY DEF Job
<1>2. [j EXCEPT !.seq = @ + 1] = k
  BY Zenon
<1>3. r = [Command(j, c) EXCEPT !.j = k]
  BY <1>2
<1> HIDE DEF s
<1>4. k \in Job
  BY <1>1 DEF Job
<1>5. /\ k.seq = s /\ k.kind = j.kind /\ k.first = j.first /\ k.second = j.second
      /\ k.phase = j.phase /\ k.lock = j.lock /\ k.freezeAcked = j.freezeAcked /\ k.sealed = j.sealed
      /\ k.waitOp = j.waitOp /\ k.waitNode = j.waitNode /\ k.waitSeq = j.waitSeq
  BY DEF Job
<1> HIDE DEF k, r
<1>6. r = [j |-> k, op |-> None, to |-> None, cmd |-> c, ack |-> FALSE]
  BY <1>3 DEF Command, Step
<1>7. r \in StepRecord /\ r.j = k /\ r.op = None /\ r.to = None /\ r.cmd = c
  BY <1>4, <1>6 DEF StepRecord
<1>8. Form(k)
  BY <1>5 DEF Form, BeforeLock
<1>9. Commands(o, r)
  <2>1. Command(j, c).cmd = c /\ Command(j, c).j = j
    BY CommandIs
  <2> QED
    BY <1>5, <1>7, <2>1 DEF Commands
<1>10. Moves(j, o, k) /\ Hands(j, o, k)
  BY <1>5 DEF Moves, Hands, Locked, Ended, Calm
<1>11. Sends(j, r)
  BY <1>5, <1>7, NoneIs DEF Sends
<1>12. Seals(j, o, r)
  BY <1>5, <1>7 DEF Seals, Held
<1> QED
  BY <1>5, <1>7, <1>8, <1>9, <1>10, <1>11, <1>12 DEF Outcome, r, s

LEMMA LockedSwapIs ==
  ASSUME NEW j \in Job, NEW o \in Look, Form(j), j.phase = "Locked", j.kind # "sequential"
  PROVE  Outcome(j, o, LockedSwap(j, o))
<1> DEFINE k == Enter(j, "VerifyNew")
           c == IF j.kind = "swap" THEN "swap" ELSE "freeze"
<1>1. Cleared(j, k) /\ k.phase = "VerifyNew" /\ k.lock = j.lock /\ k.freezeAcked = j.freezeAcked
  BY EnterIs DEF Phase
<1>2. j.waitOp \notin {"seal", "freeze"} /\ j.lock = "on"
  BY DEF Form
<1>3. Outcome(j, o, Step(k))
  <2> HIDE DEF k
  <2>1. Goes(j, o, k)
    BY <1>1, <1>2, NoneIs DEF Goes, Form, Cleared, Moves, Hands, Held, Locked, Calm, Ended, BeforeLock
  <2> QED
    BY <1>1, <2>1, StepGoes, NoneIs DEF Cleared
<1>4. Outcome(j, o, Rollback(j, o, FALSE)) /\ Outcome(j, o, Step(j))
  BY <1>2, RollbackIs, LikeWaits DEF Like
<1>5. ASSUME ~FirstActive(j, o)
      PROVE  Outcome(j, o, [SwapCommand(j) EXCEPT !.j = [j EXCEPT !.seq = @ + 1]])
  <2>1. SwapCommand(j) = Command(j, c) /\ c \in {"swap", "freeze", "abandon"}
    BY DEF SwapCommand
  <2>2. c = "freeze" => j.kind = "rolling" /\ o.self = A
    BY <1>5, KindsAssumption DEF Form, First, FirstActive, Look, Server, Job
  <2>3. Command(j, c).cmd = c /\ Command(j, c).j = j
    BY <2>1, CommandIs
  <2>4. Commands(o, Command(j, c))
    BY <2>2, <2>3 DEF Commands
  <2> HIDE DEF c
  <2> QED
    BY <1>2, <2>1, <2>4, CommandAgain
<1> QED
  BY <1>3, <1>4, <1>5 DEF LockedSwap

LEMMA LockedSend ==
  ASSUME NEW j \in Job, NEW o \in Look, Form(j), j.phase = "Locked", j.kind = "sequential",
         NEW k \in Job, NEW op \in Op, NEW n \in Server,
         k.kind = j.kind, k.seq = j.seq, k.first = j.first, k.second = j.second,
         k.phase = "Locked", k.lock = "on", ~k.freezeAcked => k.sealed,
         op \in {"seal", "freeze"} => ~k.freezeAcked,
         op = "freeze" => n = B /\ ~o.fresh /\ SealAnswered(j, o),
         k.freezeAcked => Held(j) \/ (j.waitOp = "freeze" /\ ~o.fresh)
  PROVE  Outcome(j, o, Send(k, op, n))
<1> DEFINE r == Send(k, op, n)
<1>1. /\ r \in StepRecord /\ r.op = op /\ r.to = n /\ r.cmd = None
      /\ r.j.waitOp = op /\ r.j.waitNode = n /\ r.j.waitSeq = k.seq + 1
      /\ r.j.kind = k.kind /\ r.j.first = k.first /\ r.j.second = k.second /\ r.j.seq = k.seq
      /\ r.j.phase = k.phase /\ r.j.lock = k.lock
      /\ r.j.freezeAcked = k.freezeAcked /\ r.j.sealed = k.sealed
  BY SendIs
<1>2. op # None
  BY NoneIs
<1> HIDE DEF r
<1>3. Form(r.j)
  BY <1>1 DEF Form, BeforeLock
<1>4. Sends(j, r) /\ Commands(o, r)
  BY <1>1, <1>2, NoneIs DEF Sends, Commands
<1>5. Moves(j, o, r.j) /\ Hands(j, o, r.j) /\ Seals(j, o, r)
  BY <1>1 DEF Moves, Seals, Hands, Held, Locked, Ended, Calm
<1> QED
  BY <1>1, <1>3, <1>4, <1>5 DEF Outcome, r

LEMMA LockedSequentialIs ==
  ASSUME NEW j \in Job, NEW o \in Look, Form(j), j.phase = "Locked", j.kind = "sequential"
  PROVE  Outcome(j, o, LockedSequential(j, o))
<1> DEFINE a == AckOf(j, o)
           fs == [j EXCEPT !.freezeSent = TRUE]
           fa == [j EXCEPT !.freezeAcked = TRUE, !.frozenSynced = TRUE]
           un == [j EXCEPT !.lock = "none"]
           vn == Enter(j, "VerifyNew")
<1>1. /\ o.self \in Server /\ j.second = B /\ B \in Server /\ j.lock = "on"
      /\ ~j.freezeAcked => j.sealed
  BY DistinctAssumption DEF Look, Form, First, Other, Server
<1>2. \A f \in BOOLEAN : Outcome(j, o, Rollback(j, o, f))
  BY RollbackIs
<1>3. ~j.freezeAcked => Outcome(j, o, Send(j, "seal", o.self)) /\ Outcome(j, o, Send(j, "thaw", j.second))
  BY <1>1, LockedSend DEF Op
<1>4. j.waitOp = "seal" => ~j.freezeAcked
  BY DEF Form
<1>5. fs \in Job /\ Like(j, fs)
  BY DEF Job, Like
<1>6. ASSUME a # None, a.op = "seal", a.ok, ~o.fresh
      PROVE  Outcome(j, o, Send(fs, "freeze", j.second))
  <2>1. SealAnswered(j, o)
    BY <1>6, AckOfIs DEF SealAnswered
  <2>2. ~j.freezeAcked
    BY <1>4, <2>1 DEF SealAnswered
  <2> HIDE DEF fs
  <2> QED
    BY <1>1, <1>5, <1>6, <2>1, <2>2, LockedSend DEF Like, Op
<1>7. ~j.freezeAcked => Outcome(j, o, SealFailed(j, o))
  <2>1. un \in Job
    BY DEF Job
  <2>2. un.kind = j.kind /\ un.seq = j.seq /\ un.first = j.first /\ un.second = j.second /\ un.lock = "none"
    BY DEF Job
  <2>3. Outcome(j, o, UndoPrep(un, o, TRUE))
    <3> HIDE DEF un
    <3> QED
      BY <2>1, <2>2, UndoPrepIs DEF Form
  <2> QED
    BY <1>2, <2>3 DEF SealFailed
<1>8. fa \in Job
  BY DEF Job
<1>9. ASSUME j.waitOp = "freeze", ~o.fresh
      PROVE  Outcome(j, o, Send(fa, "install", o.self))
  <2>1. /\ fa.kind = j.kind /\ fa.seq = j.seq /\ fa.first = j.first /\ fa.second = j.second
        /\ fa.phase = "Locked" /\ fa.lock = "on" /\ fa.freezeAcked = TRUE
    BY <1>1 DEF Job
  <2> HIDE DEF fa
  <2> QED
    BY <1>1, <1>8, <1>9, <2>1, LockedSend DEF Op
<1>10. j.freezeAcked => Outcome(j, o, Step(vn))
  <2>1. Cleared(j, vn) /\ vn.phase = "VerifyNew" /\ vn.lock = j.lock /\ vn.freezeAcked = j.freezeAcked
    BY EnterIs DEF Phase
  <2> HIDE DEF vn
  <2>2. j.freezeAcked => Goes(j, o, vn)
    BY <1>1, <2>1, NoneIs DEF Goes, Form, Cleared, Moves, Hands, Held, Locked, Calm, Ended, BeforeLock
  <2> QED
    BY <2>1, <2>2, StepGoes, NoneIs DEF Cleared
<1>11. GotOK(j) \in Job /\ Like(j, GotOK(j)) /\ Like(j, j)
  BY DEF GotOK, Job, Like
<1>12. ASSUME j.waitOp \in {"seal", "freeze"} => ~o.fresh
       PROVE  Outcome(j, o, Step(j)) /\ Outcome(j, o, Step(GotOK(j)))
  BY <1>11, <1>12, LikeWaits
<1>13. j.freezeAcked => j.waitOp \notin {"seal", "freeze"}
  BY DEF Form
<1>14. a # None => a.op = j.waitOp
  BY AckOfIs
<1>15. CASE ~j.freezeAcked /\ o.fresh /\ j.sealed /\ j.waitOp = "seal"
  BY <1>3, <1>15 DEF LockedSequential
<1>16. CASE ~j.freezeAcked /\ o.fresh /\ j.sealed /\ j.waitOp = "freeze"
  BY <1>3, <1>16 DEF LockedSequential
<1>17. CASE ~j.freezeAcked /\ ~(o.fresh /\ j.sealed /\ j.waitOp \in {"seal", "freeze"})
  <2>1. LockedSequential(j, o) =
            CASE a = None -> Step(j)
              [] a # None /\ a.op = "seal" /\ a.ok -> Send(fs, "freeze", j.second)
              [] a # None /\ a.op = "seal" /\ ~a.ok -> SealFailed(j, o)
              [] a # None /\ a.op = "thaw" /\ a.ok -> Send(j, "seal", o.self)
              [] a # None /\ a.op = "freeze" /\ a.ok -> Send(fa, "install", o.self)
              [] OTHER -> Rollback(j, o, FALSE)
    BY <1>17 DEF LockedSequential
  <2>2. j.waitOp \in {"seal", "freeze"} => ~o.fresh
    BY <1>1, <1>17
  <2> HIDE DEF fs, fa, a
  <2>3. CASE a = None
    BY <1>12, <2>1, <2>2, <2>3
  <2>4. CASE a # None /\ a.op = "seal" /\ a.ok
    BY <1>6, <1>14, <2>1, <2>2, <2>4
  <2>5. CASE a # None /\ a.op = "seal" /\ ~a.ok
    BY <1>7, <1>17, <2>1, <2>5
  <2>6. CASE a # None /\ a.op = "thaw" /\ a.ok
    BY <1>3, <1>17, <2>1, <2>6
  <2>7. CASE a # None /\ a.op = "freeze" /\ a.ok
    BY <1>9, <1>14, <2>1, <2>2, <2>7
  <2>8. CASE a # None /\ a.op # "seal" /\ ~(a.op \in {"thaw", "freeze"} /\ a.ok)
    BY <1>2, <2>1, <2>8
  <2> QED
    BY <2>3, <2>4, <2>5, <2>6, <2>7, <2>8
<1>18. CASE j.freezeAcked
  <2>1. LockedSequential(j, o) \in {Step(vn), Step(j), Step(GotOK(j))} \cup {Rollback(j, o, f) : f \in BOOLEAN}
    <3>1. (~a.noFault) \in BOOLEAN
      OBVIOUS
    <3> QED
      BY <1>18, <3>1 DEF LockedSequential
  <2> QED
    BY <1>2, <1>10, <1>12, <1>13, <1>18, <2>1
<1> QED
  BY <1>15, <1>16, <1>17, <1>18

LEMMA UndoIs ==
  ASSUME NEW j \in Job, NEW o \in Look, Form(j), j.phase = "Rollback", j.lock = "none"
  PROVE  Outcome(j, o, UndoStep(j, o))
<1> DEFINE a == AckOf(j, o)
<1>1. \A h \in BOOLEAN : Outcome(j, o, Step([Finish(j, "Failed") EXCEPT !.help = h]))
  BY FinishHelpIs DEF Like
<1>2. Outcome(j, o, Step(Finish(j, "Failed"))) /\ Outcome(j, o, Step(j))
  BY FinishIs, FinishOutcome, LikeOutcome DEF Cleared, Ended, Like
<1>3. (~a.ok) \in BOOLEAN /\ TRUE \in BOOLEAN
  OBVIOUS
<1>4. UndoStep(j, o) \in {Step(Finish(j, "Failed")), Step(j)}
                         \cup {Step([Finish(j, "Failed") EXCEPT !.help = h]) : h \in BOOLEAN}
  BY <1>3, Zenon DEF UndoStep
<1> QED
  BY <1>1, <1>2, <1>4

\* On the way back from the lock, from the job itself or with the seal done.
LEMMA BackIs ==
  ASSUME NEW j \in Job, NEW o \in Look, Form(j), j.phase = "Rollback", j.lock = "on",
         ~NewActive(j, o), NEW i \in Job, Form(i), i.kind = j.kind, i.seq = j.seq,
         i.phase = "Rollback", i.lock = "on", i.freezeAcked = j.freezeAcked,
         i.waitSeq \in {0, j.waitSeq}
  PROVE  Outcome(j, o, BackStep(i, o))
<1> DEFINE a == AckOf(i, o)
           op == RollbackOp(i, o)
           sent == [i EXCEPT !.rollbackSent = TRUE]
           wait == [i EXCEPT !.waitOp = None]
<1>1. Other(o.self) \in Server /\ (op # None => op \in Op \ {"seal", "freeze"})
  BY DEF Look, Other, Server, RollbackOp, Op
<1>2. i.waitOp \notin {"seal", "freeze"}
  BY DEF Form
<1>3. \A k \in Job : Like(i, k) => Goes(j, o, k) /\ Outcome(j, o, Step(k))
  <2> SUFFICES ASSUME NEW k \in Job, Like(i, k)
               PROVE  Goes(j, o, k) /\ Outcome(j, o, Step(k))
    OBVIOUS
  <2>1. Goes(j, o, k)
    BY DEF Goes, Form, Moves, Hands, Held, Locked, Calm, Ended, Like, BeforeLock
  <2> QED
    BY <1>2, <2>1, StepGoes DEF Like
<1>4. sent \in Job /\ Like(i, sent)
  BY DEF Job, Like
<1>5. op # None => Outcome(j, o, Send(sent, op, Other(o.self)))
  BY <1>1, <1>3, <1>4, SendGoes
<1>6. wait \in Job
  BY DEF Job
<1>7. Outcome(j, o, Step(wait))
  <2>1. /\ wait.kind = i.kind /\ wait.first = i.first /\ wait.second = i.second /\ wait.seq = i.seq
        /\ wait.phase = i.phase /\ wait.lock = i.lock /\ wait.freezeAcked = i.freezeAcked
        /\ wait.waitOp = None /\ wait.waitSeq = i.waitSeq
    BY DEF Job
  <2> HIDE DEF wait
  <2>2. Goes(j, o, wait)
    BY <1>6, <2>1, NoneIs DEF Goes, Form, Moves, Hands, Held, Locked, Calm, Ended, BeforeLock
  <2> QED
    BY <2>1, <2>2, StepGoes, NoneIs
<1>8. GotOK(i) \in Job /\ Like(i, GotOK(i)) /\ Like(i, i)
  BY DEF GotOK, Job, Like
<1>9. \A k \in {i, GotOK(i)} : Outcome(j, o, Step(k)) /\ Outcome(j, o, Step(Finish(k, "Failed")))
  <2> SUFFICES ASSUME NEW k \in {i, GotOK(i)}
               PROVE  Outcome(j, o, Step(k)) /\ Outcome(j, o, Step(Finish(k, "Failed")))
    OBVIOUS
  <2>1. k \in Job /\ Like(i, k)
    BY <1>8
  <2>2. Cleared(k, Finish(k, "Failed")) /\ Finish(k, "Failed").phase = "Failed"
    BY <2>1, FinishIs
  <2>3. Cleared(j, Finish(k, "Failed")) /\ Ended(Finish(k, "Failed"))
    BY <2>1, <2>2 DEF Cleared, Like, Ended, Form
  <2> QED
    BY <1>3, <2>1, <2>3, FinishOutcome DEF Cleared
<1>10. BackStep(i, o) \in {Step(i), Step(GotOK(i)), Step(Finish(i, "Failed")), Step(Finish(GotOK(i), "Failed")),
                           Step(sent), Step(wait)}
                          \cup (IF op # None THEN {Send(sent, op, Other(o.self))} ELSE {})
  <2> HIDE DEF sent, wait
  <2> DEFINE ok == a # None \/ (op = "rollback" /\ i.waitOp = "rollback" /\ ~i.waitOK /\ PartnerOnOld(o))
             k == IF ok THEN GotOK(i) ELSE i
             last == IF (op = None \/ k.waitOK) /\ o.mirrorSync /\ o.selfOK
                     THEN Step(Finish(k, "Failed")) ELSE Step(k)
  <2>1. BackStep(i, o) =
          CASE ~i.rollbackSent /\ o.dbPending /\ op # None -> Step(i)
            [] ~i.rollbackSent /\ op = None -> Step(sent)
            [] ~i.rollbackSent /\ ~o.dbPending /\ op # None -> Send(sent, op, Other(o.self))
            [] i.rollbackSent /\ a # None /\ ~a.ok -> Step(wait)
            [] OTHER -> last
    BY Zenon DEF BackStep, sent, wait
  <2>2. last \in {Step(i), Step(GotOK(i)), Step(Finish(i, "Failed")), Step(Finish(GotOK(i), "Failed"))}
    OBVIOUS
  <2> HIDE DEF a, op, ok, k, last
  <2> QED
    BY <2>1, <2>2
<1> HIDE DEF sent, wait, op
<1> QED
  BY <1>3, <1>4, <1>5, <1>7, <1>9, <1>10

LEMMA RollbackStepIs ==
  ASSUME NEW j \in Job, NEW o \in Look, Form(j), j.phase = "Rollback"
  PROVE  Outcome(j, o, RollbackStep(j, o))
<1> DEFINE unseal == j.kind = "sequential" /\ o.self = j.first /\ ~j.freezeAcked /\ j.sealed
           i == [j EXCEPT !.sealed = FALSE, !.waitOp = None, !.waitNode = None,
                          !.waitSeq = 0, !.waitOK = FALSE]
<1>1. CASE j.lock = "none"
  BY <1>1, UndoIs DEF RollbackStep
<1>2. CASE j.lock # "none" /\ NewActive(j, o)
  <2>1. j.lock = "on" /\ j.waitOp \notin {"seal", "freeze"}
    BY <1>2 DEF Form
  <2> DEFINE c == IF j.kind = "swap" THEN "swap" ELSE "abandon"
  <2>2. SwapBack(j) = Command(j, c) /\ c \in {"swap", "freeze", "abandon"}
    BY DEF SwapBack
  <2>3. Command(j, c).cmd = c /\ Command(j, c).j = j
    BY <2>2, CommandIs
  <2>4. Commands(o, Command(j, c))
    BY <1>2, <2>1, <2>3 DEF Commands, NewActive, FirstActive
  <2>5. Outcome(j, o, [SwapBack(j) EXCEPT !.j = [j EXCEPT !.seq = @ + 1]])
    <3> HIDE DEF c
    <3> QED
      BY <2>1, <2>2, <2>4, CommandAgain
  <2>6. Outcome(j, o, Step(j))
    BY LikeOutcome DEF Like
  <2> QED
    BY <1>2, <2>5, <2>6 DEF RollbackStep
<1>3. CASE j.lock # "none" /\ ~NewActive(j, o)
  <2>1. j.lock = "on" /\ o.self \in Server
    BY <1>3 DEF Form, Look
  <2>2. Outcome(j, o, BackStep(j, o)) /\ Outcome(j, o, Step(j))
    BY <1>3, <2>1, BackIs, LikeOutcome DEF Like
  <2>3. i \in Job
    BY DEF Job
  <2>4. /\ i.kind = j.kind /\ i.seq = j.seq /\ i.first = j.first /\ i.second = j.second
        /\ i.phase = "Rollback" /\ i.lock = "on" /\ i.freezeAcked = j.freezeAcked
        /\ i.waitSeq = 0 /\ i.waitOp = None
    BY <2>1 DEF Job
  <2>5. RollbackStep(j, o) \in {Step(j), Send(j, "rollback_norestart", o.self), BackStep(i, o), BackStep(j, o)}
    BY <1>3, <2>1 DEF RollbackStep
  <2> HIDE DEF i
  <2>6. Form(i)
    BY <2>4, NoneIs DEF Form, BeforeLock
  <2>7. Outcome(j, o, BackStep(i, o))
    BY <1>3, <2>1, <2>3, <2>4, <2>6, BackIs
  <2>8. Outcome(j, o, Send(j, "rollback_norestart", o.self))
    BY <2>1, LikeGoes, SendGoes DEF Like, Op
  <2> QED
    BY <2>2, <2>5, <2>7, <2>8
<1> QED
  BY <1>1, <1>2, <1>3

LEMMA OverdueIs ==
  ASSUME NEW j \in Job, NEW o \in Look, Form(j), Overdue(j, o)
  PROVE  Outcome(j, o, OverdueStep(j, o))
<1>1. CASE j.phase \in {"Locked", "VerifyNew"}
  <2>1. NewStarted(j, o) \in BOOLEAN
    BY DEF NewStarted, FirstActive, Job
  <2> QED
    BY <1>1, <2>1, RollbackIs DEF OverdueStep
<1>2. CASE j.phase = "Release"
  BY <1>2, ReleaseIs DEF OverdueStep
<1>3. CASE j.phase = "Rollback"
  <2>1. OverdueStep(j, o) = Step([Finish(j, "Failed") EXCEPT !.help = TRUE])
    BY <1>3 DEF OverdueStep
  <2> QED
    BY <1>3, <2>1, FinishHelpIs DEF Like, Overdue
<1> QED
  BY <1>1, <1>2, <1>3 DEF Overdue

LEMMA AbortIs ==
  ASSUME NEW j \in Job, NEW o \in Look, Form(j), Abortable(j)
  PROVE  /\ Outcome(j, o, AbortStep(j, o))
         /\ j.phase = "Ask" \/ BeforeLock(j) => Calm(AbortStep(j, o).j)
<1>1. CASE j.phase = "Ask"
  <2>1. Cleared(j, Finish(j, "Failed")) /\ Finish(j, "Failed").phase = "Failed"
    BY FinishIs
  <2>2. AbortStep(j, o) = Step(Finish(j, "Failed"))
    BY <1>1 DEF AbortStep, BeforeLock
  <2>3. Outcome(j, o, Step(Finish(j, "Failed"))) /\ Calm(Finish(j, "Failed"))
    BY <1>1, <2>1, FinishOutcome DEF Cleared, Ended
  <2> QED
    BY <2>1, <2>2, <2>3, StepIs DEF Cleared
<1>2. CASE BeforeLock(j)
  <2>1. (j.phase # "Entry") \in BOOLEAN
    OBVIOUS
  <2>2. AbortStep(j, o) = UndoPrep(j, o, j.phase # "Entry")
    BY <1>2 DEF AbortStep, BeforeLock
  <2> QED
    BY <1>2, <2>1, <2>2, UndoPrepIs DEF BeforeLock, Form
<1>3. CASE j.phase \in {"Locked", "VerifyNew"}
  BY <1>3, RollbackIs DEF AbortStep, BeforeLock
<1> QED
  BY <1>1, <1>2, <1>3 DEF Abortable

LEMMA PhaseIs ==
  ASSUME NEW j \in Job, NEW o \in Look, Form(j), ~Ended(j)
  PROVE  Outcome(j, o, PhaseStep(j, o))
<1>1. CASE j.phase \in {"Ask", "Entry", "Prepare"}
  BY <1>1, AskIs, EntryIs, PrepareIs DEF PhaseStep
<1>2. CASE j.phase \in {"VerifyPrep", "Countdown"}
  BY <1>2, VerifyPrepIs, CountdownIs DEF PhaseStep
<1>3. CASE j.phase = "Locked"
  BY <1>3, LockedSwapIs, LockedSequentialIs DEF PhaseStep
<1>4. CASE j.phase \in {"VerifyNew", "Release"}
  BY <1>4, VerifyNewIs, ReleaseIs DEF PhaseStep
<1>5. CASE j.phase \in {"Follow", "Rollback"}
  BY <1>5, FollowIs, RollbackStepIs DEF PhaseStep
<1> QED
  BY <1>1, <1>2, <1>3, <1>4, <1>5 DEF Job, Phase, Ended

-----------------------------------------------------------------------------
(* The whole step.                                                         *)

\* What a whole step says: the job changes with its number.
Stepped(j, o, r) ==
  /\ r \in StepRecord /\ Form(r.j) /\ r.j.kind = j.kind
  /\ r.j = j \/ r.j.seq = j.seq + 1
  /\ r.op # None => r.j.seq = j.seq + 1
  /\ Sends(j, r) /\ Commands(o, r) /\ Moves(j, o, r.j) /\ Seals(j, o, r)
  /\ ~o.takeover => Hands(j, o, r.j)
  /\ o.takeover => Calm(r.j) /\ r.cmd = None
  /\ BeforeLock(j) /\ o.abort => Calm(r.j)

\* Noting an installation, or a frozen partner, changes marks only.
LEMMA NotedIs ==
  ASSUME NEW j \in Job, NEW o \in Look
  PROVE  /\ NoteInstall(j, o) \in Job /\ Like(j, NoteInstall(j, o))
         /\ [NoteInstall(j, o) EXCEPT !.frozenSynced = TRUE] \in Job
         /\ Like(j, [NoteInstall(j, o) EXCEPT !.frozenSynced = TRUE])
<1> DEFINE b == \/ j.first # o.self /\ o.partnerCommit = "new"
                \/ /\ o.ack # None
                   /\ ~o.ack.ok /\ o.ack.node = j.first
                   /\ o.ack.op \in {"install", "install_norestart"}
           n == NoteInstall(j, o)
<1>1. b \in BOOLEAN
  OBVIOUS
<1>2. n = IF j.installSeen \/ j.kind = "swap" THEN j ELSE [j EXCEPT !.installSeen = b]
  BY Zenon DEF NoteInstall
<1> HIDE DEF b, n
<1>3. [j EXCEPT !.installSeen = b] \in Job /\ Like(j, [j EXCEPT !.installSeen = b])
  BY <1>1 DEF Job, Like
<1>4. n \in Job /\ Like(j, n)
  BY <1>2, <1>3 DEF Like
<1>5. [n EXCEPT !.frozenSynced = TRUE] \in Job
  BY <1>4 DEF Job
<1>6. Like(n, [n EXCEPT !.frozenSynced = TRUE])
  BY <1>4 DEF Job, Like
<1> QED
  BY <1>4, <1>5, <1>6 DEF n, Like

\* One step of the job, from anything it may see.
LEMMA UpdateStepIs ==
  ASSUME NEW j \in Job, NEW o \in Look, Form(j), ~Ended(j), j.waitSeq <= j.seq
  PROVE  Stepped(j, o, UpdateStep(j, o))
<1> DEFINE n == NoteInstall(j, o)
           i == IF n.kind # "sequential" /\ n.phase = "Locked" /\ FirstActive(n, o)
                THEN [n EXCEPT !.frozenSynced = TRUE] ELSE n
           r == CASE o.takeover -> Step(Finish(i, "Failed"))
                  [] ~o.takeover /\ o.abort /\ Abortable(i) -> AbortStep(i, o)
                  [] ~o.takeover /\ ~(o.abort /\ Abortable(i)) /\ Overdue(i, o) -> OverdueStep(i, o)
                  [] OTHER -> PhaseStep(i, o)
           s == j.seq + 1
           k == [r.j EXCEPT !.seq = s]
           q == [r EXCEPT !.j = k]
<1>1. UpdateStep(j, o) = IF r.j = j THEN r ELSE q
  BY Zenon DEF UpdateStep
<1>2. i \in Job /\ Like(j, i)
  BY NotedIs
<1> HIDE DEF n, i
<1>3. Form(i) /\ ~Ended(i) /\ i.waitSeq <= i.seq
  BY <1>2 DEF Like, Form, BeforeLock, Ended
\* A take-over only ends the job.
<1>4. ASSUME o.takeover
      PROVE  /\ r = Step(Finish(i, "Failed")) /\ Cleared(i, Finish(i, "Failed"))
             /\ Calm(Finish(i, "Failed")) /\ Form(Finish(i, "Failed"))
  <2>1. Cleared(i, Finish(i, "Failed")) /\ Finish(i, "Failed").phase = "Failed"
    BY <1>2, FinishIs
  <2>2. Form(Finish(i, "Failed")) /\ Calm(Finish(i, "Failed"))
    BY <1>3, <2>1, NoneIs DEF Form, Cleared, Calm, Ended, BeforeLock
  <2> QED
    BY <1>4, <2>1, <2>2
<1>5. ASSUME ~o.takeover
      PROVE  Outcome(i, o, r) /\ (BeforeLock(i) /\ o.abort => Calm(r.j))
  <2>1. CASE o.abort /\ Abortable(i)
    <3>1. r = AbortStep(i, o)
      BY <1>5, <2>1
    <3> QED
      BY <1>2, <1>3, <2>1, <3>1, AbortIs
  <2>2. CASE ~(o.abort /\ Abortable(i)) /\ Overdue(i, o)
    <3>1. r = OverdueStep(i, o)
      BY <1>5, <2>2
    <3> QED
      BY <1>2, <1>3, <2>2, <3>1, OverdueIs DEF Abortable
  <2>3. CASE ~(o.abort /\ Abortable(i)) /\ ~Overdue(i, o)
    <3>1. r = PhaseStep(i, o)
      BY <1>5, <2>3
    <3> QED
      BY <1>2, <1>3, <2>3, <3>1, PhaseIs DEF Abortable
  <2> QED
    BY <2>1, <2>2, <2>3
<1> HIDE DEF r
<1>6. r \in StepRecord /\ Form(r.j) /\ r.j.kind = j.kind
  BY <1>2, <1>4, <1>5, StepIs DEF Outcome, Like, Cleared
<1>7. Sends(j, r) /\ Commands(o, r)
  <2>1. CASE o.takeover
    BY <1>4, <2>1, StepIs, NoneIs DEF Sends, Commands, Cleared
  <2>2. CASE ~o.takeover
    BY <1>2, <1>5, <2>2 DEF Outcome, Like, Sends
  <2> QED
    BY <2>1, <2>2
<1>8. Moves(j, o, r.j)
  <2>1. CASE o.takeover
    BY <1>2, <1>4, <2>1, StepIs DEF Moves, Cleared
  <2>2. CASE ~o.takeover
    BY <1>2, <1>5, <2>2 DEF Outcome, Like, Moves, Locked, Ended, Calm
  <2> QED
    BY <2>1, <2>2
<1>9. Seals(j, o, r)
  <2>1. CASE o.takeover
    BY <1>4, <2>1, StepIs, NoneIs DEF Seals, Cleared, Held, Calm, Ended, Form
  <2>2. CASE ~o.takeover
    BY <1>2, <1>5, <2>2 DEF Outcome, Like, Seals, Held, SealAnswered
  <2> QED
    BY <2>1, <2>2
<1>10. ~o.takeover => Hands(j, o, r.j)
  BY <1>2, <1>5 DEF Outcome, Like, Hands, NewActive, FirstActive
<1>11. o.takeover => Calm(r.j) /\ r.cmd = None
  BY <1>4, StepIs DEF Cleared
<1>12. BeforeLock(j) /\ o.abort => Calm(r.j)
  BY <1>2, <1>5, <1>11 DEF Like, BeforeLock
<1>13. CASE r.j = j
  <2>1. r.op = None
    BY <1>7, <1>13 DEF Sends, Job
  <2> QED
    BY <1>1, <1>6, <1>7, <1>8, <1>9, <1>10, <1>11, <1>12, <1>13, <2>1 DEF Stepped
<1>14. CASE r.j # j
  <2>1. UpdateStep(j, o) = q /\ s \in Nat
    BY <1>1, <1>14 DEF Job
  <2>2. r.j \in Job
    BY <1>6 DEF StepRecord
  <2> DEFINE e == r.j
             f == [e EXCEPT !.seq = s]
  <2>3. q = [r EXCEPT !.j = f]
    OBVIOUS
  <2> HIDE DEF e, s, q
  <2>4. f \in Job
    BY <2>1, <2>2 DEF Job, e
  <2>5. /\ f.seq = s /\ f.kind = e.kind /\ f.first = e.first /\ f.second = e.second
        /\ f.phase = e.phase /\ f.lock = e.lock /\ f.freezeAcked = e.freezeAcked /\ f.sealed = e.sealed
        /\ f.waitOp = e.waitOp /\ f.waitNode = e.waitNode /\ f.waitSeq = e.waitSeq
    BY <2>2 DEF Job, e
  <2> HIDE DEF f
  <2>6. q \in StepRecord /\ q.j = f /\ q.op = r.op /\ q.to = r.to /\ q.cmd = r.cmd
    BY <1>6, <2>3, <2>4 DEF StepRecord
  <2>7. Form(f)
    BY <1>6, <2>5 DEF Form, BeforeLock, e
  <2>8. Sends(j, q) /\ Commands(o, q)
    BY <1>7, <2>5, <2>6 DEF Sends, Commands, e
  <2>9. Moves(j, o, f) /\ (~o.takeover => Hands(j, o, f))
    BY <1>8, <1>10, <2>5 DEF Moves, Hands, Locked, Ended, Calm, e
  <2>10. Seals(j, o, q)
    BY <1>9, <2>5, <2>6 DEF Seals, Held, e
  <2>11. Calm(r.j) => Calm(f)
    BY <2>5 DEF Calm, Ended, e
  <2> QED
    BY <1>6, <1>11, <1>12, <2>1, <2>5, <2>6, <2>7, <2>8, <2>9, <2>10, <2>11 DEF Stepped, s, e
<1> QED
  BY <1>13, <1>14

-----------------------------------------------------------------------------
(* The inductive invariant: a database that may be written has every write *)
(* confirmed, and so has a frozen copy as long as a job may turn back to   *)
(* it (in a rolling update A's, in a sequential one B's).                  *)

\* The kinds of what is not in the type invariant of UpdateJob.
Task == [op : Op, seq : Nat, from : Server, sealed : BOOLEAN]
Letter == [op : Op \cup {None}, job : Job]
Flags == [abort : BOOLEAN, confirm : {"no", "yes", "blocked"}, fresh : BOOLEAN,
          restart : BOOLEAN, takeover : BOOLEAN, entered : BOOLEAN]

JobTypes == /\ job \in [Server -> Job] /\ flags \in [Server -> Flags]
            /\ cmd \in [Server -> {"swap", "freeze", "abandon", None}]
            /\ mail \in [Server -> Letter \cup {None}]

OpTypes == /\ acks \in [Server -> Seq(Ack)] /\ done \in [Server -> Ack \cup {None}]
           /\ running \in [Server -> Task \cup {None}]

WorldTypes == /\ active \in Server /\ acked \in Nat /\ data \in [Server -> Nat]
              /\ db \in [Server -> {"primary", "sealed", "standby", "frozen", "stopped", "replaced"}]
              /\ commit \in [Server -> {"old", "new"}] /\ seen \in [Server -> {"old", "new"}]

\* Every copy of the job is well formed and of one kind; what is on its way
\* comes from the conducting server.
JobsFit == \A n \in Server : Form(job[n]) /\ job[n].waitSeq <= job[n].seq /\ job[n].kind = job[A].kind

\* A message goes to the passive server, from the job of the active one.
MailFits ==
  \A n \in Server : mail[n] # None =>
    LET in == mail[n].job
    IN /\ n # active /\ Form(in) /\ in.waitSeq <= in.seq /\ in.kind = job[A].kind
       /\ in.seq <= job[Other(n)].seq
       /\ mail[n].op # None => mail[n].op = in.waitOp /\ in.waitNode = n

\* No number of an operation is ahead of the job.
NumbersFit ==
  \A n \in Server :
    /\ running[n] # None => running[n].seq <= job[n].seq /\ running[n].seq <= job[running[n].from].seq
    /\ \A i \in DOMAIN acks[n] : acks[n][i].seq <= job[n].seq
    /\ done[n] # None => done[n].seq <= job[n].seq

\* Only B is ever told to freeze by a message, and only in one kind of update.
OrdersFit ==
  \A n \in Server : running[n] # None /\ running[n].op = "freeze" => n = B /\ job[A].kind = "sequential"

\* A command waits only at the active server, for the phase it belongs to.
CommandsFit ==
  \A n \in Server : cmd[n] # None =>
    /\ active = n /\ ~flags[n].takeover
    /\ cmd[n] = "swap" => job[A].kind = "swap"
    /\ cmd[n] = "freeze" => job[A].kind = "rolling" /\ n = A
    /\ cmd[n] = "abandon" => /\ job[n].phase = "Rollback" /\ job[n].lock = "on"
                             /\ n = job[n].first /\ job[n].kind # "swap"
                             /\ job[n].kind = "sequential" => job[n].freezeAcked

Book == JobsFit /\ MailFits /\ NumbersFit /\ OrdersFit /\ CommandsFit

\* A database that may be written is the active one and has every write; one
\* frozen on the active server has, too.
Writable == \A n \in Server : db[n] \in {"primary", "sealed"} => active = n /\ data[n] = acked

\* The one server that is ever frozen; active, its copy has every write.
Frozen ==
  \A n \in Server : db[n] = "frozen" =>
    /\ job[A].kind # "swap" /\ n = Other(First(job[A].kind))
    /\ active = n => data[n] = acked

\* The job of B, active after a swap, that never turns back to a frozen A.
NoWayBack ==
  LET j == job[B]
  IN /\ cmd[B] = None
     /\ \/ Calm(j)
        \/ j.phase = "Ask" /\ (flags[B].confirm # "yes" \/ flags[B].takeover)
        \/ BeforeLock(j) /\ (flags[B].restart \/ flags[B].abort \/ flags[B].takeover)

\* Rolling: as long as B may turn back, nobody wrote since A was frozen.
WayBackComplete ==
  job[A].kind = "rolling" /\ db[A] = "frozen" /\ active = B =>
    \/ NoWayBack
    \/ data[A] = acked /\ (Locked(job[B]) \/ (flags[B].entered /\ job[B].phase = "Countdown"))

\* Sequential: A's next step starts the seal over, or ends the job.
Redo == flags[A].fresh \/ flags[A].takeover

SealOK(a) == a.op = "seal" /\ a.ok /\ a.seq >= job[A].waitSeq

\* Sequential: a seal is answered when B has every write.
SealComplete ==
  active = A /\ job[A].phase = "Locked" /\ job[A].waitOp = "seal"
      /\ ((\E i \in DOMAIN acks[A] : SealOK(acks[A][i])) \/ (done[A] # None /\ SealOK(done[A])))
    => data[B] = acked \/ Redo

\* B seals only where it is active.
SealAtB ==
  job[A].kind = "sequential" /\ done[B] # None /\ done[B].op = "seal" /\ done[B].ok => active = B

\* Sequential: B is told to freeze when it has every write.
FreezeComplete == active = A /\ job[A].waitOp = "freeze" => data[B] = acked \/ Redo

\* B is not frozen, nor told to freeze.
NotFrozen == db[B] # "frozen" /\ (running[B] # None => running[B].op # "freeze")
             /\ (mail[B] # None => mail[B].op # "freeze")

\* Sequential: as long as the job may turn back to B, B has every write or is no frozen copy.
CopyComplete == active = A /\ Held(job[A]) => data[B] = acked \/ NotFrozen

JobInv == JobTypes /\ OpTypes /\ WorldTypes /\ Book /\ Writable /\ Frozen
          /\ WayBackComplete /\ SealComplete /\ SealAtB /\ FreezeComplete /\ CopyComplete

-----------------------------------------------------------------------------
(* The steps.                                                              *)

\* The two servers.
LEMMA Servers ==
  /\ A \in Server /\ B \in Server /\ A # B
  /\ \A n \in Server : /\ Other(n) \in Server /\ Other(n) # n /\ Other(Other(n)) = n
                       /\ \A m \in Server : m # n => m = Other(n)
  /\ Other(A) = B /\ Other(B) = A
BY DistinctAssumption DEF Server, Other

\* What the conducting server sees, and what its step says.
Looks(n, o) ==
  /\ o \in Look /\ o.self = n /\ o.takeover = flags[n].takeover /\ o.fresh = flags[n].fresh
  /\ o.abort = (flags[n].abort \/ flags[n].restart) /\ o.confirm = flags[n].confirm
  /\ o.handover = (cmd[n] # None)
  /\ o.ack # None => acks[n] # <<>> /\ o.ack = acks[n][1]
  /\ cmd[n] # None => ~o.late
  /\ cmd[n] = None /\ job[n].phase = "Countdown" /\ n # job[n].second /\ job[n].kind # "sequential" => o.late

\* What the conducting server sees is of the kinds a step may see.
LEMMA ViewIs ==
  ASSUME JobTypes, OpTypes, WorldTypes, NEW n \in Server, NEW o \in Views(n)
  PROVE  Looks(n, o)
<1>10. PICK late \in Late(n), lockMax \in BOOLEAN, again \in Again,
         selfOK \in SelfAnswers(n), partnerOK \in PartnerAnswers(n), partnerUp \in BOOLEAN,
         ack \in {None} \cup {acks[n][1] : i \in DOMAIN acks[n]} :
           o = View(n, late, lockMax, again, selfOK, partnerOK, partnerUp, ack)
  BY DEF Views
<1>11. again \in BOOLEAN /\ selfOK \in BOOLEAN /\ partnerOK \in BOOLEAN
  BY DEF Again, SelfAnswers, PartnerAnswers
<1>1. late \in BOOLEAN
  BY DEF Late
<1>2. ack \in Ack \cup {None} /\ (ack # None => acks[n] # <<>> /\ ack = acks[n][1])
  <2>1. acks[n] \in Seq(Ack)
    BY DEF OpTypes
  <2>2. ASSUME NEW i \in DOMAIN acks[n]
        PROVE  acks[n] # <<>> /\ acks[n][1] \in Ack
    BY <2>1, <2>2
  <2> QED
    BY <2>2
<1>3. /\ flags[n] \in Flags /\ commit[n] \in {"old", "new"} /\ seen[Other(n)] \in {"old", "new"}
  BY Servers DEF JobTypes, WorldTypes
<1> DEFINE sync == db[n] \in {"primary", "sealed"} /\ db[Other(n)] = "standby"
           pending == db[n] # "primary"
           hand == cmd[n] # None
           ab == flags[n].abort \/ flags[n].restart
<1>4. sync \in BOOLEAN /\ pending \in BOOLEAN /\ hand \in BOOLEAN /\ ab \in BOOLEAN
  BY <1>3 DEF Flags
<1>5. o = [self |-> n, late |-> late, lockMax |-> lockMax, again |-> again,
           selfOK |-> selfOK, partnerOK |-> partnerOK, partnerUp |-> partnerUp, ack |-> ack,
           selfCommit |-> commit[n], partnerCommit |-> seen[Other(n)],
           mirrorSync |-> sync, dbPending |-> pending, handover |-> hand,
           abort |-> ab, confirm |-> flags[n].confirm,
           takeover |-> flags[n].takeover, fresh |-> flags[n].fresh]
  BY <1>10, Zenon DEF View
<1>6. /\ flags[n].confirm \in {"no", "yes", "blocked"} /\ flags[n].takeover \in BOOLEAN
      /\ flags[n].fresh \in BOOLEAN
  BY <1>3 DEF Flags
<1> HIDE DEF sync, pending, hand, ab
<1>7. o \in Look
  BY <1>11, <1>1, <1>2, <1>3, <1>4, <1>5, <1>6 DEF Look
<1>8. /\ o.self = n /\ o.takeover = flags[n].takeover /\ o.fresh = flags[n].fresh
      /\ o.abort = ab /\ o.confirm = flags[n].confirm /\ o.handover = hand /\ o.ack = ack /\ o.late = late
  BY <1>5
<1>9. /\ cmd[n] # None => ~late
      /\ cmd[n] = None /\ job[n].phase = "Countdown" /\ n # job[n].second /\ job[n].kind # "sequential" => late
  BY DEF Late
<1> QED
  BY <1>2, <1>7, <1>8, <1>9 DEF Looks, ab, hand

\* The changes a step makes.
Conducted(n, o, r) ==
  LET m == Other(n)
  IN /\ Looks(n, o) /\ Stepped(job[n], o, r)
     /\ job' = [job EXCEPT ![n] = r.j]
     /\ acks' = [acks EXCEPT ![n] = IF o.ack # None THEN Tail(@) ELSE @]
     /\ flags' = [flags EXCEPT ![n] = NoFlags]
     /\ cmd' = [cmd EXCEPT ![n] = IF r.cmd = None THEN @ ELSE r.cmd]
     /\ mail' = IF r.to = m THEN [mail EXCEPT ![m] = [op |-> r.op, job |-> r.j]]
                ELSE IF r.j # job[n] THEN [mail EXCEPT ![m] = [op |-> None, job |-> r.j]] ELSE mail
     /\ running' = IF r.to = n
                   THEN [running EXCEPT ![n] = [op |-> r.op, seq |-> r.j.waitSeq, from |-> n, sealed |-> r.j.sealed]]
                   ELSE running
     /\ UNCHANGED <<done, faults, world>>

\* A tick of the conducting server makes a step of its job.
LEMMA ConductIs ==
  ASSUME JobInv, NEW n \in Server, Conduct(n)
  PROVE  /\ active = n /\ ~Ended(job[n]) /\ mail[Other(n)] = None
         /\ \E o, r : Conducted(n, o, r)
<1>1. /\ active = n /\ ~Ended(job[n]) /\ mail[Other(n)] = None
      /\ \E s \in {[UpdateStep(job[n], o) EXCEPT !.ack = o.ack # None] : o \in Views(n)} : TickEnd(n, s)
      /\ UNCHANGED <<done, faults, world>>
  BY DEF Conduct, ConductOn
<1>2. PICK o \in Views(n) : TickEnd(n, [UpdateStep(job[n], o) EXCEPT !.ack = o.ack # None])
  BY <1>1
<1> DEFINE r == UpdateStep(job[n], o)
           b == o.ack # None
           s == [r EXCEPT !.ack = b]
<1>3. Looks(n, o)
  BY ViewIs DEF JobInv
<1>4. Stepped(job[n], o, r)
  <2>1. job[n] \in Job /\ Form(job[n]) /\ job[n].waitSeq <= job[n].seq
    BY DEF JobInv, JobTypes, Book, JobsFit
  <2> QED
    BY <1>1, <1>3, <2>1, UpdateStepIs DEF Looks
<1>5. TickEnd(n, s)
  BY <1>2
<1> HIDE DEF r, b
<1>6. s.j = r.j /\ s.op = r.op /\ s.to = r.to /\ s.cmd = r.cmd /\ s.ack = b
  BY <1>4 DEF Stepped, StepRecord
<1> HIDE DEF s
<1>7. Conducted(n, o, r)
  BY <1>1, <1>3, <1>4, <1>5, <1>6 DEF TickEnd, Conducted, b
<1> QED
  BY <1>1, <1>7

\* What most actions do: the job, the roles and the writes stay, orders and
\* answers only go, and the databases follow the active one.
Lesser ==
  \A m \in Server : /\ mail'[m] \in {mail[m], None} /\ running'[m] \in {running[m], None}
                    /\ cmd'[m] \in {cmd[m], None}

\* The flags of a server that restarted, and of one that did not.
Restarted(m) ==
  /\ cmd'[m] = None /\ flags'[m].confirm = "no" /\ ~flags'[m].takeover
  /\ flags'[m].fresh = ~Ended(job[m]) /\ flags'[m].restart = BeforeLock(job[m])

Reminded(m) ==
  /\ flags'[m].takeover = flags[m].takeover /\ flags'[m].fresh = flags[m].fresh
  /\ flags'[m].entered = flags[m].entered /\ flags'[m].restart = flags[m].restart
  /\ flags[m].abort => flags'[m].abort
  /\ db[A] = "frozen" /\ m = B => flags'[m].confirm = flags[m].confirm \/ flags'[m].confirm # "yes"

\* What may happen to a database while the roles stay.
Moved(m) ==
  \/ db'[m] = db[m] /\ data'[m] = data[m]
  \/ m # active /\ db'[m] = "standby" /\ data'[m] = acked
  \/ m = active /\ db[m] \in {"primary", "sealed", "frozen"} /\ db'[m] \in {"primary", "sealed"} /\ data'[m] = data[m]
  \/ m # active /\ db'[m] = "stopped" /\ data'[m] = data[m]
  \/ /\ m # active /\ db'[m] = "frozen" /\ data'[m] = data[m]
     /\ running[m] # None /\ running[m].op = "freeze"

\* A seal that is answered finds the partner complete.
Sound(a) == a.op = "seal" /\ a.ok => active = a.node /\ (active = A => data'[B] = acked)

Answers ==
  \A m \in Server :
    /\ \A i \in DOMAIN acks'[m] : (\E k \in DOMAIN acks[m] : acks'[m][i] = acks[m][k]) \/ Sound(acks'[m][i])
    /\ done'[m] \in {done[m], None} \/ (Sound(done'[m]) /\ done'[m].node = m)

Plays == /\ job' = job /\ active' = active /\ acked' = acked
         /\ JobTypes' /\ OpTypes' /\ WorldTypes' /\ NumbersFit' /\ Lesser /\ Answers
         /\ \A m \in Server : (Restarted(m) \/ Reminded(m)) /\ Moved(m)

\* Such a step keeps the invariant.
LEMMA PlaysKeep ==
  ASSUME JobInv, Plays
  PROVE  JobInv'
<1>1. JobsFit' /\ OrdersFit'
  BY DEF JobInv, Book, Plays, Lesser, JobsFit, OrdersFit
<1>2. MailFits'
  BY DEF JobInv, Book, Plays, Lesser, MailFits
<1>3. CommandsFit'
  BY DEF JobInv, Book, Plays, Lesser, CommandsFit, Restarted, Reminded
<1>4. Writable'
  BY Servers DEF JobInv, Writable, Frozen, Plays, Moved
<1>5. Frozen'
  BY Servers DEF JobInv, Book, OrdersFit, Writable, Frozen, Plays, Moved, First
<1>6. WayBackComplete'
  <2> SUFFICES ASSUME job[A].kind = "rolling", db'[A] = "frozen", active = B
               PROVE  \/ NoWayBack'
                      \/ data'[A] = acked /\ (Locked(job[B]) \/ (flags'[B].entered /\ job[B].phase = "Countdown"))
    BY DEF Plays, WayBackComplete
  <2>1. db[A] = "frozen" /\ data'[A] = data[A]
    BY Servers DEF JobInv, Book, OrdersFit, Plays, Moved
  <2>2. cmd[B] = None => cmd'[B] = None
    BY Servers DEF Plays, Lesser
  <2>3. CASE NoWayBack
    BY <2>1, <2>2, <2>3, Servers DEF NoWayBack, Plays, Restarted, Reminded, Calm, Ended, BeforeLock
  <2>4. CASE data[A] = acked /\ (Locked(job[B]) \/ (flags[B].entered /\ job[B].phase = "Countdown"))
    BY <2>1, <2>2, <2>4, Servers DEF NoWayBack, Plays, Restarted, Reminded, BeforeLock
  <2> QED
    BY <2>1, <2>3, <2>4 DEF JobInv, WayBackComplete
<1>7. data[B] = acked => data'[B] = acked
  BY Servers DEF Plays, Moved
<1>8. Redo /\ ~Ended(job[A]) => Redo'
  BY Servers DEF Redo, Plays, Restarted, Reminded
<1>9. SealComplete'
  <2> SUFFICES ASSUME active = A, job[A].phase = "Locked", job[A].waitOp = "seal",
                      \/ \E i \in DOMAIN acks'[A] : SealOK(acks'[A][i])
                      \/ done'[A] # None /\ SealOK(done'[A])
               PROVE  data'[B] = acked \/ Redo'
    BY DEF Plays, SealComplete, SealOK
  <2>1. ~Ended(job[A])
    BY DEF Ended
  <2>2. CASE \E i \in DOMAIN acks'[A] : SealOK(acks'[A][i])
    <3>1. PICK i \in DOMAIN acks'[A] : SealOK(acks'[A][i])
      BY <2>2
    <3>2. CASE \E k \in DOMAIN acks[A] : acks'[A][i] = acks[A][k]
      BY <1>7, <1>8, <2>1, <3>1, <3>2 DEF JobInv, SealComplete
    <3>3. CASE Sound(acks'[A][i])
      BY <3>1, <3>3 DEF Sound, SealOK
    <3> QED
      BY <3>2, <3>3, Servers DEF Plays, Answers
  <2>3. CASE done'[A] # None /\ SealOK(done'[A])
    <3>1. CASE done'[A] = done[A]
      BY <1>7, <1>8, <2>1, <2>3, <3>1 DEF JobInv, SealComplete
    <3>2. CASE Sound(done'[A])
      BY <2>3, <3>2 DEF Sound, SealOK
    <3> QED
      BY <2>3, <3>1, <3>2, Servers DEF Plays, Answers
  <2> QED
    BY <2>2, <2>3
<1>10. SealAtB'
  BY Servers DEF JobInv, SealAtB, Plays, Answers, Sound
<1>11. FreezeComplete'
  <2>1. job[A].waitOp = "freeze" => ~Ended(job[A])
    BY Servers DEF JobInv, Book, JobsFit, Form, Ended
  <2> QED
    BY <1>7, <1>8, <2>1 DEF JobInv, FreezeComplete, Plays
<1>12. CopyComplete'
  BY <1>7, Servers DEF JobInv, CopyComplete, NotFrozen, Plays, Moved, Lesser
<1> QED
  BY <1>1, <1>2, <1>3, <1>4, <1>5, <1>6, <1>9, <1>10, <1>11, <1>12 DEF JobInv, Book, Plays

\* Answers that only go fit.
LEMMA NumbersStay ==
  ASSUME JobInv, job' = job, OpTypes',
         \A m \in Server : /\ running'[m] \in {running[m], None} /\ done'[m] \in {done[m], None}
                           /\ acks'[m] \in {acks[m], <<>>, Tail(acks[m])}
  PROVE  NumbersFit' /\ Answers
<1>1. ASSUME NEW m \in Server, NEW i \in DOMAIN acks'[m]
      PROVE  \E k \in DOMAIN acks[m] : acks'[m][i] = acks[m][k]
  <2>1. acks[m] \in Seq(Ack) /\ acks'[m] \in Seq(Ack)
    BY DEF JobInv, OpTypes
  <2>2. CASE acks'[m] = acks[m]
    BY <1>1, <2>2
  <2>3. CASE acks'[m] = <<>>
    BY <1>1, <2>3
  <2>4. CASE acks'[m] = Tail(acks[m]) /\ acks[m] # <<>>
    <3>1. /\ i \in 1 .. Len(acks[m]) - 1 /\ acks'[m][i] = acks[m][i + 1]
      BY <1>1, <2>1, <2>4
    <3> QED
      BY <2>1, <3>1
  <2>5. CASE acks'[m] = Tail(acks[m]) /\ acks[m] = <<>>
    BY <1>1, <2>1, <2>5
  <2> QED
    BY <1>1, <2>2, <2>3, <2>4, <2>5
<1>2. Answers
  BY <1>1 DEF Answers
<1>3. NumbersFit'
  BY <1>1 DEF JobInv, Book, NumbersFit
<1> QED
  BY <1>2, <1>3

\* The rest of the answers are answers.
LEMMA TailIs ==
  ASSUME OpTypes, NEW n \in Server
  PROVE  acks[n] # <<>> => Tail(acks[n]) \in Seq(Ack)
BY DEF OpTypes

LEMMA AbortKeeps ==
  ASSUME JobInv, NEW n \in Server, Abort(n)
  PROVE  JobInv'
<1>1. flags' \in [Server -> Flags]
  <2>1. [flags[n] EXCEPT !.abort = TRUE] \in Flags
    BY DEF JobInv, JobTypes, Flags
  <2> QED
    BY <2>1 DEF Abort, JobInv, JobTypes
<1>2. \A m \in Server : Reminded(m) /\ Moved(m)
  BY DEF Abort, Reminded, Moved, JobInv, JobTypes, Flags, world
<1>3. JobTypes' /\ OpTypes' /\ WorldTypes' /\ Lesser
  BY <1>1 DEF Abort, JobInv, JobTypes, OpTypes, WorldTypes, Lesser, world
<1>4. NumbersFit' /\ Answers
  BY <1>3, NumbersStay DEF Abort
<1> QED
  BY <1>2, <1>3, <1>4, PlaysKeep DEF Plays, Abort, world

LEMMA ConfirmKeeps ==
  ASSUME JobInv, NEW n \in Server, Confirm(n)
  PROVE  JobInv'
<1> DEFINE c == IF db[Other(n)] = "standby" THEN "yes" ELSE "blocked"
<1>1. c \in {"no", "yes", "blocked"} /\ (db[A] = "frozen" /\ n = B => c # "yes")
  BY Servers
<1>2. flags' = [flags EXCEPT ![n].confirm = c]
  BY DEF Confirm
<1> HIDE DEF c
<1>3. flags' \in [Server -> Flags]
  BY <1>1, <1>2 DEF JobInv, JobTypes, Flags
<1>4. \A m \in Server : Reminded(m) /\ Moved(m)
  BY <1>1, <1>2 DEF Confirm, Reminded, Moved, JobInv, JobTypes, Flags, world
<1>5. JobTypes' /\ OpTypes' /\ WorldTypes' /\ Lesser
  BY <1>3 DEF Confirm, JobInv, JobTypes, OpTypes, WorldTypes, Lesser, world
<1>6. NumbersFit' /\ Answers
  BY <1>5, NumbersStay DEF Confirm
<1> QED
  BY <1>4, <1>5, <1>6, PlaysKeep DEF Plays, Confirm, world

\* The flags and the databases stay.
LEMMA StayReminded ==
  ASSUME UNCHANGED <<flags, db, data, active>>
  PROVE  \A m \in Server : Reminded(m) /\ Moved(m)
BY DEF Reminded, Moved

LEMMA LoseKeeps ==
  ASSUME JobInv, NEW n \in Server, Lose(n)
  PROVE  JobInv'
<1>1. /\ \A m \in Server : mail'[m] \in {mail[m], None}
      /\ mail' \in [Server -> Letter \cup {None}]
  BY DEF Lose, JobInv, JobTypes
<1>2. /\ \A m \in Server : acks'[m] \in {acks[m], <<>>, Tail(acks[m])}
      /\ acks' \in [Server -> Seq(Ack)]
  BY TailIs DEF Lose, JobInv, OpTypes
<1>3. JobTypes' /\ OpTypes' /\ WorldTypes' /\ Lesser
  BY <1>1, <1>2 DEF Lose, JobInv, JobTypes, OpTypes, WorldTypes, Lesser, world
<1>4. NumbersFit' /\ Answers
  BY <1>2, <1>3, NumbersStay DEF Lose
<1> QED
  BY <1>3, <1>4, StayReminded, PlaysKeep DEF Plays, Lose, world

LEMMA HeartbeatKeeps ==
  ASSUME JobInv, NEW n \in Server, Heartbeat(n)
  PROVE  JobInv'
<1>1. JobTypes' /\ OpTypes' /\ WorldTypes' /\ Lesser
  BY DEF Heartbeat, JobInv, JobTypes, OpTypes, WorldTypes, Lesser
<1>2. NumbersFit' /\ Answers
  BY <1>1, NumbersStay DEF Heartbeat
<1> QED
  BY <1>1, <1>2, StayReminded, PlaysKeep DEF Plays, Heartbeat

LEMMA SwapFailsKeeps ==
  ASSUME JobInv, NEW n \in Server, SwapFails(n)
  PROVE  JobInv'
<1>1. JobTypes' /\ OpTypes' /\ WorldTypes' /\ Lesser
  BY DEF SwapFails, JobInv, JobTypes, OpTypes, WorldTypes, Lesser, memory, world
<1>2. NumbersFit' /\ Answers
  BY <1>1, NumbersStay DEF SwapFails, memory
<1> QED
  BY <1>1, <1>2, StayReminded, PlaysKeep DEF Plays, SwapFails, memory, world

\* The database of the active server can be followed: it has every write.
LEMMA Followed ==
  ASSUME JobInv, NEW n \in Server, SourceReady(n), FollowActive(n)
  PROVE  /\ \A m \in Server : Moved(m)
         /\ db' \in [Server -> {"primary", "sealed", "standby", "frozen", "stopped", "replaced"}]
         /\ data' \in [Server -> Nat] /\ n # active
<1>1. active \in Server /\ data[active] = acked /\ n # active /\ acked \in Nat
  BY DEF JobInv, WorldTypes, Writable, SourceReady
<1> QED
  BY <1>1 DEF FollowActive, Moved, JobInv, WorldTypes

LEMMA RejoinKeeps ==
  ASSUME JobInv, NEW n \in Server, Rejoin(n)
  PROVE  JobInv'
<1>1. JobTypes' /\ OpTypes' /\ WorldTypes' /\ Lesser
  BY Followed DEF Rejoin, JobInv, JobTypes, OpTypes, WorldTypes, Lesser, memory
<1>2. NumbersFit' /\ Answers
  BY <1>1, NumbersStay DEF Rejoin, memory
<1>3. \A m \in Server : Reminded(m) /\ Moved(m)
  BY Followed DEF Rejoin, Reminded, memory
<1> QED
  BY <1>1, <1>2, <1>3, PlaysKeep DEF Plays, Rejoin, memory

LEMMA ReplicateKeeps ==
  ASSUME JobInv, NEW n \in Server, Replicate(n)
  PROVE  JobInv'
<1>1. active \in Server /\ data[active] = acked /\ n # active /\ acked \in Nat
  BY Servers DEF JobInv, WorldTypes, Writable, Replicate
<1>2. JobTypes' /\ OpTypes' /\ WorldTypes' /\ Lesser
  BY <1>1 DEF Replicate, JobInv, JobTypes, OpTypes, WorldTypes, Lesser, memory
<1>3. NumbersFit' /\ Answers
  BY <1>2, NumbersStay DEF Replicate, memory
<1>4. \A m \in Server : Reminded(m) /\ Moved(m)
  BY <1>1 DEF Replicate, Reminded, Moved, memory, JobInv, WorldTypes
<1> QED
  BY <1>2, <1>3, <1>4, PlaysKeep DEF Plays, Replicate, memory

LEMMA PromoteLateKeeps ==
  ASSUME JobInv, NEW n \in Server, PromoteLate(n)
  PROVE  JobInv'
<1>1. JobTypes' /\ OpTypes' /\ WorldTypes' /\ Lesser
  BY DEF PromoteLate, JobInv, JobTypes, OpTypes, WorldTypes, Lesser, memory
<1>2. NumbersFit' /\ Answers
  BY <1>1, NumbersStay DEF PromoteLate, memory
<1>3. \A m \in Server : Reminded(m) /\ Moved(m)
  BY DEF PromoteLate, Reminded, Moved, memory, JobInv, WorldTypes
<1> QED
  BY <1>1, <1>2, <1>3, PlaysKeep DEF Plays, PromoteLate, memory

\* A restart forgets what was in memory.
Forgets(n) ==
  /\ acks' = [acks EXCEPT ![n] = <<>>]
  /\ running' = [running EXCEPT ![n] = None] /\ done' = [done EXCEPT ![n] = None]
  /\ flags' = [flags EXCEPT ![n] = [NoFlags EXCEPT !.fresh = ~Ended(job[n]), !.restart = BeforeLock(job[n])]]
  /\ cmd' = [cmd EXCEPT ![n] = None]

\* What is forgotten fits.
LEMMA Forgotten ==
  ASSUME JobInv, NEW n \in Server, Forgets(n), UNCHANGED <<job, mail>>
  PROVE  /\ JobTypes' /\ OpTypes' /\ Lesser /\ NumbersFit' /\ Answers
         /\ \A m \in Server : Restarted(m) \/ Reminded(m)
<1> DEFINE e == ~Ended(job[n])
           b == BeforeLock(job[n])
           z == NoFlags
           f == [z EXCEPT !.fresh = e, !.restart = b]
<1>1. e \in BOOLEAN /\ b \in BOOLEAN
  BY DEF Ended, BeforeLock
<1>2. flags' = [flags EXCEPT ![n] = f]
  BY DEF Forgets
<1> HIDE DEF e, b
<1>0. /\ z \in Flags /\ z.abort = FALSE /\ z.confirm = "no" /\ z.takeover = FALSE
      /\ z.entered = FALSE
  BY DEF NoFlags, Flags
<1> HIDE DEF z
<1>9. f \in Flags
  BY <1>0, <1>1 DEF Flags
<1>3. f.confirm = "no" /\ ~f.takeover /\ f.fresh = e /\ f.restart = b
  BY <1>0, <1>1 DEF Flags
<1> HIDE DEF f
<1>4. flags' \in [Server -> Flags]
  BY <1>2, <1>9 DEF JobInv, JobTypes
<1>5. \A m \in Server : Restarted(m) \/ Reminded(m)
  <2>1. flags'[n] = f /\ cmd'[n] = None
    BY <1>2 DEF Forgets, JobInv, JobTypes
  <2>2. Restarted(n)
    BY <1>3, <2>1 DEF Restarted, e, b
  <2>3. ASSUME NEW m \in Server, m # n
        PROVE  Reminded(m)
    BY <1>2, <2>3 DEF Reminded, JobInv, JobTypes
  <2> QED
    BY <2>2, <2>3
<1>6. <<>> \in Seq(Ack)
  OBVIOUS
<1>7. JobTypes' /\ OpTypes' /\ Lesser
  BY <1>4, <1>6 DEF Forgets, JobInv, JobTypes, OpTypes, Lesser
<1>8. \A m \in Server : /\ running'[m] \in {running[m], None} /\ done'[m] \in {done[m], None}
                        /\ acks'[m] \in {acks[m], <<>>, Tail(acks[m])}
  BY DEF Forgets, JobInv, OpTypes
<1> QED
  BY <1>5, <1>7, <1>8, NumbersStay

LEMMA RestartKeeps ==
  ASSUME JobInv, NEW n \in Server, Restart(n)
  PROVE  JobInv'
<1>1. Forgets(n) /\ UNCHANGED <<job, mail, active, data, commit, seen, acked>>
  BY DEF Restart, Reborn, Forgets
<1>2. /\ db' = [db EXCEPT ![n] = IF @ = "sealed" /\ active = n THEN "primary" ELSE @]
  BY DEF Restart, Reborn
<1>3. WorldTypes' /\ \A m \in Server : Moved(m)
  BY <1>1, <1>2 DEF JobInv, WorldTypes, Moved
<1> QED
  BY <1>1, <1>3, Forgotten, PlaysKeep DEF Plays

\* An operation is over: its answer is kept and sent.
LEMMA ResultIs ==
  ASSUME JobInv, NEW n \in Server, running[n] # None, NEW ok \in BOOLEAN, NEW noFault \in BOOLEAN,
         Result(n, ok, noFault), job' = job,
         running[n].op = "seal" /\ ok => active = n /\ (active = A => data'[B] = acked)
  PROVE  /\ OpTypes' /\ NumbersFit' /\ Answers
         /\ \A m \in Server : running'[m] \in {running[m], None}
<1> DEFINE a == [op |-> running[n].op, node |-> n, seq |-> running[n].seq, ok |-> ok, noFault |-> noFault]
           d == running[n].from
<1>1. running[n] \in Task /\ d \in Server
  BY DEF JobInv, OpTypes, Task
<1>2. a \in Ack /\ a.seq = running[n].seq /\ Sound(a) /\ a.node = n
  BY <1>1 DEF Ack, Task, Sound
<1>3. /\ running' = [running EXCEPT ![n] = None] /\ done' = [done EXCEPT ![n] = a]
      /\ acks' = [acks EXCEPT ![d] = Append(@, a)]
  BY Zenon DEF Result
<1>4. a.seq <= job[n].seq /\ a.seq <= job[d].seq
  BY <1>2 DEF JobInv, Book, NumbersFit
<1> HIDE DEF a, d
<1>5. \A m \in Server : acks[m] \in Seq(Ack)
  BY DEF JobInv, OpTypes
<1>6. OpTypes'
  <2>1. Append(acks[d], a) \in Seq(Ack)
    BY <1>1, <1>2, <1>5
  <2> QED
    BY <1>1, <1>2, <1>3, <2>1 DEF JobInv, OpTypes
<1>7. ASSUME NEW m \in Server, NEW i \in DOMAIN acks'[m]
      PROVE  (\E k \in DOMAIN acks[m] : acks'[m][i] = acks[m][k]) \/ (m = d /\ acks'[m][i] = a)
  <2>1. CASE m = d
    <3>1. acks'[m] = Append(acks[m], a)
      BY <1>3, <2>1 DEF JobInv, OpTypes
    <3>2. CASE i = Len(acks[m]) + 1
      BY <1>5, <2>1, <3>1, <3>2
    <3>3. CASE i # Len(acks[m]) + 1
      BY <1>5, <1>7, <3>1, <3>3
    <3> QED
      BY <3>2, <3>3
  <2>2. CASE m # d
    BY <1>3, <1>7, <2>2 DEF JobInv, OpTypes
  <2> QED
    BY <2>1, <2>2
<1>8. Answers
  <2>1. \A m \in Server : done'[m] = done[m] \/ (m = n /\ done'[m] = a)
    BY <1>3 DEF JobInv, OpTypes
  <2> QED
    BY <1>2, <1>7, <2>1 DEF Answers
<1>9. NumbersFit'
  <2>1. \A m \in Server : \A i \in DOMAIN acks'[m] : acks'[m][i].seq <= job[m].seq
    BY <1>4, <1>7 DEF JobInv, Book, NumbersFit
  <2>2. \A m \in Server : done'[m] # None => done'[m].seq <= job[m].seq
    BY <1>3, <1>4 DEF JobInv, Book, NumbersFit, OpTypes
  <2>3. \A m \in Server : running'[m] # None => running'[m] = running[m]
    BY <1>3 DEF JobInv, OpTypes
  <2> QED
    BY <2>1, <2>2, <2>3 DEF JobInv, Book, NumbersFit
<1> QED
  BY <1>3, <1>6, <1>8, <1>9 DEF JobInv, OpTypes

\* What the actions of Run leave alone.
RunFrame == UNCHANGED <<job, mail, active, seen, acked, repeats>>

\* What is left to show of an operation.
LEMMA AnswerKeeps ==
  ASSUME JobInv, NEW n \in Server, running[n] # None, NEW ok \in BOOLEAN, NEW noFault \in BOOLEAN,
         Result(n, ok, noFault), RunFrame, UNCHANGED <<flags, cmd>>,
         running[n].op = "seal" /\ ok => active = n /\ (active = A => data'[B] = acked),
         WorldTypes', \A m \in Server : Moved(m)
  PROVE  JobInv'
<1>1. /\ OpTypes' /\ NumbersFit' /\ Answers
      /\ \A m \in Server : running'[m] \in {running[m], None}
  BY ResultIs DEF RunFrame
<1>2. JobTypes' /\ Lesser
  BY <1>1 DEF RunFrame, JobInv, JobTypes, Lesser
<1>3. \A m \in Server : Reminded(m)
  BY DEF Reminded
<1> QED
  BY <1>1, <1>2, <1>3, PlaysKeep DEF Plays, RunFrame

\* An operation that ends with a restart.
LEMMA ChangeKeeps ==
  ASSUME JobInv, NEW n \in Server, running[n] # None, NEW c \in {"old", "new"}, Change(n, c),
         RunFrame, running[n].op # "seal", \A m \in Server : Moved(m),
         db' \in [Server -> {"primary", "sealed", "standby", "frozen", "stopped", "replaced"}],
         data' \in [Server -> Nat]
  PROVE  JobInv'
<1>1. WorldTypes'
  BY DEF Change, RunFrame, JobInv, WorldTypes
<1>2. CASE Result(n, TRUE, FALSE) /\ UNCHANGED <<flags, cmd>>
  BY <1>1, <1>2, AnswerKeeps
<1>3. CASE Forgets(n)
  BY <1>1, <1>3, Forgotten, PlaysKeep DEF Plays, RunFrame
<1> QED
  BY <1>2, <1>3 DEF Change, Forgets

LEMMA RunInstallKeeps ==
  ASSUME JobInv, NEW n \in Server, running[n] # None, RunFrame, RunInstall(n)
  PROVE  JobInv'
<1>1. running[n].op = "install"
  BY DEF RunInstall
<1>2. CASE commit[n] = "new"
  <2>1. Result(n, TRUE, FALSE) /\ UNCHANGED <<flags, cmd, commit, db, data>>
    BY <1>2 DEF RunInstall
  <2> QED
    BY <1>1, <2>1, AnswerKeeps DEF RunFrame, JobInv, WorldTypes, Moved
<1>3. CASE commit[n] # "new"
  <2> DEFINE d == IF Sequential /\ n = A /\ running[n].sealed /\ db[n] = "sealed" THEN "primary" ELSE db[n]
  <2>1. db' = [db EXCEPT ![n] = d] /\ Change(n, "new") /\ UNCHANGED data
    BY <1>3 DEF RunInstall
  <2>2. d = db[n] \/ (n = active /\ db[n] = "sealed" /\ d = "primary")
    BY DEF JobInv, Writable
  <2> HIDE DEF d
  <2> QED
    BY <1>1, <2>1, <2>2, ChangeKeeps DEF JobInv, WorldTypes, Moved
<1> QED
  BY <1>2, <1>3

LEMMA RunNoRestartKeeps ==
  ASSUME JobInv, NEW n \in Server, running[n] # None, RunFrame, RunNoRestart(n)
  PROVE  JobInv'
<1> DEFINE d == IF /\ running[n].op = "rollback_norestart" /\ running[n].sealed
                   /\ n = A /\ active = n /\ db[n] = "sealed"
                THEN "primary" ELSE db[n]
<1>1. /\ db' = [db EXCEPT ![n] = d] /\ Result(n, TRUE, FALSE)
      /\ UNCHANGED <<flags, cmd, commit, data, faults>> /\ running[n].op # "seal"
  BY DEF RunNoRestart
<1>2. d = db[n] \/ (n = active /\ db[n] = "sealed" /\ d = "primary")
  OBVIOUS
<1> HIDE DEF d
<1>3. WorldTypes' /\ \A m \in Server : Moved(m)
  BY <1>1, <1>2 DEF RunFrame, JobInv, WorldTypes, Moved
<1> QED
  BY <1>1, <1>3, AnswerKeeps

LEMMA RunRollbackKeeps ==
  ASSUME JobInv, NEW n \in Server, running[n] # None, RunFrame, RunRollback(n)
  PROVE  JobInv'
<1>1. /\ \A m \in Server : Moved(m)
      /\ db' \in [Server -> {"primary", "sealed", "standby", "frozen", "stopped", "replaced"}]
      /\ data' \in [Server -> Nat]
  <2>1. CASE SourceReady(n) /\ FollowActive(n)
    BY <2>1, Followed
  <2>2. CASE UNCHANGED <<db, data>>
    BY <2>2 DEF JobInv, WorldTypes, Moved
  <2> QED
    BY <2>1, <2>2 DEF RunRollback
<1> QED
  BY <1>1, ChangeKeeps DEF RunRollback

LEMMA RunThawKeeps ==
  ASSUME JobInv, NEW n \in Server, running[n] # None, RunFrame, RunThaw(n)
  PROVE  JobInv'
<1>1. /\ \A m \in Server : Moved(m)
      /\ db' \in [Server -> {"primary", "sealed", "standby", "frozen", "stopped", "replaced"}]
      /\ data' \in [Server -> Nat]
  BY Followed DEF RunThaw
<1>2. WorldTypes'
  BY <1>1 DEF RunThaw, RunFrame, JobInv, WorldTypes
<1> QED
  BY <1>1, <1>2, AnswerKeeps DEF RunThaw

LEMMA RunReinitKeeps ==
  ASSUME JobInv, NEW n \in Server, running[n] # None, RunFrame, RunReinit(n)
  PROVE  JobInv'
<1>1. /\ \A m \in Server : Moved(m)
      /\ db' \in [Server -> {"primary", "sealed", "standby", "frozen", "stopped", "replaced"}]
      /\ data' \in [Server -> Nat]
  BY Followed DEF RunReinit
<1> QED
  BY <1>1, ChangeKeeps DEF RunReinit

LEMMA RunSealKeeps ==
  ASSUME JobInv, NEW n \in Server, running[n] # None, RunFrame, RunSeal(n)
  PROVE  JobInv'
<1>1. /\ running[n].op = "seal" /\ active = n /\ data[n] = acked /\ db[n] \in {"primary", "sealed"}
      /\ db' = [db EXCEPT ![n] = "sealed"] /\ UNCHANGED <<flags, cmd, commit, data>>
  BY DEF RunSeal, JobInv, Writable
<1>2. WorldTypes' /\ \A m \in Server : Moved(m)
  BY <1>1 DEF RunFrame, JobInv, WorldTypes, Moved
<1>3. CASE db[Other(n)] = "standby" /\ data[Other(n)] = data[n]
  <2>1. Result(n, TRUE, FALSE) /\ (active = A => data'[B] = acked)
    BY <1>1, <1>3, Servers DEF RunSeal
  <2> QED
    BY <1>1, <1>2, <2>1, AnswerKeeps
<1>4. CASE ~(db[Other(n)] = "standby" /\ data[Other(n)] = data[n])
  <2>1. UNCHANGED <<running, done, acks>>
    BY <1>4 DEF RunSeal
  <2>2. JobTypes' /\ OpTypes' /\ Lesser
    BY <1>1, <2>1 DEF RunFrame, JobInv, JobTypes, OpTypes, Lesser
  <2>3. NumbersFit' /\ Answers
    BY <2>1, <2>2, NumbersStay DEF RunFrame
  <2>4. \A m \in Server : Reminded(m)
    BY <1>1 DEF Reminded
  <2> QED
    BY <1>2, <2>2, <2>3, <2>4, PlaysKeep DEF Plays, RunFrame
<1> QED
  BY <1>3, <1>4

LEMMA RunFreezeKeeps ==
  ASSUME JobInv, NEW n \in Server, running[n] # None, RunFrame, RunFreeze(n)
  PROVE  JobInv'
<1> DEFINE d == IF db[n] \in {"standby", "frozen"} THEN "frozen" ELSE "stopped"
<1>1. /\ db' = [db EXCEPT ![n] = d] /\ d \in {"frozen", "stopped"} /\ active # n
      /\ running[n].op = "freeze" /\ Result(n, TRUE, FALSE) /\ UNCHANGED <<flags, cmd, commit, data>>
  BY DEF RunFreeze, NeedPassive
<1> HIDE DEF d
<1>2. WorldTypes' /\ \A m \in Server : Moved(m)
  BY <1>1 DEF RunFrame, JobInv, WorldTypes, Moved
<1> QED
  BY <1>1, <1>2, AnswerKeeps

LEMMA RunFailsKeeps ==
  ASSUME JobInv, NEW n \in Server, running[n] # None, RunFrame, RunFails(n)
  PROVE  JobInv'
<1> DEFINE d == IF running[n].op = "seal" /\ db[n] = "sealed" THEN "primary" ELSE db[n]
<1>1. db' = [db EXCEPT ![n] = d] /\ UNCHANGED <<flags, cmd, commit, data>>
  BY DEF RunFails
<1>2. d = db[n] \/ (n = active /\ db[n] = "sealed" /\ d = "primary")
  BY DEF JobInv, Writable
<1> HIDE DEF d
<1>3. WorldTypes' /\ \A m \in Server : Moved(m)
  BY <1>1, <1>2 DEF RunFrame, JobInv, WorldTypes, Moved
<1>4. PICK noFault \in BOOLEAN : Result(n, FALSE, noFault)
  BY DEF RunFails
<1> QED
  BY <1>1, <1>3, <1>4, AnswerKeeps

LEMMA RunKeeps ==
  ASSUME JobInv, NEW n \in Server, Run(n)
  PROVE  JobInv'
<1>1. running[n] # None /\ RunFrame
  BY DEF Run, RunFrame
<1> QED
  BY <1>1, RunInstallKeeps, RunNoRestartKeeps, RunRollbackKeeps, RunSealKeeps, RunFreezeKeeps,
     RunThawKeeps, RunReinitKeeps, RunFailsKeeps DEF Run

\* Nobody writes while a job may turn back to a frozen copy.
LEMMA WriteKeeps ==
  ASSUME JobInv, NEW n \in Server, Write(n)
  PROVE  JobInv'
<1>1. /\ active = n /\ db[n] = "primary" /\ ~Locked(job[n]) /\ ~flags[n].entered
      /\ acked \in Nat /\ acked' = acked + 1
      /\ UNCHANGED <<job, acks, running, done, flags, cmd, mail, active, db, commit, seen>>
  BY DEF Write, memory, JobInv, WorldTypes
<1>2. data' \in [Server -> Nat] /\ data'[n] = acked'
  <2>1. PICK now \in BOOLEAN :
          data' = [m \in Server |-> IF m = n \/ (now /\ db[m] = "standby") THEN acked + 1 ELSE data[m]]
    BY DEF Write
  <2> QED
    BY <1>1, <2>1 DEF JobInv, WorldTypes
<1>3. JobTypes' /\ OpTypes' /\ WorldTypes'
  BY <1>1, <1>2 DEF JobInv, JobTypes, OpTypes, WorldTypes
<1>4. JobsFit' /\ MailFits' /\ NumbersFit' /\ OrdersFit' /\ CommandsFit'
  BY <1>1 DEF JobInv, Book, JobsFit, MailFits, NumbersFit, OrdersFit, CommandsFit
<1>5. Writable' /\ Frozen'
  BY <1>1, <1>2 DEF JobInv, Writable, Frozen
<1>6. WayBackComplete'
  <2> SUFFICES ASSUME job[A].kind = "rolling", db[A] = "frozen", active = B
               PROVE  NoWayBack'
    BY <1>1 DEF WayBackComplete
  <2>1. NoWayBack
    BY <1>1 DEF JobInv, WayBackComplete
  <2> QED
    BY <1>1, <2>1 DEF NoWayBack
\* The seal and the freeze need the lock, under which nobody writes.
<1>7. /\ n = A => job[A].phase # "Locked" /\ job[A].waitOp # "freeze" /\ ~Held(job[A])
  <2>1. Form(job[n])
    BY DEF JobInv, Book, JobsFit
  <2> QED
    BY <1>1, <2>1 DEF Form, Held, Locked, Ended
<1>8. SealComplete' /\ FreezeComplete' /\ CopyComplete' /\ SealAtB'
  BY <1>1, <1>7 DEF JobInv, SealComplete, FreezeComplete, CopyComplete, SealAtB
<1> QED
  BY <1>3, <1>4, <1>5, <1>6, <1>8 DEF JobInv, Book

\* A standby that takes over has every write; what was under way is gone.
LEMMA TakeOverKeeps ==
  ASSUME JobInv, NEW n \in Server, TakeOver(n)
  PROVE  JobInv'
<1> DEFINE m == Other(n)
           e == ~Ended(job[m])
           b == BeforeLock(job[m])
           u == ~Ended(job[n])
           z == NoFlags
           f == [z EXCEPT !.fresh = e, !.restart = b]
<1>1. e \in BOOLEAN /\ b \in BOOLEAN /\ u \in BOOLEAN
  BY DEF Ended, BeforeLock
<1>2. /\ active = m /\ data[n] = acked /\ active' = n /\ m \in Server /\ m # n
      /\ db' = [db EXCEPT ![n] = "primary", ![m] = "replaced"]
      /\ acks' = [acks EXCEPT ![m] = <<>>] /\ running' = [running EXCEPT ![m] = None]
      /\ done' = [done EXCEPT ![m] = None] /\ cmd' = [cmd EXCEPT ![m] = None]
      /\ mail' = [s \in Server |-> None]
      /\ UNCHANGED <<job, data, commit, seen, acked>>
  BY Servers DEF TakeOver
<1>3. flags' = [flags EXCEPT ![n].takeover = u, ![n].entered = u, ![m] = f]
  BY DEF TakeOver
<1> HIDE DEF m, e, b
<1>4. z \in Flags
  BY DEF NoFlags, Flags
<1> HIDE DEF z
<1>5. f \in Flags
  BY <1>1, <1>4 DEF Flags
<1> HIDE DEF f, u
<1>6. flags' \in [Server -> Flags] /\ flags'[n].takeover = u
  <2> DEFINE g == flags[n]
             h == [g EXCEPT !.takeover = u, !.entered = u]
  <2>1. g \in Flags
    BY DEF JobInv, JobTypes
  <2>2. flags' = [flags EXCEPT ![n] = h, ![m] = f]
    BY <1>2, <1>3 DEF JobInv, JobTypes
  <2> HIDE DEF g
  <2>3. h \in Flags /\ h.takeover = u
    BY <1>1, <2>1 DEF Flags
  <2> HIDE DEF h
  <2> QED
    BY <1>2, <1>5, <2>2, <2>3 DEF JobInv, JobTypes
<1>7. JobTypes' /\ OpTypes' /\ WorldTypes'
  <2>1. JobTypes'
    BY <1>2, <1>6 DEF JobInv, JobTypes
  <2>2. OpTypes'
    <3>1. <<>> \in Seq(Ack)
      OBVIOUS
    <3> QED
      BY <1>2, <3>1 DEF JobInv, OpTypes
  <2>3. WorldTypes'
    BY <1>2 DEF JobInv, WorldTypes
  <2> QED
    BY <2>1, <2>2, <2>3
<1>8. \A s \in Server : s = m \/ s = n
  BY Servers DEF m
<1>9. JobsFit' /\ MailFits' /\ OrdersFit'
  BY <1>2, <1>7 DEF JobInv, Book, JobsFit, MailFits, OrdersFit, OpTypes
<1>10. NumbersFit'
  <2>1. \A s \in Server : acks'[s] = acks[s] \/ acks'[s] = <<>>
    BY <1>2 DEF JobInv, OpTypes
  <2> QED
    BY <1>2, <2>1 DEF JobInv, Book, NumbersFit, OpTypes
<1>11. CommandsFit'
  BY <1>2, <1>8 DEF JobInv, Book, CommandsFit, JobTypes
<1>12. db'[n] = "primary" /\ db'[m] = "replaced"
  BY <1>2 DEF JobInv, WorldTypes
<1>13. Writable' /\ Frozen' /\ WayBackComplete'
  BY <1>2, <1>8, <1>12, Servers DEF Writable, Frozen, WayBackComplete
<1>14. SealAtB'
  BY <1>2, <1>8, Servers DEF SealAtB, JobInv, OpTypes
<1>15. SealComplete' /\ FreezeComplete'
  <2>1. Form(job[A])
    BY Servers DEF JobInv, Book, JobsFit
  <2>2. n = A /\ ~Ended(job[A]) => Redo'
    BY <1>6 DEF Redo, u
  <2>3. job[A].phase = "Locked" \/ job[A].waitOp = "freeze" => ~Ended(job[A])
    BY <2>1 DEF Form, Ended
  <2> QED
    BY <1>2, <2>2, <2>3 DEF SealComplete, FreezeComplete
<1>16. CopyComplete'
  BY <1>2, <1>7, <1>8, <1>12, Servers DEF CopyComplete, NotFrozen, JobInv, OpTypes
<1> QED
  BY <1>7, <1>9, <1>10, <1>11, <1>13, <1>14, <1>15, <1>16 DEF JobInv, Book

\* The tick in which the role changes.
LEMMA BecomesIs ==
  ASSUME JobInv, NEW n \in Server, Becomes(n, TRUE)
  PROVE  /\ flags' \in [Server -> Flags] /\ active' = n
         /\ flags'[n].takeover = (~Ended(job[n]) /\ ~SwapExpected(job[n]))
         /\ flags'[n].entered = ~Ended(job[n])
<1> DEFINE t == ~Ended(job[n]) /\ ~(TRUE /\ SwapExpected(job[n]))
           u == ~Ended(job[n])
<1>1. t \in BOOLEAN /\ u \in BOOLEAN
  BY DEF Ended, SwapExpected
<1>2. flags' = [flags EXCEPT ![n].takeover = t, ![n].entered = u] /\ active' = n
  BY DEF Becomes
<1> HIDE DEF t, u
<1>3. flags' \in [Server -> Flags] /\ flags'[n].takeover = t /\ flags'[n].entered = u
  <2> DEFINE g == flags[n]
             h == [g EXCEPT !.takeover = t, !.entered = u]
  <2>1. g \in Flags
    BY DEF JobInv, JobTypes
  <2>2. flags' = [flags EXCEPT ![n] = h]
    BY <1>2 DEF JobInv, JobTypes
  <2> HIDE DEF g
  <2>3. h \in Flags /\ h.takeover = t /\ h.entered = u
    BY <1>1, <2>1 DEF Flags
  <2> HIDE DEF h
  <2> QED
    BY <2>2, <2>3 DEF JobInv, JobTypes
<1> QED
  BY <1>2, <1>3 DEF t, u

\* Roles are swapped only between equal databases.
LEMMA SwapKeeps ==
  ASSUME JobInv, NEW n \in Server, Swap(n)
  PROVE  JobInv'
<1> DEFINE m == Other(n)
           d == IF cmd[n] = "swap" THEN "standby" ELSE "frozen"
<1>1. /\ active = n /\ cmd[n] \in {"swap", "freeze"} /\ m \in Server /\ m # n
      /\ db[n] = "primary" /\ mail[m] = None
      /\ data' = [data EXCEPT ![m] = data[n]] /\ db' = [db EXCEPT ![n] = d, ![m] = "primary"]
      /\ Becomes(m, TRUE) /\ cmd' = [cmd EXCEPT ![n] = None]
      /\ UNCHANGED <<job, acks, running, done, mail, commit, seen, acked>>
  BY Servers DEF Swap
<1>2. d \in {"standby", "frozen"} /\ (d = "frozen" => cmd[n] # "swap")
  OBVIOUS
<1> HIDE DEF d
<1>3. \A s \in Server : s = m \/ s = n
  BY Servers
<1>4. m = Other(n)
  OBVIOUS
<1> HIDE DEF m
<1>5. /\ flags' \in [Server -> Flags] /\ active' = m
      /\ flags'[m].takeover = (~Ended(job[m]) /\ ~SwapExpected(job[m]))
      /\ flags'[m].entered = ~Ended(job[m])
  BY <1>1, BecomesIs
<1>6. data[n] = acked /\ data'[m] = acked /\ data'[n] = acked
  BY <1>1 DEF JobInv, Writable, WorldTypes
<1>7. JobTypes' /\ OpTypes' /\ WorldTypes'
  BY <1>1, <1>2, <1>5 DEF JobInv, JobTypes, OpTypes, WorldTypes
<1>8. (cmd[n] = "swap" => job[A].kind = "swap") /\ (cmd[n] # "swap" => job[A].kind = "rolling" /\ n = A)
  BY <1>1, NoneIs DEF JobInv, Book, CommandsFit
<1>9. mail[n] = None /\ mail[m] = None /\ cmd'[m] = None /\ cmd'[n] = None
  BY <1>1 DEF JobInv, Book, MailFits, CommandsFit, JobTypes
<1>10. JobsFit' /\ MailFits' /\ NumbersFit' /\ OrdersFit' /\ CommandsFit'
  BY <1>1, <1>3, <1>9 DEF JobInv, Book, JobsFit, MailFits, NumbersFit, OrdersFit, CommandsFit
<1>11. db'[m] = "primary" /\ db'[n] = d
  BY <1>1 DEF JobInv, WorldTypes
<1>12. Writable' /\ Frozen'
  <2>1. Writable'
    BY <1>1, <1>2, <1>3, <1>5, <1>6, <1>11 DEF Writable
  <2>2. Frozen'
    BY <1>1, <1>2, <1>3, <1>6, <1>8, <1>11, Servers DEF Frozen, First
  <2> QED
    BY <2>1, <2>2
<1>13. WayBackComplete'
  <2> SUFFICES ASSUME n = A, m = B
               PROVE  \/ NoWayBack'
                      \/ data'[A] = acked /\ (Locked(job[B]) \/ (flags'[B].entered /\ job[B].phase = "Countdown"))
    BY <1>1, <1>3, <1>5, <1>11, Servers DEF WayBackComplete
  <2>1. Form(job[B]) /\ job[B].phase \in Phase
    BY Servers DEF JobInv, Book, JobsFit, JobTypes, Job
  <2> QED
    BY <1>1, <1>5, <1>6, <1>9, <2>1 DEF NoWayBack, Calm, Ended, SwapExpected, BeforeLock, Locked, Form, Phase
<1>14. active' = A => job[A].kind # "sequential"
  BY <1>5, <1>8, Servers
<1>15. SealComplete' /\ FreezeComplete' /\ CopyComplete' /\ SealAtB'
  <2>1. Form(job[A])
    BY Servers DEF JobInv, Book, JobsFit
  <2>2. job[A].kind # "sequential"
    BY <1>1, <1>8
  <2> QED
    BY <1>1, <2>1, <2>2 DEF Form, SealComplete, FreezeComplete, CopyComplete, Held, SealAtB
<1> QED
  BY <1>7, <1>10, <1>12, <1>13, <1>15 DEF JobInv, Book

\* The way back is open only to a copy with every write.
LEMMA AbandonKeeps ==
  ASSUME JobInv, NEW n \in Server, Abandon(n)
  PROVE  JobInv'
<1> DEFINE m == Other(n)
           d == IF db[m] = "frozen" /\ FrozenCurrent(m) THEN "primary" ELSE db[m]
<1>1. /\ active = n /\ cmd[n] = "abandon" /\ m \in Server /\ m # n /\ mail[m] = None
      /\ db' = [db EXCEPT ![n] = "stopped", ![m] = d]
      /\ Becomes(m, TRUE) /\ cmd' = [cmd EXCEPT ![n] = None]
      /\ UNCHANGED <<job, acks, running, done, mail, data, commit, seen, acked>>
  BY Servers DEF Abandon
<1>2. d = db[m] \/ (db[m] = "frozen" /\ d = "primary")
  OBVIOUS
<1> HIDE DEF d
<1>3. \A s \in Server : s = m \/ s = n
  BY Servers
<1>4. m = Other(n)
  OBVIOUS
<1> HIDE DEF m
<1>5. /\ flags' \in [Server -> Flags] /\ active' = m
  BY <1>1, BecomesIs
<1>6. /\ job[n].phase = "Rollback" /\ job[n].lock = "on" /\ n = First(job[A].kind) /\ job[A].kind # "swap"
      /\ job[n].kind = job[A].kind /\ (job[A].kind = "sequential" => job[n].freezeAcked)
  BY <1>1, NoneIs DEF JobInv, Book, CommandsFit, JobsFit, Form
<1>7. JobTypes' /\ OpTypes' /\ WorldTypes'
  BY <1>1, <1>2, <1>5 DEF JobInv, JobTypes, OpTypes, WorldTypes
<1>8. mail[n] = None /\ mail[m] = None /\ cmd'[m] = None /\ cmd'[n] = None
  BY <1>1 DEF JobInv, Book, MailFits, CommandsFit, JobTypes
<1>9. JobsFit' /\ MailFits' /\ NumbersFit' /\ OrdersFit' /\ CommandsFit'
  BY <1>1, <1>3, <1>8 DEF JobInv, Book, JobsFit, MailFits, NumbersFit, OrdersFit, CommandsFit
\* The copy of the other server has every write.
<1>10. db[m] = "frozen" => data[m] = acked
  <2>1. CASE job[A].kind = "sequential"
    <3>1. n = A /\ m = B /\ Held(job[A])
      BY <1>4, <1>6, <2>1, Servers DEF Held, First
    <3> QED
      BY <1>1, <3>1 DEF JobInv, CopyComplete, NotFrozen
  <2>2. CASE job[A].kind # "sequential"
    <3>1. n = B /\ m = A /\ job[A].kind = "rolling"
      <4>1. job[A].kind \in {"rolling", "sequential", "swap"}
        BY Servers, KindsAssumption DEF JobInv, JobTypes, Job
      <4> QED
        BY <1>4, <1>6, <2>2, <4>1, Servers DEF First
    <3> QED
      BY <1>1, <3>1, NoneIs DEF JobInv, WayBackComplete, NoWayBack
  <2> QED
    BY <2>1, <2>2
<1>11. db'[m] = d /\ db'[n] = "stopped" /\ db[m] \notin {"primary", "sealed"}
  BY <1>1 DEF JobInv, WorldTypes, Writable
<1>12. Writable' /\ Frozen'
  BY <1>1, <1>2, <1>3, <1>5, <1>10, <1>11 DEF JobInv, Writable, Frozen
<1>13. active' = B => n = A /\ job[A].kind = "sequential"
  BY <1>1, <1>3, <1>5, <1>6, Servers DEF First
<1>14. active' = A => job[A].kind # "sequential"
  BY <1>1, <1>5, <1>6, Servers DEF First
<1>15. WayBackComplete'
  BY <1>1, <1>13 DEF WayBackComplete
<1>16. SealComplete' /\ FreezeComplete' /\ CopyComplete' /\ SealAtB'
  <2>1. Form(job[A])
    BY Servers DEF JobInv, Book, JobsFit
  <2>2. active' = A \/ active' = B
    BY <1>5, <1>1 DEF Server
  <2> QED
    BY <1>1, <1>14, <2>1, <2>2, Servers DEF Form, SealComplete, FreezeComplete, CopyComplete, Held, SealAtB
<1> QED
  BY <1>7, <1>9, <1>12, <1>15, <1>16 DEF JobInv, Book

\* An answer is sent again.
LEMMA Appended ==
  ASSUME OpTypes, NEW m \in Server, NEW a \in Ack, acks' = [acks EXCEPT ![m] = Append(@, a)]
  PROVE  /\ acks' \in [Server -> Seq(Ack)]
         /\ \A s \in Server : \A i \in DOMAIN acks'[s] :
              (\E k \in DOMAIN acks[s] : acks'[s][i] = acks[s][k]) \/ (s = m /\ acks'[s][i] = a)
<1>1. \A s \in Server : acks[s] \in Seq(Ack)
  BY DEF OpTypes
<1>2. acks' \in [Server -> Seq(Ack)]
  <2>1. Append(acks[m], a) \in Seq(Ack)
    BY <1>1
  <2> QED
    BY <2>1 DEF OpTypes
<1>3. ASSUME NEW s \in Server, NEW i \in DOMAIN acks'[s]
      PROVE  (\E k \in DOMAIN acks[s] : acks'[s][i] = acks[s][k]) \/ (s = m /\ acks'[s][i] = a)
  <2>1. CASE s = m
    <3>1. acks'[s] = Append(acks[s], a)
      BY <2>1 DEF OpTypes
    <3>2. CASE i = Len(acks[s]) + 1
      BY <1>1, <2>1, <3>1, <3>2
    <3>3. CASE i # Len(acks[s]) + 1
      BY <1>1, <1>3, <3>1, <3>3
    <3> QED
      BY <3>2, <3>3
  <2>2. CASE s # m
    BY <1>3, <2>2 DEF OpTypes
  <2> QED
    BY <2>1, <2>2
<1> QED
  BY <1>2, <1>3

\* Sending again says nothing new.
LEMMA ResendKeeps ==
  ASSUME JobInv, NEW n \in Server, Resend(n)
  PROVE  JobInv'
<1> DEFINE j == job[n]
           m == Other(n)
           p == [op |-> j.waitOp, job |-> j]
           q == [op |-> None, job |-> j]
           t == [op |-> j.waitOp, seq |-> j.waitSeq, from |-> n, sealed |-> j.sealed]
<1>1. /\ active = n /\ m \in Server /\ m # n
      /\ UNCHANGED <<job, done, flags, cmd, active, db, data, commit, seen, acked>>
  BY Servers DEF Resend, world
<1>2. j \in Job /\ Form(j) /\ j.waitSeq <= j.seq /\ j.kind = job[A].kind
  BY DEF JobInv, JobTypes, Book, JobsFit
<1>3. \/ j.waitOp # None /\ j.waitNode = m /\ mail' = [mail EXCEPT ![m] = p] /\ UNCHANGED <<running, acks>>
      \/ /\ j.waitOp # None /\ j.waitNode = n /\ done[n] # None /\ done[n].op = j.waitOp
         /\ acks' = [acks EXCEPT ![n] = Append(@, done[n])] /\ UNCHANGED <<running, mail>>
      \/ /\ j.waitOp # None /\ j.waitNode = n
         /\ running' = [running EXCEPT ![n] = t] /\ UNCHANGED <<acks, mail>>
      \/ mail' = [mail EXCEPT ![m] = q] /\ UNCHANGED <<running, acks>>
  BY DEF Resend
<1>4. /\ p \in Letter /\ p.op = j.waitOp /\ p.job = j /\ q \in Letter /\ q.op = None /\ q.job = j
      /\ (j.waitOp # None => t \in Task /\ t.op = j.waitOp /\ t.seq = j.waitSeq /\ t.from = n)
  BY <1>2 DEF Letter, Task, Job
<1>5. m = Other(n) /\ n = Other(m) /\ j = job[n]
  BY Servers
<1> HIDE DEF j, m, p, q, t
<1>6. \/ mail' = mail
      \/ mail' = [mail EXCEPT ![m] = p] /\ j.waitNode = m
      \/ mail' = [mail EXCEPT ![m] = q]
  BY <1>3
<1>7. running' = running \/ (running' = [running EXCEPT ![n] = t] /\ j.waitOp # None /\ j.waitNode = n)
  BY <1>3
<1>8. /\ acks' \in [Server -> Seq(Ack)]
      /\ \A s \in Server : \A i \in DOMAIN acks'[s] :
           \/ \E k \in DOMAIN acks[s] : acks'[s][i] = acks[s][k]
           \/ s = n /\ done[n] # None /\ acks'[s][i] = done[n]
  <2>1. CASE acks' = acks
    BY <2>1 DEF JobInv, OpTypes
  <2>2. CASE done[n] # None /\ acks' = [acks EXCEPT ![n] = Append(@, done[n])]
    BY <2>2, Appended DEF JobInv, OpTypes
  <2> QED
    BY <1>3, <2>1, <2>2
<1>9. JobTypes' /\ OpTypes' /\ WorldTypes'
  <2>1. JobTypes'
    BY <1>1, <1>4, <1>6 DEF JobInv, JobTypes
  <2>2. running' \in [Server -> Task \cup {None}]
    BY <1>4, <1>7 DEF JobInv, OpTypes
  <2>3. OpTypes'
    BY <1>1, <1>8, <2>2 DEF JobInv, OpTypes
  <2> QED
    BY <1>1, <2>1, <2>3 DEF JobInv, WorldTypes
<1>10. JobsFit' /\ CommandsFit' /\ Writable' /\ Frozen' /\ WayBackComplete' /\ SealAtB' /\ FreezeComplete'
  BY <1>1 DEF JobInv, Book, JobsFit, CommandsFit, Writable, Frozen, WayBackComplete, NoWayBack, SealAtB,
     FreezeComplete, Redo
<1>11. MailFits'
  <2>1. ASSUME NEW s \in Server, mail'[s] # None, mail'[s] # mail[s]
        PROVE  s = m /\ mail'[s] \in {p, q} /\ (mail'[s] = p => j.waitNode = m \/ p = q)
    BY <1>1, <1>6, <2>1 DEF JobInv, JobTypes
  <2>2. \A s \in Server : mail'[s] # None /\ mail'[s] = mail[s] =>
          LET in == mail'[s].job
          IN /\ s # active' /\ Form(in) /\ in.waitSeq <= in.seq /\ in.kind = job'[A].kind
             /\ in.seq <= job'[Other(s)].seq
             /\ mail'[s].op # None => mail'[s].op = in.waitOp /\ in.waitNode = s
    BY <1>1 DEF JobInv, Book, MailFits
  <2>3. j.seq <= j.seq
    BY <1>2 DEF Job
  <2>4. \A s \in Server : mail'[s] # None /\ mail'[s] # mail[s] =>
          LET in == mail'[s].job
          IN /\ s # active' /\ Form(in) /\ in.waitSeq <= in.seq /\ in.kind = job'[A].kind
             /\ in.seq <= job'[Other(s)].seq
             /\ mail'[s].op # None => mail'[s].op = in.waitOp /\ in.waitNode = s
    BY <1>1, <1>2, <1>4, <1>5, <2>1, <2>3
  <2> QED
    BY <2>2, <2>4 DEF MailFits
<1>12. NumbersFit' /\ OrdersFit'
  <2>1. \A s \in Server : running'[s] # None => running'[s] = running[s] \/ (s = n /\ running'[s] = t /\ j.waitOp # None /\ j.waitNode = n)
    BY <1>7 DEF JobInv, OpTypes
  <2>2. ASSUME NEW s \in Server, running'[s] # None
        PROVE  running'[s].seq <= job[s].seq /\ running'[s].seq <= job[running'[s].from].seq
    BY <1>2, <1>4, <1>5, <2>1, <2>2 DEF JobInv, Book, NumbersFit
  <2>3. \A s \in Server : \A i \in DOMAIN acks'[s] : acks'[s][i].seq <= job[s].seq
    BY <1>8 DEF JobInv, Book, NumbersFit
  <2>4. NumbersFit'
    BY <1>1, <2>2, <2>3 DEF JobInv, Book, NumbersFit
  <2>5. OrdersFit'
    BY <1>1, <1>2, <1>4, <2>1 DEF JobInv, Book, OrdersFit, Form
  <2> QED
    BY <2>4, <2>5
<1>13. SealComplete'
  <2> SUFFICES ASSUME n = A, job[A].phase = "Locked", job[A].waitOp = "seal",
                      \/ \E i \in DOMAIN acks'[A] : SealOK(acks'[A][i])
                      \/ done[A] # None /\ SealOK(done[A])
               PROVE  data[B] = acked \/ Redo
    BY <1>1 DEF SealComplete, SealOK, Redo
  <2>1. \/ \E i \in DOMAIN acks[A] : SealOK(acks[A][i])
        \/ done[A] # None /\ SealOK(done[A])
    BY <1>8, Servers
  <2> QED
    BY <1>1, <2>1 DEF JobInv, SealComplete
\* A step that holds the copy no longer waits for the freeze.
<1>14. CopyComplete'
  <2> SUFFICES ASSUME n = A, Held(job[A])
               PROVE  data[B] = acked \/ NotFrozen'
    BY <1>1 DEF CopyComplete
  <2>1. j.waitOp # "freeze" /\ m = B
    BY <1>2, <1>5, Servers DEF Held, Form
  <2>2. \/ data[B] = acked
        \/ db[B] # "frozen" /\ (running[B] # None => running[B].op # "freeze")
           /\ (mail[B] # None => mail[B].op # "freeze")
    BY <1>1 DEF JobInv, CopyComplete, NotFrozen
  <2>3. running'[B] = running[B]
    BY <1>7, Servers DEF JobInv, OpTypes
  <2>4. mail'[B] # None => mail'[B] = mail[B] \/ mail'[B].op # "freeze"
    BY <1>4, <1>6, <2>1, NoneIs, Servers DEF JobInv, JobTypes
  <2> QED
    BY <1>1, <2>2, <2>3, <2>4 DEF NotFrozen
<1> QED
  BY <1>9, <1>10, <1>11, <1>12, <1>13, <1>14 DEF JobInv, Book

\* A message brings the job of the active server and an order that fits it.
LEMMA ReceiveKeeps ==
  ASSUME JobInv, NEW n \in Server, Receive(n)
  PROVE  JobInv'
<1> DEFINE m == Other(n)
           in == mail[n].job
           op == mail[n].op
           w == MirrorWins(job[n], in)
           b == flags[n].restart /\ ~w /\ in.seq < job[n].seq
           k == IF w THEN in ELSE job[n]
           t == [op |-> op, seq |-> in.waitSeq, from |-> m, sealed |-> in.sealed]
<1>1. /\ mail[n] # None /\ m \in Server /\ m # n /\ n = Other(m) /\ mail' = [mail EXCEPT ![n] = None]
      /\ UNCHANGED <<done, cmd, active, db, data, commit, seen, acked>>
  BY Servers DEF Receive, world
<1>2. job' = [job EXCEPT ![n] = k] /\ flags' = [flags EXCEPT ![n].restart = b]
  BY DEF Receive, MirrorIn
<1>3. running' = running \/ (op # None /\ running' = [running EXCEPT ![n] = t])
  BY DEF Receive
<1>4. \/ acks' = acks
      \/ /\ done[n] # None /\ done[n].op = op /\ done[n].seq = in.waitSeq
         /\ acks' = [acks EXCEPT ![m] = Append(@, done[n])]
  BY DEF Receive
<1>5. /\ mail[n] \in Letter /\ in \in Job /\ op \in Op \cup {None} /\ Form(in) /\ in.waitSeq <= in.seq
      /\ in.kind = job[A].kind /\ in.seq <= job[m].seq /\ n # active
      /\ (op # None => op = in.waitOp /\ in.waitNode = n)
  BY <1>1 DEF JobInv, JobTypes, Letter, Book, MailFits
<1>6. /\ job[n] \in Job /\ Form(job[n]) /\ job[n].waitSeq <= job[n].seq /\ job[n].kind = job[A].kind
      /\ flags[n] \in Flags
  BY DEF JobInv, JobTypes, Book, JobsFit
<1>7. /\ k \in Job /\ Form(k) /\ k.waitSeq <= k.seq /\ k.kind = job[A].kind
      /\ job[n].seq <= k.seq /\ in.seq <= k.seq
  <2>1. CASE w
    <3>1. job[n].seq <= in.seq
      BY <1>5, <1>6, <2>1 DEF MirrorWins, Job
    <3> QED
      BY <1>5, <2>1, <3>1 DEF Job
  <2>2. CASE ~w
    <3>1. in.seq <= job[n].seq
      BY <1>5, <1>6, <2>2 DEF MirrorWins, Job
    <3> QED
      BY <1>6, <2>2, <3>1 DEF Job
  <2> QED
    BY <2>1, <2>2
<1>8. b \in BOOLEAN
  BY <1>6 DEF Flags, MirrorWins
<1>9. op # None => t \in Task /\ t.op = op /\ t.seq = in.waitSeq /\ t.from = m
  BY <1>1, <1>5 DEF Task, Job
<1>10. m = Other(n) /\ active = m /\ \A s \in Server : s = m \/ s = n
  BY <1>5, Servers DEF JobInv, WorldTypes
<1> HIDE DEF m, in, op, w, b, k, t
<1>11. /\ flags' \in [Server -> Flags]
       /\ \A s \in Server : /\ flags'[s].takeover = flags[s].takeover /\ flags'[s].fresh = flags[s].fresh
                            /\ flags'[s].entered = flags[s].entered /\ flags'[s].confirm = flags[s].confirm
                            /\ flags'[s].abort = flags[s].abort
       /\ flags'[m] = flags[m]
  BY <1>1, <1>2, <1>8 DEF JobInv, JobTypes, Flags
<1>12. /\ acks' \in [Server -> Seq(Ack)]
       /\ \A s \in Server : \A i \in DOMAIN acks'[s] :
            \/ \E l \in DOMAIN acks[s] : acks'[s][i] = acks[s][l]
            \/ /\ s = m /\ done[n] # None /\ done[n].op = op /\ done[n].seq = in.waitSeq
               /\ acks'[s][i] = done[n]
  <2>1. CASE acks' = acks
    BY <2>1 DEF JobInv, OpTypes
  <2>2. CASE /\ done[n] # None /\ done[n].op = op /\ done[n].seq = in.waitSeq
             /\ acks' = [acks EXCEPT ![m] = Append(@, done[n])]
    BY <1>1, <2>2, Appended DEF JobInv, OpTypes
  <2> QED
    BY <1>4, <2>1, <2>2
<1>13. JobTypes' /\ OpTypes' /\ WorldTypes'
  <2>1. JobTypes'
    BY <1>1, <1>2, <1>7, <1>11 DEF JobInv, JobTypes
  <2>2. OpTypes'
    BY <1>1, <1>3, <1>9, <1>12 DEF JobInv, OpTypes
  <2> QED
    BY <1>1, <2>1, <2>2 DEF JobInv, WorldTypes
<1>14. /\ job'[n] = k /\ job'[m] = job[m] /\ job'[A].kind = job[A].kind
       /\ \A s \in Server : job'[s].kind = job[s].kind /\ job[s].seq <= job'[s].seq
  <2>1. job'[n] = k /\ job'[m] = job[m]
    BY <1>1, <1>2 DEF JobInv, JobTypes
  <2>2. job[m].seq \in Nat
    BY <1>1 DEF JobInv, JobTypes, Job
  <2>3. \A s \in Server : job'[s].kind = job[s].kind /\ job[s].seq <= job'[s].seq
    BY <1>6, <1>7, <1>10, <2>1, <2>2
  <2> QED
    BY <2>1, <2>3, Servers
<1>15. JobsFit'
  BY <1>7, <1>10, <1>14 DEF JobInv, Book, JobsFit
<1>16. MailFits'
  <2>1. mail'[n] = None /\ mail'[m] = None
    BY <1>1, <1>10 DEF JobInv, Book, MailFits, JobTypes
  <2> QED
    BY <1>10, <2>1 DEF MailFits
<1>17. NumbersFit'
  <2>1. \A s \in Server : job[s].seq \in Nat /\ job'[s].seq \in Nat
    BY <1>13 DEF JobInv, JobTypes, Job
  <2>2. ASSUME NEW s \in Server, running'[s] # None
        PROVE  running'[s].seq <= job'[s].seq /\ running'[s].seq <= job'[running'[s].from].seq
    <3>1. CASE running'[s] = running[s]
      <4>1. running[s] \in Task
        BY <2>2, <3>1 DEF JobInv, OpTypes
      <4> QED
        BY <1>14, <2>1, <2>2, <3>1, <4>1 DEF JobInv, Book, NumbersFit, Task
    <3>2. CASE s = n /\ running'[s] = t /\ op # None
      <4>1. in.waitSeq \in Nat /\ in.seq \in Nat
        BY <1>5 DEF Job
      <4> QED
        BY <1>1, <1>5, <1>7, <1>9, <1>14, <2>1, <3>2, <4>1
    <3> QED
      BY <1>3, <3>1, <3>2 DEF JobInv, OpTypes
  <2>3. ASSUME NEW s \in Server, NEW i \in DOMAIN acks'[s]
        PROVE  acks'[s][i].seq <= job'[s].seq
    <3>1. acks'[s] \in Seq(Ack)
      BY <1>12
    <3>2. acks'[s][i].seq \in Nat
      <4> DEFINE q == acks'[s]
      <4>1. q \in Seq(Ack) /\ i \in DOMAIN q
        BY <2>3, <3>1
      <4> HIDE DEF q
      <4>2. q[i] \in Ack
        BY <4>1
      <4>3. q[i].seq \in Nat
        BY <4>2 DEF Ack
      <4> QED
        BY <4>3 DEF q
    <3>3. CASE \E l \in DOMAIN acks[s] : acks'[s][i] = acks[s][l]
      BY <1>14, <2>1, <3>2, <3>3 DEF JobInv, Book, NumbersFit
    <3>4. CASE s = m /\ done[n].seq = in.waitSeq /\ acks'[s][i] = done[n]
      <4>1. in.waitSeq \in Nat /\ in.seq \in Nat
        BY <1>5 DEF Job
      <4> QED
        BY <1>5, <1>14, <2>1, <3>4, <4>1
    <3> QED
      BY <1>12, <2>3, <3>3, <3>4
  <2>4. ASSUME NEW s \in Server, done'[s] # None
        PROVE  done'[s].seq <= job'[s].seq
    <3>1. done[s].seq \in Nat
      BY <1>1, <2>4 DEF JobInv, OpTypes, Ack
    <3> QED
      BY <1>1, <1>14, <2>1, <2>4, <3>1 DEF JobInv, Book, NumbersFit
  <2> QED
    BY <2>2, <2>3, <2>4 DEF NumbersFit
<1>18. OrdersFit'
  <2>1. \A s \in Server : running'[s] # None => running'[s] = running[s] \/ (s = n /\ running'[s] = t /\ op # None)
    BY <1>3 DEF JobInv, OpTypes
  <2> QED
    BY <1>5, <1>9, <1>14, <2>1 DEF JobInv, Book, OrdersFit, Form
<1>19. CommandsFit'
  <2>1. \A s \in Server : cmd'[s] # None => s = m
    BY <1>1, <1>10 DEF JobInv, Book, CommandsFit
  <2> QED
    BY <1>1, <1>11, <1>14, <2>1 DEF JobInv, Book, CommandsFit
<1>20. Writable' /\ Frozen'
  BY <1>1, <1>14 DEF JobInv, Writable, Frozen
<1>21. WayBackComplete'
  <2>1. active = B => m = B
    BY <1>10
  <2> QED
    BY <1>1, <1>11, <1>14, <2>1 DEF JobInv, WayBackComplete, NoWayBack
<1>22. active = A => m = A /\ n = B
  BY <1>10, Servers
<1>23. SealComplete'
  <2> SUFFICES ASSUME m = A, n = B, job[A].phase = "Locked", job[A].waitOp = "seal",
                      \/ \E i \in DOMAIN acks'[A] : SealOK(acks'[A][i])
                      \/ done[A] # None /\ SealOK(done[A])
               PROVE  data[B] = acked \/ Redo
    BY <1>1, <1>11, <1>14, <1>22 DEF SealComplete, SealOK, Redo
  <2>1. ~(done[B] # None /\ done[B].op = "seal" /\ done[B].ok)
    <3>1. job[A].kind = "sequential"
      BY Servers DEF JobInv, Book, JobsFit, Form
    <3> QED
      BY <1>10, <3>1, Servers DEF JobInv, SealAtB
  <2>2. \/ \E i \in DOMAIN acks[A] : SealOK(acks[A][i])
        \/ done[A] # None /\ SealOK(done[A])
    BY <1>12, <2>1, Servers DEF SealOK
  <2> QED
    BY <1>10, <2>2 DEF JobInv, SealComplete
<1>24. SealAtB'
  BY <1>1, <1>14 DEF JobInv, SealAtB
<1>25. FreezeComplete'
  BY <1>1, <1>11, <1>14, <1>22 DEF JobInv, FreezeComplete, Redo
<1>26. CopyComplete'
  <2> SUFFICES ASSUME m = A, n = B, Held(job[A])
               PROVE  data[B] = acked \/ NotFrozen'
    BY <1>1, <1>14, <1>22 DEF CopyComplete
  <2>1. data[B] = acked \/ NotFrozen
    BY <1>10 DEF JobInv, CopyComplete
  <2>2. running'[B] = running[B] \/ (running'[B] = t /\ op # None)
    BY <1>3 DEF JobInv, OpTypes
  <2> QED
    BY <1>1, <1>9, <2>1, <2>2 DEF NotFrozen, op, JobInv, JobTypes
<1> QED
  BY <1>13, <1>15, <1>16, <1>17, <1>18, <1>19, <1>20, <1>21, <1>23, <1>24, <1>25, <1>26 DEF JobInv, Book

\* A tick of the conducting server.
LEMMA ConductKeeps ==
  ASSUME JobInv, NEW n \in Server, Conduct(n)
  PROVE  JobInv'
<1>1. PICK o, r : Conducted(n, o, r)
  BY ConductIs
<1> DEFINE j == job[n]
           k == r.j
           m == Other(n)
           p == [op |-> r.op, job |-> k]
           q == [op |-> None, job |-> k]
           t == [op |-> r.op, seq |-> k.waitSeq, from |-> n, sealed |-> k.sealed]
<1>2. /\ active = n /\ ~Ended(j) /\ mail[m] = None /\ mail[n] = None /\ m \in Server /\ m # n
      /\ n = Other(m) /\ \A s \in Server : s = m \/ s = n
  BY ConductIs, Servers DEF JobInv, Book, MailFits
<1>3. /\ job' = [job EXCEPT ![n] = k]
      /\ acks' = [acks EXCEPT ![n] = IF o.ack # None THEN Tail(@) ELSE @]
      /\ flags' = [flags EXCEPT ![n] = NoFlags]
      /\ cmd' = [cmd EXCEPT ![n] = IF r.cmd = None THEN @ ELSE r.cmd]
      /\ \/ r.to = m /\ mail' = [mail EXCEPT ![m] = p]
         \/ r.to # m /\ (mail' = [mail EXCEPT ![m] = q] \/ mail' = mail)
      /\ running' = IF r.to = n THEN [running EXCEPT ![n] = t] ELSE running
      /\ UNCHANGED <<done, active, db, data, commit, seen, acked>>
  BY <1>1 DEF Conducted, world
<1>4. Looks(n, o) /\ Stepped(j, o, r)
  BY <1>1 DEF Conducted
<1>5. j \in Job /\ Form(j) /\ j.waitSeq <= j.seq /\ j.kind = job[A].kind
  BY DEF JobInv, JobTypes, Book, JobsFit
<1>6. /\ r \in StepRecord /\ k \in Job /\ Form(k) /\ k.kind = j.kind /\ k.seq \in {j.seq, j.seq + 1}
      /\ Sends(j, r) /\ Commands(o, r) /\ Moves(j, o, k) /\ Seals(j, o, r)
      /\ (~o.takeover => Hands(j, o, k)) /\ (o.takeover => Calm(k) /\ r.cmd = None)
      /\ (BeforeLock(j) /\ o.abort => Calm(k)) /\ (r.op # None => k.seq = j.seq + 1)
  BY <1>4, <1>5 DEF Stepped, StepRecord
<1>7. /\ r.op \in Op \cup {None} /\ r.cmd \in {"swap", "freeze", "abandon", None} /\ r.to \in Server \cup {None}
      /\ j.seq \in Nat /\ j.waitSeq \in Nat /\ k.waitSeq \in Nat /\ k.seq \in Nat
  BY <1>5, <1>6 DEF StepRecord, Job
<1>8. k.waitSeq <= k.seq /\ j.seq <= k.seq /\ (r.op # None => k.waitSeq > j.seq)
  BY <1>5, <1>6, <1>7 DEF Sends
<1>9. r.to # None => r.op # None /\ k.waitOp = r.op /\ k.waitNode = r.to
  BY <1>6 DEF Sends
<1>10. /\ p \in Letter /\ p.op = r.op /\ p.job = k /\ q \in Letter /\ q.op = None /\ q.job = k
       /\ (r.op # None => t \in Task /\ t.op = r.op /\ t.seq = k.waitSeq /\ t.from = n)
  BY <1>6, <1>7 DEF Letter, Task, Job
<1>11. job'[n] = k /\ job'[m] = job[m] /\ (\A s \in Server : job'[s].kind = job[s].kind /\ job[s].seq <= job'[s].seq)
  <2>1. job'[n] = k /\ job'[m] = job[m]
    BY <1>2, <1>3 DEF JobInv, JobTypes
  <2>2. job[m].seq \in Nat
    BY <1>2 DEF JobInv, JobTypes, Job
  <2> QED
    BY <1>2, <1>6, <1>7, <1>8, <2>1, <2>2
<1>12. o \in Look /\ o.self = n /\ o.takeover = flags[n].takeover /\ o.fresh = flags[n].fresh
       /\ o.abort = (flags[n].abort \/ flags[n].restart) /\ o.confirm = flags[n].confirm
       /\ o.handover = (cmd[n] # None) /\ (o.ack # None => acks[n] # <<>> /\ o.ack = acks[n][1])
       /\ (cmd[n] # None => ~o.late)
       /\ (cmd[n] = None /\ j.phase = "Countdown" /\ n # j.second /\ j.kind # "sequential" => o.late)
  BY <1>4 DEF Looks
<1>13. /\ flags' \in [Server -> Flags] /\ flags'[n].takeover = FALSE /\ flags'[n].confirm = "no"
       /\ flags'[m] = flags[m]
  <2> DEFINE z == NoFlags
  <2>1. z \in Flags /\ z.takeover = FALSE /\ z.confirm = "no"
    BY DEF NoFlags, Flags
  <2>2. flags' = [flags EXCEPT ![n] = z]
    BY <1>3
  <2> HIDE DEF z
  <2> QED
    BY <1>2, <2>1, <2>2 DEF JobInv, JobTypes
<1>14. /\ acks' \in [Server -> Seq(Ack)]
       /\ \A s \in Server : acks'[s] \in {acks[s], Tail(acks[s])}
       /\ \A s \in Server : \A i \in DOMAIN acks'[s] : \E l \in DOMAIN acks[s] : acks'[s][i] = acks[s][l]
  <2>1. acks[n] \in Seq(Ack) /\ (o.ack # None => acks[n] # <<>>)
    BY <1>12 DEF JobInv, OpTypes
  <2>2. CASE o.ack = None
    BY <1>3, <2>2 DEF JobInv, OpTypes
  <2>3. CASE o.ack # None
    <3> DEFINE e == Tail(acks[n])
    <3>1. e \in Seq(Ack) /\ \A i \in DOMAIN e : i + 1 \in DOMAIN acks[n] /\ e[i] = acks[n][i + 1]
      BY <2>1, <2>3
    <3>2. acks' = [acks EXCEPT ![n] = e]
      BY <1>3, <2>3
    <3>3. acks'[n] = e /\ acks'[m] = acks[m]
      BY <1>2, <3>2 DEF JobInv, OpTypes
    <3> HIDE DEF e
    <3>4. acks' \in [Server -> Seq(Ack)]
      BY <3>1, <3>2 DEF JobInv, OpTypes
    <3>5. \A i \in DOMAIN acks'[n] : \E l \in DOMAIN acks[n] : acks'[n][i] = acks[n][l]
      BY <3>1, <3>3
    <3>6. \A i \in DOMAIN acks'[m] : \E l \in DOMAIN acks[m] : acks'[m][i] = acks[m][l]
      BY <3>3
    <3>7. acks'[n] = Tail(acks[n])
      BY <3>3 DEF e
    <3>8. \A s \in Server : acks'[s] \in {acks[s], Tail(acks[s])}
      BY <1>2, <3>3, <3>7
    <3>9. \A s \in Server : \A i \in DOMAIN acks'[s] : \E l \in DOMAIN acks[s] : acks'[s][i] = acks[s][l]
      BY <1>2, <3>5, <3>6
    <3> QED
      BY <3>4, <3>8, <3>9
  <2> QED
    BY <2>2, <2>3
<1> HIDE DEF j, k, m, p, q, t
<1>15. running'[m] = running[m] /\ (running'[n] = running[n] \/ (running'[n] = t /\ r.op # None /\ r.to = n))
  BY <1>2, <1>3, <1>9, NoneIs DEF JobInv, OpTypes
<1>16. mail'[n] = None /\ (mail'[m] = None \/ (mail'[m] = p /\ r.to = m) \/ mail'[m] = q)
  BY <1>2, <1>3 DEF JobInv, JobTypes
<1>17. cmd'[n] \in {cmd[n], r.cmd} /\ (r.cmd # None => cmd'[n] = r.cmd) /\ cmd'[m] = cmd[m] /\ cmd[m] = None
  BY <1>2, <1>3 DEF JobInv, JobTypes, Book, CommandsFit
<1>18. JobTypes' /\ OpTypes' /\ WorldTypes'
  <2>1. JobTypes'
    BY <1>2, <1>3, <1>6, <1>7, <1>10, <1>13 DEF JobInv, JobTypes
  <2>2. OpTypes'
    <3>1. CASE r.to = n
      BY <1>2, <1>3, <1>9, <1>10, <1>14, <3>1, NoneIs DEF JobInv, OpTypes
    <3>2. CASE r.to # n
      BY <1>3, <1>14, <3>2 DEF JobInv, OpTypes
    <3> QED
      BY <3>1, <3>2
  <2>3. WorldTypes'
    BY <1>3 DEF JobInv, WorldTypes
  <2> QED
    BY <2>1, <2>2, <2>3
<1>19. JobsFit'
  BY <1>2, <1>5, <1>6, <1>8, <1>11, Servers DEF JobInv, Book, JobsFit
<1>20. MailFits'
  <2>1. k.kind = job'[A].kind
    BY <1>5, <1>6, <1>11, Servers
  <2>2. mail'[m].op # None /\ mail'[m] # None => mail'[m] = p /\ r.to = m
    BY <1>10, <1>16
  <2>3. k.seq <= job'[Other(m)].seq
    BY <1>2, <1>7, <1>11
  <2> QED
    BY <1>2, <1>3, <1>6, <1>8, <1>9, <1>10, <1>16, <2>1, <2>2, <2>3, NoneIs DEF MailFits
<1>21. NumbersFit'
  <2>1. \A s \in Server : job[s].seq \in Nat /\ job'[s].seq \in Nat
    BY <1>18 DEF JobInv, JobTypes, Job
  <2>2. ASSUME NEW s \in Server, running'[s] # None
        PROVE  running'[s].seq <= job'[s].seq /\ running'[s].seq <= job'[running'[s].from].seq
    <3>1. CASE running'[s] = running[s]
      <4>1. running[s] \in Task
        BY <2>2, <3>1 DEF JobInv, OpTypes
      <4> QED
        BY <1>11, <2>1, <2>2, <3>1, <4>1 DEF JobInv, Book, NumbersFit, Task
    <3>2. CASE s = n /\ running'[s] = t /\ r.op # None
      BY <1>8, <1>10, <1>11, <3>2
    <3> QED
      BY <1>2, <1>15, <3>1, <3>2
  <2>3. ASSUME NEW s \in Server, NEW i \in DOMAIN acks'[s]
        PROVE  acks'[s][i].seq <= job'[s].seq
    <3>1. PICK l \in DOMAIN acks[s] : acks'[s][i] = acks[s][l]
      BY <1>14
    <3>2. acks[s][l].seq \in Nat
      <4> DEFINE e == acks[s]
      <4>1. e \in Seq(Ack) /\ l \in DOMAIN e
        BY DEF JobInv, OpTypes
      <4> HIDE DEF e
      <4>2. e[l] \in Ack
        BY <4>1
      <4>3. e[l].seq \in Nat
        BY <4>2 DEF Ack
      <4> QED
        BY <4>3 DEF e
    <3> QED
      BY <1>11, <2>1, <3>1, <3>2 DEF JobInv, Book, NumbersFit
  <2>4. ASSUME NEW s \in Server, done'[s] # None
        PROVE  done'[s].seq <= job'[s].seq
    <3>1. done[s].seq \in Nat
      BY <1>3, <2>4 DEF JobInv, OpTypes, Ack
    <3> QED
      BY <1>3, <1>11, <2>1, <2>4, <3>1 DEF JobInv, Book, NumbersFit
  <2> QED
    BY <2>2, <2>3, <2>4 DEF NumbersFit
<1>22. OrdersFit'
  <2>1. \A s \in Server : running'[s] # None => running'[s] = running[s] \/ (s = n /\ running'[s] = t /\ r.op # None /\ r.to = n)
    BY <1>2, <1>15
  <2>2. r.to = n /\ r.op = "freeze" => n = B /\ job[A].kind = "sequential"
    BY <1>5, <1>6, <1>9, NoneIs DEF Form
  <2> QED
    BY <1>10, <1>11, <2>1, <2>2, Servers DEF JobInv, Book, OrdersFit
\* A command waiting for the kernel stays with the way back it belongs to.
<1>23. cmd[n] = "abandon" => k.phase = "Rollback" /\ k.lock = "on" /\ k.freezeAcked = j.freezeAcked /\ n = j.first
  <2> SUFFICES ASSUME cmd[n] = "abandon"
               PROVE  k.phase = "Rollback" /\ k.lock = "on" /\ k.freezeAcked = j.freezeAcked /\ n = j.first
    OBVIOUS
  <2>1. /\ ~flags[n].takeover /\ j.phase = "Rollback" /\ j.lock = "on" /\ n = j.first
        /\ (j.kind = "sequential" => j.freezeAcked)
    BY NoneIs DEF JobInv, Book, CommandsFit, j
  <2>2. NewActive(j, o) /\ o.handover /\ ~o.late /\ ~o.takeover
    BY <1>12, <2>1, NoneIs DEF NewActive, FirstActive
  <2> QED
    BY <1>6, <2>1, <2>2 DEF Hands
<1>24. CommandsFit'
  <2> SUFFICES ASSUME cmd'[n] # None
               PROVE  /\ cmd'[n] = "swap" => job'[A].kind = "swap"
                      /\ cmd'[n] = "freeze" => job'[A].kind = "rolling" /\ n = A
                      /\ cmd'[n] = "abandon" => /\ k.phase = "Rollback" /\ k.lock = "on"
                                                /\ n = k.first /\ k.kind # "swap"
                                                /\ k.kind = "sequential" => k.freezeAcked
    BY <1>2, <1>3, <1>11, <1>13, <1>17 DEF CommandsFit
  <2>1. job'[A].kind = job[A].kind
    BY <1>11, Servers
  <2>2. CASE r.cmd # None
    BY <1>5, <1>6, <1>12, <1>17, <2>1, <2>2 DEF Commands, k
  <2>3. CASE r.cmd = None
    <3>1. cmd'[n] = cmd[n]
      BY <1>17, <2>3
    <3>2. /\ cmd[n] = "swap" => job[A].kind = "swap"
          /\ cmd[n] = "freeze" => job[A].kind = "rolling" /\ n = A
          /\ cmd[n] = "abandon" => j.kind # "swap" /\ (j.kind = "sequential" => j.freezeAcked)
      BY <3>1 DEF JobInv, Book, CommandsFit, j
    <3> QED
      BY <1>5, <1>6, <1>23, <2>1, <3>1, <3>2 DEF Form
  <2> QED
    BY <2>2, <2>3
<1>25. Writable' /\ Frozen'
  BY <1>3, <1>11, Servers DEF JobInv, Writable, Frozen
<1>26. WayBackComplete'
  <2> SUFFICES ASSUME job[A].kind = "rolling", db[A] = "frozen", n = B
               PROVE  NoWayBack' \/ (data[A] = acked /\ Locked(k))
    BY <1>2, <1>3, <1>11, Servers DEF WayBackComplete
  <2>1. job[B] = j /\ job'[B] = k /\ j.kind = "rolling" /\ j.second = A /\ n # A
    BY <1>5, <1>11, Servers DEF j, Form, First
  <2>2. r.cmd # None => k.phase = "Rollback" /\ k.lock = "on"
    BY <1>6, <1>7, <1>12, <2>1, Servers DEF Commands, k
  <2>3. cmd[n] # None => cmd[n] = "abandon"
    BY <1>5, <2>1 DEF JobInv, Book, CommandsFit, JobTypes
  <2>4. Calm(k) => NoWayBack'
    BY <1>17, <1>23, <2>1, <2>2, <2>3 DEF NoWayBack, Calm, Ended
  <2>5. CASE NoWayBack
    <3>1. CASE Calm(j)
      BY <1>6, <2>4, <3>1 DEF Moves
    <3>2. CASE j.phase = "Ask" /\ (flags[B].confirm # "yes" \/ flags[B].takeover)
      <4>1. Calm(k) \/ k.phase = "Ask"
        BY <1>6, <1>12, <3>2 DEF Moves
      <4>2. k.phase = "Ask" => NoWayBack'
        BY <1>13, <1>17, <2>1, <2>2, <2>5 DEF NoWayBack
      <4> QED
        BY <2>4, <4>1, <4>2
    <3>3. CASE BeforeLock(j) /\ (flags[B].restart \/ flags[B].abort \/ flags[B].takeover)
      <4>1. Calm(k)
        BY <1>6, <1>12, <3>3
      <4> QED
        BY <2>4, <4>1
    <3> QED
      BY <2>1, <2>5, <3>1, <3>2, <3>3 DEF NoWayBack
  <2>6. CASE data[A] = acked /\ Locked(j)
    BY <1>6, <2>4, <2>6 DEF Moves
  <2>7. CASE data[A] = acked /\ j.phase = "Countdown"
    <3>1. cmd[n] = None
      BY <2>1, <2>3, <2>7 DEF JobInv, Book, CommandsFit
    <3>2. o.late
      BY <1>12, <2>1, <2>7, <3>1
    <3> QED
      BY <1>6, <2>4, <2>7, <3>2 DEF Moves
  <2> QED
    BY <1>2, <2>1, <2>5, <2>6, <2>7 DEF JobInv, WayBackComplete
<1>27. k.phase = "Locked" \/ Held(k) => ~o.takeover
  BY <1>6 DEF Calm, Held, Ended
<1>28. ~o.fresh /\ ~o.takeover /\ n = A => ~Redo
  BY <1>12 DEF Redo
<1>29. SealComplete'
  <2> SUFFICES ASSUME n = A, k.phase = "Locked", k.waitOp = "seal",
                      \/ \E i \in DOMAIN acks'[A] : acks'[A][i].op = "seal" /\ acks'[A][i].ok /\ acks'[A][i].seq >= k.waitSeq
                      \/ done[A] # None /\ done[A].op = "seal" /\ done[A].ok /\ done[A].seq >= k.waitSeq
               PROVE  data[B] = acked
    BY <1>2, <1>3, <1>11 DEF SealComplete, SealOK
  <2>1. \/ \E i \in DOMAIN acks[A] : acks[A][i].op = "seal" /\ acks[A][i].ok /\ acks[A][i].seq >= k.waitSeq
        \/ done[A] # None /\ done[A].op = "seal" /\ done[A].ok /\ done[A].seq >= k.waitSeq
    BY <1>14, Servers
  <2>2. \/ \E i \in DOMAIN acks[A] : acks[A][i].seq \in Nat /\ acks[A][i].seq <= j.seq /\ acks[A][i].seq >= k.waitSeq
        \/ done[A] # None /\ done[A].seq \in Nat /\ done[A].seq <= j.seq /\ done[A].seq >= k.waitSeq
    <3>1. \A i \in DOMAIN acks[A] : acks[A][i].seq \in Nat
      <4> DEFINE e == acks[A]
      <4>1. e \in Seq(Ack)
        BY Servers DEF JobInv, OpTypes
      <4> HIDE DEF e
      <4>2. ASSUME NEW i \in DOMAIN e
            PROVE  e[i].seq \in Nat
        <5>1. e[i] \in Ack
          BY <4>1
        <5> QED
          BY <5>1 DEF Ack
      <4> QED
        BY <4>2 DEF e
    <3>2. done[A] # None => done[A].seq \in Nat
      BY Servers DEF JobInv, OpTypes, Ack
    <3> QED
      BY <2>1, <3>1, <3>2, Servers DEF JobInv, Book, NumbersFit, j
  <2>3. r.op = None
    BY <1>7, <1>8, <2>2
  <2>4. j.waitOp = "seal" /\ k.waitSeq = j.waitSeq /\ ~o.fresh
    BY <1>6, <2>3, NoneIs DEF Seals, k
  <2>5. j.phase = "Locked"
    BY <1>5, <2>4 DEF Form
  <2> QED
    BY <1>2, <1>27, <1>28, <2>1, <2>4, <2>5 DEF JobInv, SealComplete, SealOK, j
<1>30. SealAtB'
  BY <1>3, <1>11, Servers DEF JobInv, SealAtB
\* The freeze is only sent after a seal that found B complete.
<1>31. n = A /\ k.waitOp = "freeze" => data[B] = acked
  <2> SUFFICES ASSUME n = A, k.waitOp = "freeze"
               PROVE  data[B] = acked
    OBVIOUS
  <2>1. k.phase = "Locked"
    BY <1>6 DEF Form
  <2>2. ~Redo /\ ~o.fresh
    BY <1>6, <1>27, <1>28, <2>1 DEF Seals, k
  <2>3. CASE j.waitOp = "freeze"
    BY <1>2, <2>2, <2>3 DEF JobInv, FreezeComplete, j
  <2>4. CASE SealAnswered(j, o)
    <3>1. 1 \in DOMAIN acks[A] /\ acks[A][1] = o.ack
      BY <1>12, <2>4, Servers DEF SealAnswered, JobInv, OpTypes
    <3>2. SealOK(acks[A][1])
      BY <2>4, <3>1 DEF SealAnswered, SealOK, j
    <3> QED
      BY <1>2, <2>2, <2>4, <3>1, <3>2 DEF JobInv, SealComplete, SealAnswered, j
  <2> QED
    BY <1>6, <2>3, <2>4 DEF Seals, k
<1>32. FreezeComplete'
  BY <1>2, <1>3, <1>11, <1>31 DEF FreezeComplete
<1>33. CopyComplete'
  <2> SUFFICES ASSUME n = A, Held(k)
               PROVE  data[B] = acked \/ NotFrozen'
    BY <1>2, <1>3, <1>11 DEF CopyComplete
  <2>1. CASE Held(j)
    <3>1. r.op # "freeze" \/ r.to # m
      BY <1>6, <1>9, NoneIs, <1>2 DEF Held, Form
    <3>2. m = B /\ (data[B] = acked \/ NotFrozen)
      BY <1>2, <2>1, Servers DEF JobInv, CopyComplete, j
    <3> QED
      BY <1>3, <1>10, <1>15, <1>16, <3>1, <3>2, NoneIs DEF NotFrozen
  <2>2. CASE j.waitOp = "freeze" /\ ~o.fresh
    BY <1>2, <1>27, <1>28, <2>2 DEF JobInv, FreezeComplete, j
  <2> QED
    BY <1>6, <2>1, <2>2 DEF Seals, k
<1> QED
  BY <1>18, <1>19, <1>20, <1>21, <1>22, <1>24, <1>25, <1>26, <1>29, <1>30, <1>32, <1>33 DEF JobInv, Book

\* A job that was just created.
LEMMA InitIs ==
  ASSUME UpdateInit
  PROVE  JobInv
<1>1. PICK k \in Kinds, p \in {"Ask", "Entry"} :
        /\ p = "Ask" => k # "swap"
        /\ job = [n \in Server |-> CASE n = A /\ p = "Ask" -> NewJob(k, p)
                                     [] n = A /\ p = "Entry" -> [NewJob(k, p) EXCEPT !.seq = 2]
                                     [] n = B -> [NewJob(k, p) EXCEPT !.phase = "Failed", !.seq = 0]]
  BY DEF UpdateInit
<1> DEFINE z == NewJob(k, p)
           f == First(k)
           s == Other(f)
           x == [z EXCEPT !.seq = 2]
           y == [z EXCEPT !.phase = "Failed", !.seq = 0]
<1>2. f \in Server /\ s \in Server /\ k \in {"rolling", "sequential", "swap"}
  BY Servers, KindsAssumption DEF First
<1>3. z = [phase |-> p, seq |-> 1, first |-> f, second |-> s, kind |-> k, lock |-> "none",
           waitOp |-> None, waitNode |-> None, waitSeq |-> 0, waitOK |-> FALSE,
           attempts |-> 0, faulty |-> FALSE, freezeAcked |-> FALSE, frozenSynced |-> FALSE,
           sealed |-> FALSE, unprotected |-> FALSE, rollbackSent |-> FALSE,
           installSeen |-> FALSE, freezeSent |-> FALSE, help |-> FALSE]
  BY Servers DEF NewJob, First
<1>4. /\ job[A] = z \/ job[A] = x
      /\ job[B] = y /\ job \in [Server -> {x, y, z}]
  <2>1. A # B /\ A \in Server /\ B \in Server /\ \A n \in Server : n = A \/ n = B
    BY Servers DEF Server
  <2> HIDE DEF x, y, z
  <2>2. job = [n \in Server |-> CASE n = A /\ p = "Ask" -> z
                                  [] n = A /\ p = "Entry" -> x
                                  [] n = B -> y]
    BY <1>1 DEF x, y, z
  <2> QED
    BY <2>1, <2>2
<1>5. s = Other(First(k)) /\ f = First(k)
  OBVIOUS
<1> HIDE DEF z, f, s
<1>6. /\ z \in Job /\ z.kind = k /\ z.first = f /\ z.second = s /\ z.lock = "none" /\ z.waitOp = None
      /\ z.waitSeq = 0 /\ z.seq = 1 /\ z.freezeAcked = FALSE /\ z.phase = p
  BY <1>2, <1>3 DEF Job, Phase
<1>7. /\ x \in Job /\ x.kind = k /\ x.first = f /\ x.second = s /\ x.lock = "none" /\ x.waitOp = None
      /\ x.waitSeq = 0 /\ x.seq = 2 /\ x.freezeAcked = FALSE /\ x.phase = p
  <2>1. x \in Job
    BY <1>6, JobWithin
  <2> QED
    BY <1>6, <2>1 DEF Job
<1>8. /\ y \in Job /\ y.kind = k /\ y.first = f /\ y.second = s /\ y.lock = "none" /\ y.waitOp = None
      /\ y.waitSeq = 0 /\ y.seq = 0 /\ y.freezeAcked = FALSE /\ y.phase = "Failed"
  <2>1. y \in Job
    BY <1>6, JobWithin
  <2> QED
    BY <1>6, <2>1 DEF Job
<1> HIDE DEF x, y
<1>9. \A n \in Server : /\ job[n] \in Job /\ job[n].kind = k /\ job[n].first = First(job[n].kind)
                        /\ job[n].second = Other(job[n].first) /\ job[n].lock = "none"
                        /\ job[n].waitOp = None /\ job[n].waitSeq = 0 /\ job[n].freezeAcked = FALSE
                        /\ job[n].phase \in {"Ask", "Entry", "Failed"} /\ 0 <= job[n].seq
  BY <1>4, <1>5, <1>6, <1>7, <1>8
<1>10. /\ acks = [n \in Server |-> <<>>] /\ running = [n \in Server |-> None]
       /\ done = [n \in Server |-> None] /\ flags = [n \in Server |-> NoFlags]
       /\ cmd = [n \in Server |-> None] /\ mail = [n \in Server |-> None]
       /\ active = A /\ db = [n \in Server |-> IF n = A THEN "primary" ELSE "standby"]
       /\ data = [n \in Server |-> 0] /\ commit = [n \in Server |-> "old"]
       /\ seen = [n \in Server |-> "old"] /\ acked = 0
  BY DEF UpdateInit
<1>11. JobTypes /\ OpTypes /\ WorldTypes
  <2>1. NoFlags \in Flags
    BY DEF NoFlags, Flags
  <2>2. <<>> \in Seq(Ack)
    OBVIOUS
  <2>3. job \in [Server -> Job]
    BY <1>4, <1>6, <1>7, <1>8
  <2>4. JobTypes
    BY <1>10, <2>1, <2>3 DEF JobTypes
  <2>5. OpTypes
    BY <1>10, <2>2 DEF OpTypes
  <2>6. WorldTypes
    BY <1>10, Servers DEF WorldTypes
  <2> QED
    BY <2>4, <2>5, <2>6
<1>12. \A n \in Server : Form(job[n])
  BY <1>9, NoneIs DEF Form, BeforeLock
<1>13. Book
  BY <1>9, <1>10, <1>12, Servers DEF Book, JobsFit, MailFits, NumbersFit, OrdersFit, CommandsFit
<1>14. Writable /\ Frozen
  BY <1>10 DEF Writable, Frozen
<1>15. WayBackComplete /\ SealComplete /\ SealAtB /\ FreezeComplete /\ CopyComplete
  BY <1>9, <1>10, Servers, NoneIs DEF WayBackComplete, SealComplete, SealAtB, FreezeComplete, CopyComplete, Held
<1> QED
  BY <1>11, <1>13, <1>14, <1>15 DEF JobInv

\* Every step keeps the invariant.
LEMMA StepKeeps ==
  ASSUME JobInv, [UpdateNext]_updateVars
  PROVE  JobInv'
<1>1. CASE UpdateNext
  <2>1. PICK n \in Server :
          \/ Conduct(n) \/ Resend(n) \/ Abort(n) \/ Confirm(n)
          \/ Receive(n) \/ Lose(n) \/ Heartbeat(n) \/ Run(n)
          \/ Swap(n) \/ Abandon(n) \/ PromoteLate(n) \/ SwapFails(n) \/ TakeOver(n)
          \/ Rejoin(n) \/ Restart(n) \/ Write(n) \/ Replicate(n)
    BY <1>1 DEF UpdateNext
  <2> QED
    BY <2>1, ConductKeeps, ResendKeeps, AbortKeeps, ConfirmKeeps, ReceiveKeeps, LoseKeeps, HeartbeatKeeps,
       RunKeeps, SwapKeeps, AbandonKeeps, PromoteLateKeeps, SwapFailsKeeps, TakeOverKeeps, RejoinKeeps,
       RestartKeeps, WriteKeeps, ReplicateKeeps
<1>2. CASE UNCHANGED updateVars
  <2>1. UNCHANGED <<job, acks, running, done, flags, cmd, mail, active, db, data, commit, seen, acked>>
    BY <1>2 DEF updateVars
  <2>2. JobTypes' /\ OpTypes' /\ WorldTypes' /\ Lesser
    BY <2>1 DEF JobInv, JobTypes, OpTypes, WorldTypes, Lesser
  <2>3. NumbersFit' /\ Answers
    BY <2>1, <2>2, NumbersStay
  <2> QED
    BY <2>1, <2>2, <2>3, StayReminded, PlaysKeep DEF Plays
<1> QED
  BY <1>1, <1>2

\* No write confirmed to a user is missing in the database the active server
\* works with, whatever swap, way back or take-over happened, for every kind of
\* update and any number of faults, writes and repetitions.
THEOREM NothingIsLost == UpdateSpec => []NothingLost
<1>1. UpdateInit => JobInv
  BY InitIs
<1>2. JobInv /\ [UpdateNext]_updateVars => JobInv'
  BY StepKeeps
<1>3. JobInv => NothingLost
  BY DEF JobInv, Writable, NothingLost
<1> QED
  BY <1>1, <1>2, <1>3, PTL DEF UpdateSpec

-----------------------------------------------------------------------------
(* The way back of a verified update.  First, again, one step of the job:  *)
(* rolling, A is left alone until the new program of B was verified;       *)
(* sequential, B is asked one thing after the other, and each is answered  *)
(* before the next (UpdateTurn).                                           *)

\* The lock is being let go; it has been, or the job is over.
Released(j) == j.phase \in {"Release", "Follow"}
Past(j) == Released(j) \/ Ended(j)

\* The phases up to the verification under the lock.
Early(j) == j.phase \in {"Ask", "Entry", "Prepare", "VerifyPrep", "Countdown", "Locked", "VerifyNew"}

\* Sequential: B has nothing to do; or it is asked to freeze, or to thaw.
Idle(j) == /\ j.waitNode # B /\ (j.phase = "VerifyNew" => j.freezeAcked)
           /\ (j.phase = "Locked" /\ ~j.freezeAcked => j.waitOp = "seal")
Asks(j) == j.phase = "Locked" /\ ~j.freezeAcked /\ j.waitOp \in {"freeze", "thaw"} /\ j.waitNode = B

\* Sequential: B was frozen, and no thaw has been asked for since.
Kept(j) == j.phase \in {"Locked", "VerifyNew"} /\ j.freezeAcked

\* What is known of a job when a step begins.
Fits(j, o) ==
  /\ Form(j) /\ ~Ended(j)
  /\ j.kind = "rolling" /\ j.waitNode = A => Released(j)
  /\ j.kind = "sequential" /\ o.self = A /\ Early(j) => Idle(j) \/ Asks(j)

\* Rolling: A has nothing to do before the new program of B was verified.
Rolls(j, o, r) ==
  /\ r.to = A \/ r.j.waitNode = A => Released(r.j)
  /\ Released(r.j) => Released(j) \/ (j.phase = "VerifyNew" /\ o.selfOK)
  /\ Released(j) => Past(r.j)

\* Sequential: how B is asked, one thing after the other, each answered.
Halts(j, o, r) ==
  /\ Early(j)
  /\ \/ Idle(j) /\ Idle(r.j) /\ r.to # B /\ (Kept(r.j) => Kept(j))
     \/ Idle(j) /\ Asks(r.j) /\ r.op # None
     \/ Asks(j) /\ Asks(r.j) /\ r.op = None /\ r.j.waitOp = j.waitOp /\ r.j.waitSeq = j.waitSeq
     \/ Asks(j) /\ Asks(r.j) /\ r.op = "thaw"
     \/ /\ Asks(j) /\ Idle(r.j) /\ r.to # B /\ AckOf(j, o) # None /\ AckOf(j, o).ok
        /\ Kept(r.j) => j.waitOp = "freeze"

Turn(j, o, r) ==
  /\ j.kind = "rolling" => Rolls(j, o, r)
  /\ j.kind = "sequential" /\ o.self = A /\ Early(r.j) => Halts(j, o, r)

\* The first server and the second of each kind.
LEMMA Sides ==
  ASSUME NEW j \in Job, Form(j)
  PROVE  /\ j.kind = "sequential" => j.first = A /\ j.second = B
         /\ j.kind = "rolling" => j.first = B /\ j.second = A
BY DistinctAssumption DEF Form, First, Other

\* A step that only waits.
LEMMA StandTurn ==
  ASSUME NEW j \in Job, NEW o \in Look, Fits(j, o), NEW k \in Job, Like(j, k)
  PROVE  Turn(j, o, Step(k))
<1>1. Step(k).j = k /\ Step(k).op = None /\ Step(k).to = None
  BY StepIs
<1>2. None # A /\ None # B
  BY NoneIs DEF Server
<1> QED
  BY <1>1, <1>2 DEF Turn, Fits, Like, Rolls, Halts, Released, Past, Early, Idle, Asks, Kept, Ended

\* A step that ends the job, or that begins the way back.
LEMMA AwayTurn ==
  ASSUME NEW j, NEW o, NEW r, r.j.phase \in {"Rollback", "Done", "Failed"},
         j.kind = "rolling" => r.to # A /\ r.j.waitNode # A,
         Released(j) => r.j.phase # "Rollback"
  PROVE  Turn(j, o, r)
BY DEF Turn, Rolls, Released, Past, Early, Ended

LEMMA EndTurn ==
  ASSUME NEW j \in Job, NEW o, NEW k \in Job, k.waitNode = None, Ended(k)
  PROVE  Turn(j, o, Step(k))
<1>1. Step(k).j = k /\ Step(k).to = None /\ None # A
  BY StepIs, NoneIs DEF Server
<1> QED
  BY <1>1, AwayTurn DEF Ended

\* A step into another phase, with nothing sent.
LEMMA EnterTurn ==
  ASSUME NEW j \in Job, NEW o \in Look, Fits(j, o), NEW k \in Job, Cleared(j, k),
         ~Released(j), k.phase \notin {"Release", "Follow", "Locked"},
         j.kind = "sequential" => Early(j) /\ ~Asks(j) /\ (k.phase = "VerifyNew" => Kept(j) /\ k.freezeAcked)
  PROVE  Turn(j, o, Step(k))
<1>1. Step(k).j = k /\ Step(k).op = None /\ Step(k).to = None
  BY StepIs
<1>2. None # A /\ None # B
  BY NoneIs DEF Server
<1> QED
  BY <1>1, <1>2 DEF Turn, Fits, Cleared, Rolls, Halts, Released, Past, Early, Idle, Asks, Kept, Ended

\* A step that sends an operation, rolling: to B before the release, to A after.
LEMMA SendTurn ==
  ASSUME NEW j \in Job, NEW o \in Look, Fits(j, o), NEW k \in Job, k.kind = j.kind, NEW op \in Op, NEW n \in Server,
         j.kind = "rolling" =>
           /\ n = A => Released(k)
           /\ Released(k) => Released(j) \/ (j.phase = "VerifyNew" /\ o.selfOK)
           /\ Released(j) => Past(k),
         j.kind = "sequential" /\ o.self = A /\ Early(k) =>
           /\ Early(j)
           /\ \/ Idle(j) /\ n # B /\ (k.phase = "VerifyNew" => k.freezeAcked)
                   /\ (k.phase = "Locked" /\ ~k.freezeAcked => op = "seal") /\ (Kept(k) => Kept(j))
              \/ Idle(j) /\ k.phase = "Locked" /\ ~k.freezeAcked /\ op = "freeze" /\ n = B
              \/ Asks(j) /\ k.phase = "Locked" /\ ~k.freezeAcked /\ op = "thaw" /\ n = B
              \/ /\ Asks(j) /\ n # B /\ AckOf(j, o) # None /\ AckOf(j, o).ok /\ k.phase = "Locked"
                 /\ ~k.freezeAcked => op = "seal"
                 /\ Kept(k) => j.waitOp = "freeze"
  PROVE  Turn(j, o, Send(k, op, n))
<1> DEFINE r == Send(k, op, n)
<1>1. /\ r.op = op /\ r.to = n /\ r.j.waitOp = op /\ r.j.waitNode = n /\ r.j.kind = k.kind
      /\ r.j.phase = k.phase /\ r.j.freezeAcked = k.freezeAcked
  BY SendIs
<1>2. op # None
  BY NoneIs
<1> HIDE DEF r
<1>3. j.kind = "rolling" => Rolls(j, o, r)
  BY <1>1 DEF Rolls, Released, Past, Ended
<1>4. ASSUME j.kind = "sequential", o.self = A, Early(r.j)
      PROVE  Halts(j, o, r)
  BY <1>1, <1>2, <1>4 DEF Halts, Early, Idle, Asks, Kept
<1> QED
  BY <1>3, <1>4 DEF Turn, r

\* Giving up before the lock.
LEMMA UndoPrepTurn ==
  ASSUME NEW j \in Job, NEW o \in Look, Fits(j, o), ~Released(j),
         NEW k \in Job, k.kind = j.kind, k.first = j.first, NEW s \in BOOLEAN
  PROVE  Turn(j, o, UndoPrep(k, o, s))
<1> DEFINE b == [Enter(k, "Rollback") EXCEPT !.rollbackSent = TRUE]
<1>1. Cleared(k, Enter(k, "Rollback")) /\ Enter(k, "Rollback").phase = "Rollback"
  BY EnterIs DEF Phase
<1>2. b \in Job
  <2>1. Enter(k, "Rollback") \in Job
    BY <1>1 DEF Cleared
  <2> QED
    BY <2>1, JobWithin
<1>3. b.phase = "Rollback" /\ b.kind = j.kind
  BY <1>1, <1>2 DEF Cleared, Job
<1>4. Turn(j, o, Step(Finish(k, "Failed")))
  BY FinishIs, EndTurn DEF Cleared, Ended
<1>5. UndoPrep(k, o, s) \in {Step(Finish(k, "Failed")), Send(b, "rollback", k.first)}
                         \cup (IF k.kind = "sequential" THEN {Send(b, "rollback_norestart", o.self)} ELSE {})
  BY DEF UndoPrep
<1> HIDE DEF b
<1>6. o.self \in Server /\ k.first \in Server /\ (k.kind = "rolling" => k.first # A)
  BY Sides, Servers DEF Look, Job, Fits
<1>7. Turn(j, o, Send(b, "rollback", k.first))
  BY <1>2, <1>3, <1>6, SendTurn DEF Op, Released, Early
<1>8. k.kind = "sequential" => Turn(j, o, Send(b, "rollback_norestart", o.self))
  BY <1>2, <1>3, <1>6, SendTurn DEF Op, Released, Early
<1> QED
  BY <1>4, <1>5, <1>7, <1>8

LEMMA FailPrepTurn ==
  ASSUME NEW j \in Job, NEW o \in Look, Fits(j, o), ~Released(j), NEW f \in BOOLEAN
  PROVE  Turn(j, o, FailPrep(j, o, f))
<1> DEFINE k == [j EXCEPT !.faulty = f]
<1>1. k \in Job
  BY DEF Job
<1>2. k.kind = j.kind /\ k.first = j.first
  BY DEF Job
<1>3. FailPrep(j, o, f) = UndoPrep(k, o, TRUE)
  BY DEF FailPrep
<1> HIDE DEF k
<1> QED
  BY <1>1, <1>2, <1>3, UndoPrepTurn

\* A command to the own kernel sends nothing.
LEMMA CommandTurn ==
  ASSUME NEW j, NEW o, NEW k \in Job, NEW c \in {"swap", "freeze", "abandon"},
         Turn(j, o, Step(k))
  PROVE  Turn(j, o, Command(k, c))
<1>1. /\ Command(k, c).j = Step(k).j /\ Command(k, c).op = Step(k).op /\ Command(k, c).to = Step(k).to
  BY StepIs, CommandIs
<1> QED
  BY <1>1 DEF Turn, Rolls, Halts

\* The way back from the lock.
LEMMA RollbackTurn ==
  ASSUME NEW j \in Job, NEW o \in Look, j.phase \in {"Locked", "VerifyNew"}, NEW f \in BOOLEAN
  PROVE  Turn(j, o, Rollback(j, o, f))
<1> DEFINE e == Finish(j, "Failed")
           k == [e EXCEPT !.faulty = @ \/ f, !.help = TRUE]
           b == Enter(j, "Rollback")
           g == [b EXCEPT !.rollbackSent = FALSE, !.faulty = @ \/ f]
           c == IF g.kind = "swap" THEN "swap" ELSE "abandon"
<1>1. Cleared(j, e) /\ e.phase = "Failed" /\ Cleared(j, b) /\ b.phase = "Rollback"
  BY FinishIs, EnterIs DEF Phase
<1>2. Rollback(j, o, f) \in {Step(k), Command(g, c), Step(g)}
  BY Zenon DEF Rollback, SwapBack
<1> HIDE DEF e, b
<1>3. k \in Job /\ Like(e, k) /\ g \in Job /\ Like(b, g)
  <2>1. e \in Job /\ b \in Job
    BY <1>1 DEF Cleared
  <2> QED
    BY <2>1, MarksAreAside
<1> HIDE DEF k, g
<1>4. Turn(j, o, Step(k))
  BY <1>1, <1>3, EndTurn DEF Ended, Like, Cleared
<1>5. Turn(j, o, Step(g))
  <2>1. Step(g).j = g /\ Step(g).to = None /\ None # A
    BY <1>3, StepIs, NoneIs DEF Server
  <2> QED
    BY <1>1, <1>3, <2>1, AwayTurn DEF Like, Cleared, Released
<1>6. Turn(j, o, Command(g, c))
  <2>1. c \in {"swap", "freeze", "abandon"}
    OBVIOUS
  <2> HIDE DEF c
  <2> QED
    BY <1>3, <1>5, <2>1, CommandTurn
<1> QED
  BY <1>2, <1>4, <1>5, <1>6

LEMMA AskTurn ==
  ASSUME NEW j \in Job, NEW o \in Look, Fits(j, o), j.phase = "Ask"
  PROVE  Turn(j, o, AskStep(j, o))
<1>1. Turn(j, o, Step(Finish(j, "Failed")))
  BY FinishIs, EndTurn DEF Cleared, Ended
<1>2. Turn(j, o, Step(j))
  BY StandTurn DEF Like
<1>3. Turn(j, o, Step(Enter(j, "Entry")))
  <2>1. Cleared(j, Enter(j, "Entry")) /\ Enter(j, "Entry").phase = "Entry"
    BY EnterIs DEF Phase
  <2> QED
    BY <2>1, EnterTurn DEF Cleared, Released, Early, Asks
<1> QED
  BY <1>1, <1>2, <1>3 DEF AskStep

LEMMA EntryTurn ==
  ASSUME NEW j \in Job, NEW o \in Look, Fits(j, o), j.phase = "Entry"
  PROVE  Turn(j, o, EntryStep(j, o))
<1> DEFINE k == [j EXCEPT !.phase = "Prepare"]
<1>1. k \in Job
  BY DEF Job, Phase
<1>2. k.phase = "Prepare" /\ k.kind = j.kind
  BY DEF Job
<1>3. EntryStep(j, o) = CASE j.kind = "swap" -> Step(Enter(j, "Countdown"))
                          [] j.kind = "sequential" -> Send(k, "install_norestart", o.self)
                          [] OTHER -> Send(k, "install", j.first)
  BY DEF EntryStep
<1> HIDE DEF k
<1>4. Turn(j, o, Step(Enter(j, "Countdown")))
  <2>1. Cleared(j, Enter(j, "Countdown")) /\ Enter(j, "Countdown").phase = "Countdown"
    BY EnterIs DEF Phase
  <2> QED
    BY <2>1, EnterTurn DEF Cleared, Released, Early, Asks
<1>5. o.self \in Server /\ j.first \in Server /\ A # B
  BY DistinctAssumption DEF Look, Job
<1>6. j.kind = "sequential" => Turn(j, o, Send(k, "install_norestart", o.self))
  <2>1. j.kind = "sequential" /\ o.self = A => Idle(j)
    BY DEF Fits, Early, Asks
  <2> QED
    BY <1>1, <1>2, <1>5, <2>1, SendTurn DEF Op, Early, Kept
<1>7. j.kind # "sequential" => Turn(j, o, Send(k, "install", j.first))
  BY <1>1, <1>2, <1>5, Sides, SendTurn DEF Op, Released, Fits
<1> QED
  BY <1>3, <1>4, <1>6, <1>7

LEMMA PrepareTurn ==
  ASSUME NEW j \in Job, NEW o \in Look, Fits(j, o), j.phase = "Prepare"
  PROVE  Turn(j, o, PrepareStep(j, o))
<1> DEFINE a == AckOf(j, o)
<1>1. (~a.noFault) \in BOOLEAN
  OBVIOUS
<1>2. Turn(j, o, Step(Enter(j, "VerifyPrep")))
  <2>1. Cleared(j, Enter(j, "VerifyPrep")) /\ Enter(j, "VerifyPrep").phase = "VerifyPrep"
    BY EnterIs DEF Phase
  <2> QED
    BY <2>1, EnterTurn DEF Cleared, Released, Early, Asks
<1>3. Turn(j, o, Step(j))
  BY StandTurn DEF Like
<1>4. \A f \in BOOLEAN : Turn(j, o, FailPrep(j, o, f))
  BY FailPrepTurn DEF Released
<1> QED
  BY <1>1, <1>2, <1>3, <1>4 DEF PrepareStep

LEMMA VerifyPrepTurn ==
  ASSUME NEW j \in Job, NEW o \in Look, Fits(j, o), j.phase = "VerifyPrep"
  PROVE  Turn(j, o, VerifyPrepStep(j, o))
<1>1. Turn(j, o, Step(Enter(j, "Countdown")))
  <2>1. Cleared(j, Enter(j, "Countdown")) /\ Enter(j, "Countdown").phase = "Countdown"
    BY EnterIs DEF Phase
  <2> QED
    BY <2>1, EnterTurn DEF Cleared, Released, Early, Asks
<1>2. Turn(j, o, Step(j)) /\ Turn(j, o, FailPrep(j, o, TRUE))
  BY StandTurn, FailPrepTurn DEF Like, Released
<1> QED
  BY <1>1, <1>2 DEF VerifyPrepStep

LEMMA CountdownTurn ==
  ASSUME NEW j \in Job, NEW o \in Look, Fits(j, o), j.phase = "Countdown"
  PROVE  Turn(j, o, CountdownStep(j, o))
<1> DEFINE e == Enter(j, "Locked")
           k == [e EXCEPT !.lock = "on", !.freezeAcked = FALSE, !.frozenSynced = FALSE]
           s == [k EXCEPT !.sealed = TRUE]
<1>1. Cleared(j, e) /\ e.phase = "Locked"
  BY EnterIs DEF Phase
<1>2. CountdownStep(j, o) =
        CASE ~o.late -> Step(j)
          [] o.late /\ j.kind = "sequential" -> Send(s, "seal", o.self)
          [] o.late /\ j.kind # "sequential" -> IF o.self = j.second THEN SwapCommand(k) ELSE Step(k)
  BY Zenon DEF CountdownStep
<1> HIDE DEF e
<1>3. k \in Job /\ Cleared(j, k) /\ k.phase = "Locked" /\ k.freezeAcked = FALSE
  <2>0. e \in Job
    BY <1>1 DEF Cleared
  <2>1. k \in Job
    BY <2>0, JobWithin
  <2> QED
    BY <1>1, <2>1 DEF Cleared, Job
<1> HIDE DEF k
<1>4. s \in Job /\ s.kind = j.kind /\ s.phase = "Locked" /\ s.freezeAcked = FALSE
  <2>1. s \in Job
    BY <1>3 DEF Job
  <2> QED
    BY <1>3, <2>1 DEF Cleared, Job
<1> HIDE DEF s
<1>5. Turn(j, o, Step(j))
  BY StandTurn DEF Like
<1>6. j.kind = "sequential" => Turn(j, o, Send(s, "seal", o.self))
  <2>1. j.kind = "sequential" /\ o.self = A => Idle(j)
    BY DEF Fits, Early, Asks
  <2>2. o.self \in Server /\ A # B
    BY DistinctAssumption DEF Look
  <2> QED
    BY <1>4, <2>1, <2>2, SendTurn DEF Op, Early, Kept
<1>7. j.kind # "sequential" => Turn(j, o, Step(k))
  <2>1. Step(k).j = k /\ Step(k).to = None /\ None # A
    BY <1>3, StepIs, NoneIs DEF Server
  <2> QED
    BY <1>3, <2>1 DEF Turn, Rolls, Cleared, Released
<1>8. j.kind # "sequential" => Turn(j, o, SwapCommand(k))
  BY <1>3, <1>7, CommandTurn DEF SwapCommand
<1> QED
  BY <1>2, <1>5, <1>6, <1>7, <1>8

LEMMA VerifyNewTurn ==
  ASSUME NEW j \in Job, NEW o \in Look, Fits(j, o), j.phase = "VerifyNew"
  PROVE  Turn(j, o, VerifyNewStep(j, o))
<1> DEFINE k == Enter(j, "Release")
<1>1. Turn(j, o, Step(Finish(j, "Done"))) /\ Turn(j, o, Step(j))
  BY FinishIs, EndTurn, StandTurn DEF Cleared, Ended, Like
<1>2. Cleared(j, k) /\ k.phase = "Release" /\ j.second \in Server
  BY EnterIs DEF Phase, Job
<1> HIDE DEF k
<1>3. o.selfOK => Turn(j, o, Send(k, "thaw", j.second))
  BY <1>2, SendTurn DEF Op, Cleared, Released, Past, Early
<1>4. \A f \in BOOLEAN : Turn(j, o, Rollback(j, o, f))
  BY RollbackTurn
<1>5. NewStarted(j, o) \in BOOLEAN
  BY DEF NewStarted, FirstActive, Job
<1> QED
  BY <1>1, <1>3, <1>4, <1>5 DEF VerifyNewStep, k

LEMMA ReleaseTurn ==
  ASSUME NEW j \in Job, NEW o \in Look, Fits(j, o), j.phase = "Release"
  PROVE  Turn(j, o, ReleaseStep(j, o)) /\ Turn(j, o, Unprotected(j))
<1>1. \A k \in Job : Like(j, k) => Turn(j, o, Follow(k))
  <2> SUFFICES ASSUME NEW k \in Job, Like(j, k)
               PROVE  Turn(j, o, Follow(k))
    OBVIOUS
  <2> DEFINE e == Enter(k, "Follow")
             f == [e EXCEPT !.lock = "off"]
  <2>1. Cleared(k, e) /\ e.phase = "Follow"
    BY EnterIs DEF Phase
  <2>2. Follow(k) = Send(f, "install", k.second)
    BY Zenon DEF Follow
  <2> HIDE DEF e
  <2>3. f \in Job /\ f.phase = "Follow" /\ f.kind = k.kind
    <3>1. f \in Job
      BY <2>1 DEF Cleared, Job
    <3> QED
      BY <2>1, <3>1 DEF Cleared, Job
  <2> HIDE DEF f
  <2>4. k.second \in Server
    BY DEF Job
  <2> QED
    BY <2>2, <2>3, <2>4, SendTurn DEF Op, Like, Released, Past, Early
<1>2. [j EXCEPT !.unprotected = TRUE] \in Job /\ Like(j, [j EXCEPT !.unprotected = TRUE])
  BY DEF Job, Like
<1>3. Turn(j, o, Unprotected(j))
  BY <1>1, <1>2 DEF Unprotected
<1>4. GotOK(j) \in Job /\ Like(j, GotOK(j)) /\ Like(j, j)
  BY DEF GotOK, Job, Like
<1>5. \A k \in {j, GotOK(j)} : Turn(j, o, Follow(k)) /\ Turn(j, o, Step(k))
  BY <1>1, <1>4, StandTurn
<1> QED
  BY <1>3, <1>5 DEF ReleaseStep

LEMMA FinishHelpTurn ==
  ASSUME NEW j \in Job, NEW o, NEW k \in Job, NEW p \in {"Done", "Failed"}, NEW h \in BOOLEAN
  PROVE  Turn(j, o, Step([Finish(k, p) EXCEPT !.help = h]))
<1> DEFINE e == Finish(k, p)
           f == [e EXCEPT !.help = h]
<1>1. Cleared(k, e) /\ e.phase = p
  BY FinishIs
<1> HIDE DEF e
<1>2. f \in Job
  BY <1>1 DEF Cleared, Job
<1>3. f.waitNode = None /\ f.phase = p
  BY <1>1, <1>2 DEF Cleared, Job
<1> HIDE DEF f
<1>4. Turn(j, o, Step(f))
  BY <1>2, <1>3, EndTurn DEF Ended
<1> QED
  BY <1>4 DEF e, f

LEMMA FollowTurn ==
  ASSUME NEW j \in Job, NEW o \in Look, Fits(j, o), j.phase = "Follow"
  PROVE  Turn(j, o, FollowStep(j, o))
<1> DEFINE a == AckOf(j, o)
           k == IF a # None /\ a.ok THEN GotOK(j) ELSE j
<1>1. \A i \in Job : Like(j, i) => Turn(j, o, Step(i))
  BY StandTurn
<1>2. \A i \in Job, op \in {"install", "reinit"} : Like(j, i) => Turn(j, o, Send(i, op, j.second))
  <2>1. j.second \in Server
    BY DEF Job
  <2> QED
    BY <2>1, SendTurn DEF Op, Like, Released, Past, Early
<1>3. GotOK(j) \in Job /\ Like(j, GotOK(j)) /\ Like(j, j)
  BY DEF GotOK, Job, Like
<1>4. Turn(j, o, ReinitStep(j, o))
  <2>1. (~a.ok) \in BOOLEAN /\ TRUE \in BOOLEAN
    OBVIOUS
  <2> QED
    BY <1>1, <1>3, <2>1, FinishHelpTurn, Zenon DEF ReinitStep
<1>5. k \in Job /\ Like(j, k) /\ k.unprotected \in BOOLEAN
  BY <1>3 DEF Job
<1>6. FollowStep(j, o) \in {ReinitStep(j, o), Step([Finish(k, "Done") EXCEPT !.help = k.unprotected]),
        Send([k EXCEPT !.attempts = 1], "install", j.second), Send(k, "reinit", j.second), Step(k)}
  BY DEF FollowStep
<1> HIDE DEF k
<1> DEFINE f == [k EXCEPT !.attempts = 1]
<1>7. f \in Job
  BY <1>5 DEF Job
<1>8. Like(k, f)
  BY <1>5 DEF Like, Job
<1> HIDE DEF f
<1>9. Turn(j, o, Send(f, "install", j.second)) /\ Turn(j, o, Send(k, "reinit", j.second))
  BY <1>2, <1>5, <1>7, <1>8 DEF Like
<1>10. Turn(j, o, Step(k)) /\ Turn(j, o, Step([Finish(k, "Done") EXCEPT !.help = k.unprotected]))
  BY <1>1, <1>5, FinishHelpTurn
<1> QED
  BY <1>4, <1>6, <1>9, <1>10 DEF f

\* The command given again.
LEMMA AgainTurn ==
  ASSUME NEW j \in Job, NEW o \in Look, Fits(j, o), NEW c \in {"swap", "freeze", "abandon"},
         j.phase = "Rollback" \/ (j.phase = "Locked" /\ j.kind # "sequential")
  PROVE  Turn(j, o, [Command(j, c) EXCEPT !.j = [j EXCEPT !.seq = @ + 1]])
<1> DEFINE s == j.seq + 1
           k == [j EXCEPT !.seq = s]
           r == [Command(j, c) EXCEPT !.j = [j EXCEPT !.seq = @ + 1]]
<1>1. s \in Nat
  BY DEF Job
<1>2. r = [Command(j, c) EXCEPT !.j = k]
  BY Zenon
<1> HIDE DEF r, s
<1>3. k \in Job
  BY <1>1 DEF Job
<1>4. k.phase = j.phase /\ k.waitNode = j.waitNode
  BY <1>3 DEF Job
<1> HIDE DEF k
<1>5. /\ Command(j, c) \in StepRecord /\ Command(j, c).to = None
  BY CommandIs
<1>6. r.j = k /\ r.to = None
  BY <1>2, <1>5 DEF StepRecord
<1>7. None # A
  BY NoneIs DEF Server
<1>8. Turn(j, o, r)
  BY <1>4, <1>6, <1>7 DEF Turn, Fits, Rolls, Released, Past, Early
<1> QED
  BY <1>8 DEF r

LEMMA LockedSwapTurn ==
  ASSUME NEW j \in Job, NEW o \in Look, Fits(j, o), j.phase = "Locked", j.kind # "sequential"
  PROVE  Turn(j, o, LockedSwap(j, o))
<1>1. Turn(j, o, Step(Enter(j, "VerifyNew")))
  <2>1. Cleared(j, Enter(j, "VerifyNew")) /\ Enter(j, "VerifyNew").phase = "VerifyNew"
    BY EnterIs DEF Phase
  <2> QED
    BY <2>1, EnterTurn DEF Cleared, Released
<1>2. Turn(j, o, Rollback(j, o, FALSE)) /\ Turn(j, o, Step(j))
  BY RollbackTurn, StandTurn DEF Like
<1>3. Turn(j, o, [SwapCommand(j) EXCEPT !.j = [j EXCEPT !.seq = @ + 1]])
  <2>1. \A c \in {"swap", "freeze"} : Turn(j, o, [Command(j, c) EXCEPT !.j = [j EXCEPT !.seq = @ + 1]])
    BY AgainTurn
  <2>2. SwapCommand(j) \in {Command(j, c) : c \in {"swap", "freeze"}}
    BY DEF SwapCommand
  <2> QED
    BY <2>1, <2>2
<1> QED
  BY <1>1, <1>2, <1>3 DEF LockedSwap

LEMMA LockedSequentialTurn ==
  ASSUME NEW j \in Job, NEW o \in Look, Fits(j, o), j.phase = "Locked", j.kind = "sequential", o.self = A
  PROVE  Turn(j, o, LockedSequential(j, o))
<1> DEFINE a == AckOf(j, o)
           fs == [j EXCEPT !.freezeSent = TRUE]
           fa == [j EXCEPT !.freezeAcked = TRUE, !.frozenSynced = TRUE]
           un == [j EXCEPT !.lock = "none"]
           vn == Enter(j, "VerifyNew")
<1>1. /\ o.self = A /\ j.second = B /\ A \in Server /\ B \in Server /\ A # B /\ j.first = A
      /\ ~j.freezeAcked => j.sealed
  BY Sides, Servers DEF Fits, Form
<1>2. /\ j.waitOp = "seal" => Idle(j)
      /\ ~j.freezeAcked /\ j.waitOp # "seal" => Asks(j) /\ j.waitOp \in {"freeze", "thaw"}
      /\ j.freezeAcked => Idle(j)
  BY DEF Fits, Early, Idle, Asks
<1>3. Early(j) /\ ~Released(j) /\ Like(j, j)
  BY DEF Early, Released, Like
<1>4. \A f \in BOOLEAN : Turn(j, o, Rollback(j, o, f))
  BY RollbackTurn
<1>5. j.waitOp = "seal" /\ ~j.freezeAcked => Turn(j, o, Send(j, "seal", o.self))
  BY <1>1, <1>2, <1>3, SendTurn DEF Op, Kept
<1>6. j.waitOp = "freeze" /\ ~j.freezeAcked => Turn(j, o, Send(j, "thaw", j.second))
  BY <1>1, <1>2, <1>3, SendTurn DEF Op
<1>7. fs \in Job /\ Like(j, fs)
  BY DEF Job, Like
<1>8. j.waitOp = "seal" /\ ~j.freezeAcked => Turn(j, o, Send(fs, "freeze", j.second))
  <2> HIDE DEF fs
  <2> QED
    BY <1>1, <1>2, <1>3, <1>7, SendTurn DEF Op, Like
<1>9. Turn(j, o, SealFailed(j, o))
  <2>1. un \in Job
    BY DEF Job
  <2>2. un.kind = j.kind /\ un.first = j.first
    BY DEF Job
  <2>3. Turn(j, o, UndoPrep(un, o, TRUE))
    <3> HIDE DEF un
    <3> QED
      BY <1>3, <2>1, <2>2, UndoPrepTurn
  <2> QED
    BY <1>4, <2>3 DEF SealFailed
<1>10. a # None /\ a.ok /\ j.waitOp = "thaw" /\ ~j.freezeAcked => Turn(j, o, Send(j, "seal", o.self))
  BY <1>1, <1>2, <1>3, SendTurn DEF Op, Kept
<1>11. fa \in Job
  BY DEF Job
<1>12. a # None /\ a.ok /\ j.waitOp = "freeze" /\ ~j.freezeAcked => Turn(j, o, Send(fa, "install", o.self))
  <2>1. fa.kind = j.kind /\ fa.phase = "Locked" /\ fa.freezeAcked = TRUE
    BY DEF Job
  <2> HIDE DEF fa
  <2> QED
    BY <1>1, <1>2, <1>3, <1>11, <2>1, SendTurn DEF Op, Kept
<1>13. j.freezeAcked => Turn(j, o, Step(vn))
  <2>1. Cleared(j, vn) /\ vn.phase = "VerifyNew" /\ vn.freezeAcked = j.freezeAcked
    BY EnterIs DEF Phase
  <2> HIDE DEF vn
  <2> QED
    BY <1>3, <2>1, EnterTurn DEF Cleared, Asks, Kept
<1>14. GotOK(j) \in Job /\ Like(j, GotOK(j))
  BY DEF GotOK, Job, Like
<1>15. Turn(j, o, Step(j)) /\ Turn(j, o, Step(GotOK(j)))
  BY <1>3, <1>14, StandTurn
<1>16. a # None => a.op = j.waitOp
  BY AckOfIs
<1>17. CASE ~j.freezeAcked /\ o.fresh /\ j.sealed /\ j.waitOp = "seal"
  BY <1>5, <1>17 DEF LockedSequential
<1>18. CASE ~j.freezeAcked /\ o.fresh /\ j.sealed /\ j.waitOp = "freeze"
  BY <1>6, <1>18 DEF LockedSequential
<1>19. CASE ~j.freezeAcked /\ ~(o.fresh /\ j.sealed /\ j.waitOp \in {"seal", "freeze"})
  <2>1. LockedSequential(j, o) =
            CASE a = None -> Step(j)
              [] a # None /\ a.op = "seal" /\ a.ok -> Send(fs, "freeze", j.second)
              [] a # None /\ a.op = "seal" /\ ~a.ok -> SealFailed(j, o)
              [] a # None /\ a.op = "thaw" /\ a.ok -> Send(j, "seal", o.self)
              [] a # None /\ a.op = "freeze" /\ a.ok -> Send(fa, "install", o.self)
              [] OTHER -> Rollback(j, o, FALSE)
    BY <1>19 DEF LockedSequential
  <2> HIDE DEF fs, fa, a
  <2>2. CASE a = None
    BY <1>15, <2>1, <2>2
  <2>3. CASE a # None /\ a.op = "seal" /\ a.ok
    BY <1>8, <1>16, <1>19, <2>1, <2>3
  <2>4. CASE a # None /\ a.op = "seal" /\ ~a.ok
    BY <1>9, <2>1, <2>4
  <2>5. CASE a # None /\ a.op = "thaw" /\ a.ok
    BY <1>10, <1>16, <1>19, <2>1, <2>5
  <2>6. CASE a # None /\ a.op = "freeze" /\ a.ok
    BY <1>12, <1>16, <1>19, <2>1, <2>6
  <2>7. CASE a # None /\ a.op # "seal" /\ ~(a.op \in {"thaw", "freeze"} /\ a.ok)
    BY <1>4, <2>1, <2>7
  <2> QED
    BY <2>2, <2>3, <2>4, <2>5, <2>6, <2>7
<1>20. CASE j.freezeAcked
  <2>1. LockedSequential(j, o) \in {Step(vn), Step(j), Step(GotOK(j))} \cup {Rollback(j, o, f) : f \in BOOLEAN}
    <3>1. (~a.noFault) \in BOOLEAN
      OBVIOUS
    <3> QED
      BY <1>20, <3>1 DEF LockedSequential
  <2> QED
    BY <1>4, <1>13, <1>15, <1>20, <2>1
<1> QED
  BY <1>17, <1>18, <1>19, <1>20

\* In a sequential update only the turns of A count.
LEMMA ElsewhereTurn ==
  ASSUME NEW j, NEW o, NEW r, j.kind = "sequential", o.self # A
  PROVE  Turn(j, o, r)
BY DEF Turn

\* On the way back from the lock, from the job itself or with the seal done.
LEMMA BackTurn ==
  ASSUME NEW j \in Job, NEW o \in Look, Fits(j, o), j.phase = "Rollback", ~NewActive(j, o),
         NEW i \in Job, i.kind = j.kind, i.phase = "Rollback",
         j.kind = "rolling" => i.waitNode # A
  PROVE  Turn(j, o, BackStep(i, o))
<1> DEFINE a == AckOf(i, o)
           op == RollbackOp(i, o)
           sent == [i EXCEPT !.rollbackSent = TRUE]
           wait == [i EXCEPT !.waitOp = None]
<1>1. Other(o.self) \in Server /\ (op # None => op \in Op)
  BY Servers DEF Look, RollbackOp, Op
<1>2. j.kind = "rolling" => Other(o.self) # A
  BY Sides, Servers DEF Fits, NewActive, FirstActive, Look
<1>3. \A k \in Job : k.phase = "Rollback" /\ k.waitNode = i.waitNode => Turn(j, o, Step(k))
  <2> SUFFICES ASSUME NEW k \in Job, k.phase = "Rollback", k.waitNode = i.waitNode
               PROVE  Turn(j, o, Step(k))
    OBVIOUS
  <2>1. Step(k).j = k /\ Step(k).to = None /\ None # A
    BY StepIs, NoneIs DEF Server
  <2> QED
    BY <2>1, AwayTurn DEF Released
<1>4. sent \in Job /\ wait \in Job
  BY DEF Job
<1>5. /\ sent.phase = "Rollback" /\ sent.waitNode = i.waitNode /\ sent.kind = j.kind
      /\ wait.phase = "Rollback" /\ wait.waitNode = i.waitNode
  BY DEF Job
<1>6. GotOK(i) \in Job /\ Like(i, GotOK(i))
  BY DEF GotOK, Job, Like
<1>7. \A k \in {i, GotOK(i)} : Turn(j, o, Step(k)) /\ Turn(j, o, Step(Finish(k, "Failed")))
  BY <1>3, <1>6, FinishIs, EndTurn DEF Like, Cleared, Ended
<1>8. BackStep(i, o) \in {Step(i), Step(GotOK(i)), Step(Finish(i, "Failed")), Step(Finish(GotOK(i), "Failed")),
                           Step(sent), Step(wait)}
                          \cup (IF op # None THEN {Send(sent, op, Other(o.self))} ELSE {})
  <2> HIDE DEF sent, wait
  <2> DEFINE ok == a # None \/ (op = "rollback" /\ i.waitOp = "rollback" /\ ~i.waitOK /\ PartnerOnOld(o))
             k == IF ok THEN GotOK(i) ELSE i
             last == IF (op = None \/ k.waitOK) /\ o.mirrorSync /\ o.selfOK
                     THEN Step(Finish(k, "Failed")) ELSE Step(k)
  <2>1. BackStep(i, o) =
          CASE ~i.rollbackSent /\ o.dbPending /\ op # None -> Step(i)
            [] ~i.rollbackSent /\ op = None -> Step(sent)
            [] ~i.rollbackSent /\ ~o.dbPending /\ op # None -> Send(sent, op, Other(o.self))
            [] i.rollbackSent /\ a # None /\ ~a.ok -> Step(wait)
            [] OTHER -> last
    BY Zenon DEF BackStep, sent, wait
  <2>2. last \in {Step(i), Step(GotOK(i)), Step(Finish(i, "Failed")), Step(Finish(GotOK(i), "Failed"))}
    OBVIOUS
  <2> HIDE DEF a, op, ok, k, last
  <2> QED
    BY <2>1, <2>2
<1> HIDE DEF sent, wait, op
<1>9. op # None => Turn(j, o, Send(sent, op, Other(o.self)))
  BY <1>1, <1>2, <1>4, <1>5, SendTurn DEF Released, Past, Early
<1> QED
  BY <1>3, <1>4, <1>5, <1>7, <1>8, <1>9

LEMMA UndoTurn ==
  ASSUME NEW j \in Job, NEW o \in Look, Fits(j, o)
  PROVE  Turn(j, o, UndoStep(j, o))
<1> DEFINE a == AckOf(j, o)
<1>1. \A h \in BOOLEAN : Turn(j, o, Step([Finish(j, "Failed") EXCEPT !.help = h]))
  BY FinishHelpTurn
<1>2. Turn(j, o, Step(Finish(j, "Failed"))) /\ Turn(j, o, Step(j))
  BY FinishIs, EndTurn, StandTurn DEF Cleared, Ended, Like
<1>3. (~a.ok) \in BOOLEAN /\ TRUE \in BOOLEAN
  OBVIOUS
<1>4. UndoStep(j, o) \in {Step(Finish(j, "Failed")), Step(j)}
                         \cup {Step([Finish(j, "Failed") EXCEPT !.help = h]) : h \in BOOLEAN}
  BY <1>3, Zenon DEF UndoStep
<1> QED
  BY <1>1, <1>2, <1>4

LEMMA RollbackStepTurn ==
  ASSUME NEW j \in Job, NEW o \in Look, Fits(j, o), j.phase = "Rollback"
  PROVE  Turn(j, o, RollbackStep(j, o))
<1> DEFINE unseal == j.kind = "sequential" /\ o.self = j.first /\ ~j.freezeAcked /\ j.sealed
           i == [j EXCEPT !.sealed = FALSE, !.waitOp = None, !.waitNode = None,
                          !.waitSeq = 0, !.waitOK = FALSE]
<1>0. j.kind = "rolling" => j.waitNode # A
  BY DEF Fits, Released
<1>1. CASE j.lock = "none"
  BY <1>1, UndoTurn DEF RollbackStep
<1>2. CASE j.lock # "none" /\ NewActive(j, o)
  <2>1. \A c \in {"swap", "abandon"} : Turn(j, o, [Command(j, c) EXCEPT !.j = [j EXCEPT !.seq = @ + 1]])
    BY AgainTurn
  <2>2. SwapBack(j) \in {Command(j, c) : c \in {"swap", "abandon"}}
    BY DEF SwapBack
  <2>3. Turn(j, o, [SwapBack(j) EXCEPT !.j = [j EXCEPT !.seq = @ + 1]])
    BY <2>1, <2>2
  <2>4. Turn(j, o, Step(j))
    BY StandTurn DEF Like
  <2> QED
    BY <1>2, <2>3, <2>4 DEF RollbackStep
<1>3. CASE j.lock # "none" /\ ~NewActive(j, o)
  <2>1. o.self \in Server
    BY DEF Look
  <2>2. Turn(j, o, BackStep(j, o)) /\ Turn(j, o, Step(j))
    BY <1>0, <1>3, BackTurn, StandTurn DEF Like
  <2>3. i \in Job
    BY DEF Job
  <2>4. i.kind = j.kind /\ i.phase = "Rollback" /\ i.waitNode = None
    BY DEF Job
  <2>5. RollbackStep(j, o) \in {Step(j), BackStep(i, o), BackStep(j, o)}
                               \cup (IF unseal THEN {Send(j, "rollback_norestart", o.self)} ELSE {})
    BY <1>3 DEF RollbackStep
  <2>6. None # A
    BY NoneIs DEF Server
  <2> HIDE DEF i
  <2>7. Turn(j, o, BackStep(i, o))
    BY <1>3, <2>3, <2>4, <2>6, BackTurn
  <2>8. j.kind = "sequential" => Turn(j, o, Send(j, "rollback_norestart", o.self))
    BY <2>1, SendTurn DEF Op, Early
  <2> QED
    BY <2>2, <2>5, <2>7, <2>8
<1> QED
  BY <1>1, <1>2, <1>3

LEMMA OverdueTurn ==
  ASSUME NEW j \in Job, NEW o \in Look, Fits(j, o), Overdue(j, o)
  PROVE  Turn(j, o, OverdueStep(j, o))
<1>1. CASE j.phase \in {"Locked", "VerifyNew"}
  <2>1. NewStarted(j, o) \in BOOLEAN
    BY DEF NewStarted, FirstActive, Job
  <2> QED
    BY <1>1, <2>1, RollbackTurn DEF OverdueStep
<1>2. CASE j.phase = "Release"
  BY <1>2, ReleaseTurn DEF OverdueStep
<1>3. CASE j.phase = "Rollback"
  <2>1. OverdueStep(j, o) = Step([Finish(j, "Failed") EXCEPT !.help = TRUE])
    BY <1>3 DEF OverdueStep
  <2> QED
    BY <2>1, FinishHelpTurn
<1> QED
  BY <1>1, <1>2, <1>3 DEF Overdue

LEMMA AbortTurn ==
  ASSUME NEW j \in Job, NEW o \in Look, Fits(j, o), Abortable(j)
  PROVE  Turn(j, o, AbortStep(j, o))
<1>1. Turn(j, o, Step(Finish(j, "Failed")))
  BY FinishIs, EndTurn DEF Cleared, Ended
<1>2. BeforeLock(j) => Turn(j, o, UndoPrep(j, o, j.phase # "Entry"))
  <2>1. (j.phase # "Entry") \in BOOLEAN
    OBVIOUS
  <2> QED
    BY <2>1, UndoPrepTurn DEF BeforeLock, Released
<1>3. j.phase \in {"Locked", "VerifyNew"} => Turn(j, o, Rollback(j, o, FALSE))
  BY RollbackTurn
<1> QED
  BY <1>1, <1>2, <1>3 DEF AbortStep, Abortable

LEMMA PhaseTurn ==
  ASSUME NEW j \in Job, NEW o \in Look, Fits(j, o)
  PROVE  Turn(j, o, PhaseStep(j, o))
<1>1. CASE j.phase \in {"Ask", "Entry", "Prepare"}
  BY <1>1, AskTurn, EntryTurn, PrepareTurn DEF PhaseStep
<1>2. CASE j.phase \in {"VerifyPrep", "Countdown"}
  BY <1>2, VerifyPrepTurn, CountdownTurn DEF PhaseStep
<1>3. CASE j.phase = "Locked"
  BY <1>3, LockedSwapTurn, LockedSequentialTurn, ElsewhereTurn DEF PhaseStep
<1>4. CASE j.phase \in {"VerifyNew", "Release"}
  BY <1>4, VerifyNewTurn, ReleaseTurn DEF PhaseStep
<1>5. CASE j.phase \in {"Follow", "Rollback"}
  BY <1>5, FollowTurn, RollbackStepTurn DEF PhaseStep
<1> QED
  BY <1>1, <1>2, <1>3, <1>4, <1>5 DEF Job, Phase, Fits, Ended

\* The whole step.
LEMMA UpdateTurn ==
  ASSUME NEW j \in Job, NEW o \in Look, Fits(j, o), j.waitSeq <= j.seq
  PROVE  Turn(j, o, UpdateStep(j, o))
<1> DEFINE n == NoteInstall(j, o)
           i == IF n.kind # "sequential" /\ n.phase = "Locked" /\ FirstActive(n, o)
                THEN [n EXCEPT !.frozenSynced = TRUE] ELSE n
           r == CASE o.takeover -> Step(Finish(i, "Failed"))
                  [] ~o.takeover /\ o.abort /\ Abortable(i) -> AbortStep(i, o)
                  [] ~o.takeover /\ ~(o.abort /\ Abortable(i)) /\ Overdue(i, o) -> OverdueStep(i, o)
                  [] OTHER -> PhaseStep(i, o)
           s == j.seq + 1
           k == [r.j EXCEPT !.seq = s]
           q == [r EXCEPT !.j = k]
<1>1. UpdateStep(j, o) = IF r.j = j THEN r ELSE q
  BY Zenon DEF UpdateStep
<1>2. i \in Job /\ Like(j, i) /\ i.waitOK = j.waitOK
  <2>1. i \in Job /\ Like(j, i)
    BY NotedIs
  <2>2. n \in Job /\ n.waitOK = j.waitOK
    <3>1. n \in Job
      BY NotedIs
    <3>2. n.waitOK = j.waitOK
      BY DEF NoteInstall, Job
    <3> QED
      BY <3>1, <3>2
  <2> HIDE DEF n
  <2>3. i.waitOK = j.waitOK
    BY <2>2 DEF Job
  <2> QED
    BY <2>1, <2>3
<1> HIDE DEF n, i
<1>3. Fits(i, o)
  BY <1>2 DEF Fits, Like, Form, BeforeLock, Ended, Released, Early, Idle, Asks
<1>4. Turn(i, o, r)
  BY <1>2, <1>3, FinishIs, EndTurn, AbortTurn, OverdueTurn, PhaseTurn DEF Cleared, Ended
<1>5. AckOf(i, o) = AckOf(j, o)
  BY <1>2 DEF AckOf, Like
<1>6. Turn(j, o, r)
  BY <1>2, <1>4, <1>5 DEF Turn, Like, Rolls, Halts, Released, Past, Early, Idle, Asks, Kept, Ended
<1>7. r \in StepRecord
  BY <1>2, <1>3, FinishIs, StepIs, AbortIs, OverdueIs, PhaseIs DEF Outcome, Fits, Cleared
<1> HIDE DEF r
<1>8. CASE r.j = j
  BY <1>1, <1>6, <1>8
<1>9. CASE r.j # j
  <2>1. UpdateStep(j, o) = q /\ s \in Nat
    BY <1>1, <1>9 DEF Job
  <2> DEFINE e == r.j
             f == [e EXCEPT !.seq = s]
  <2>2. q = [r EXCEPT !.j = f] /\ e \in Job
    BY <1>7 DEF StepRecord
  <2> HIDE DEF e, s, q
  <2>3. f \in Job
    BY <2>1, <2>2 DEF Job
  <2>4. /\ f.phase = e.phase /\ f.freezeAcked = e.freezeAcked
        /\ f.waitOp = e.waitOp /\ f.waitNode = e.waitNode /\ f.waitSeq = e.waitSeq
    BY <2>2 DEF Job
  <2> HIDE DEF f
  <2>5. q.j = f /\ q.op = r.op /\ q.to = r.to
    BY <1>7, <2>2 DEF StepRecord
  <2>6. Turn(j, o, q)
    BY <1>6, <2>4, <2>5 DEF Turn, Rolls, Halts, Released, Past, Early, Idle, Asks, Kept, Ended, e
  <2> QED
    BY <2>1, <2>6
<1> QED
  BY <1>8, <1>9

-----------------------------------------------------------------------------
(* The inductive invariant of the way back, on top of JobInv, and one      *)
(* lemma per action; most actions leave alone what it speaks of (FallStays).*)

\* Nothing runs on a server and no operation is on its way there.
Quiet(n) == running[n] = None /\ (mail[n] # None => mail[n].op = None)

\* A message holds the job as its sender has it.
Exact == \A n \in Server : mail[n] # None => mail[n].job = job[Other(n)]

\* The active server remembers that it took over until its job has ended.
Remembered ==
  \A n \in Server : active' = n /\ flags[n].takeover => flags'[n].takeover \/ Ended(job'[n])

\* Rolling: the active server took over, and its job ends; or B has verified
\* the new program; or nobody has touched A.
RollingKept ==
  job[A].kind = "rolling" =>
    /\ \A n \in Server : job[n].waitNode = A => Released(job[n])
    /\ \/ active = B /\ (Past(job[B]) \/ flags[B].takeover)
       \/ active = A /\ cmd[A] = None /\ (Ended(job[A]) \/ flags[A].takeover)
       \/ /\ \A n \in Server : ~Released(job[n])
          /\ Quiet(A) /\ commit[A] = "old" /\ (active = B => db[A] = "frozen")

\* Sequential, while B is asked to freeze or to thaw: what runs on B ...
RunsAtB ==
  running[B] # None =>
    /\ running[B].op \in {"freeze", "thaw"} /\ running[B].seq <= job[A].waitSeq
    /\ running[B].seq = job[A].waitSeq =>
         running[B].op = job[A].waitOp /\ (mail[B] # None => mail[B].op = None)
    /\ job[A].waitOp = "freeze" => running[B].op = "freeze"

\* ... what B has done, and what A will hear of it.
FrozenAtB(a) == a.ok /\ job[A].waitOp = "freeze" => db[B] = "frozen"

DoneAtB ==
  done[B] # None =>
    /\ done[B].seq <= job[A].waitSeq
    /\ done[B].seq = job[A].waitSeq => done[B].op = job[A].waitOp /\ running[B] = None /\ FrozenAtB(done[B])

Answered(a) == a.node = B /\ a.op = job[A].waitOp /\ a.seq >= job[A].waitSeq

HeardFromB ==
  \A i \in DOMAIN acks[A] : Answered(acks[A][i]) => Quiet(B) /\ FrozenAtB(acks[A][i])

\* Sequential: up to the verification B has the old program, and once it was
\* frozen nothing thaws it behind the back of the job.
SequentialKept ==
  job[A].kind = "sequential" /\ active = A /\ Early(job[A]) /\ ~flags[A].takeover =>
    /\ commit[B] = "old" /\ db[B] \in {"standby", "frozen"} /\ job[B].seq <= job[A].seq
    /\ \/ Idle(job[A]) /\ Quiet(B) /\ (Kept(job[A]) => db[B] = "frozen")
       \/ Asks(job[A]) /\ RunsAtB /\ DoneAtB /\ HeardFromB

FallInv == Exact /\ RollingKept /\ SequentialKept

\* What most actions leave alone: the job, the roles, and A until it is asked;
Stays ==
  /\ job' = job /\ active' = active /\ cmd'[A] \in {cmd[A], None}
  /\ \A m \in Server : mail'[m] \in {mail[m], None} /\ running'[m] \in {running[m], None}
  /\ running[A] = None => commit'[A] = commit[A] /\ (db[A] = "frozen" /\ active = B => db'[A] = "frozen")

\* and B, with what A hears of it.
StaysB ==
  /\ commit'[B] = commit[B] /\ (active = A /\ db[B] \in {"standby", "frozen"} => db'[B] = db[B])
  /\ done'[B] \in {done[B], None}
  /\ \A i \in DOMAIN acks'[A] :
       (\E k \in DOMAIN acks[A] : acks'[A][i] = acks[A][k]) \/ acks'[A][i].node = A

LEMMA MostStays ==
  ASSUME Exact, RollingKept, Remembered, Stays
  PROVE  Exact' /\ RollingKept'
<1>1. Exact'
  BY DEF Exact, Stays
<1>2. RollingKept'
  BY Servers DEF RollingKept, Stays, Quiet, Remembered, Past
<1> QED
  BY <1>1, <1>2

LEMMA FallStays ==
  ASSUME FallInv, Remembered, Stays, StaysB
  PROVE  FallInv'
<1>1. Exact' /\ RollingKept'
  BY MostStays DEF FallInv
<1>2. SequentialKept'
  <2> SUFFICES ASSUME job[A].kind = "sequential", active = A, Early(job[A]), ~flags[A].takeover
               PROVE  SequentialKept'
    BY Servers DEF SequentialKept, Stays, Remembered, Early, Ended
  <2>1. /\ commit[B] = "old" /\ db[B] \in {"standby", "frozen"} /\ job[B].seq <= job[A].seq
        /\ \/ Idle(job[A]) /\ Quiet(B) /\ (Kept(job[A]) => db[B] = "frozen")
           \/ Asks(job[A]) /\ RunsAtB /\ DoneAtB /\ HeardFromB
    BY DEF FallInv, SequentialKept
  <2>2. db'[B] = db[B] /\ commit'[B] = commit[B]
    BY <2>1 DEF StaysB
  <2>3. Quiet(B) => Quiet(B)'
    BY Servers DEF Quiet, Stays
  <2>4. RunsAtB => RunsAtB'
    BY Servers DEF RunsAtB, Stays
  <2>5. DoneAtB => DoneAtB'
    BY <2>2, Servers DEF DoneAtB, FrozenAtB, Stays, StaysB
  <2>6. HeardFromB => HeardFromB'
    <3> SUFFICES ASSUME HeardFromB, NEW i \in DOMAIN acks'[A], Answered(acks[A][i])'
                 PROVE  Quiet(B) /\ FrozenAtB(acks[A][i])'
      BY <2>3 DEF HeardFromB
    <3>1. PICK k \in DOMAIN acks[A] : acks'[A][i] = acks[A][k]
      BY Servers DEF Answered, StaysB
    <3>2. Answered(acks[A][k])
      BY <3>1 DEF Answered, Stays
    <3> QED
      BY <2>2, <3>1, <3>2 DEF HeardFromB, FrozenAtB, Stays
  <2> QED
    BY <2>1, <2>2, <2>3, <2>4, <2>5, <2>6 DEF SequentialKept, Stays
<1> QED
  BY <1>1, <1>2 DEF FallInv

\* Nothing is sent, asked or carried out.
LEMMA IdleFall ==
  ASSUME JobInv, FallInv, Remembered, cmd'[A] \in {cmd[A], None},
         UNCHANGED <<job, active, running, done, acks, mail, commit, db>>
  PROVE  FallInv'
<1>1. Stays
  BY DEF Stays
<1>2. acks' = acks
  OBVIOUS
<1>3. StaysB
  BY <1>2 DEF StaysB
<1> QED
  BY <1>1, <1>3, FallStays

LEMMA LoseFall ==
  ASSUME JobInv, FallInv, Remembered, NEW n \in Server, Lose(n)
  PROVE  FallInv'
<1>1. \A m \in Server : mail'[m] \in {mail[m], None}
  BY DEF Lose, JobInv, JobTypes
<1>2. \A m \in Server : acks'[m] = acks[m] \/ (acks[m] # <<>> /\ acks'[m] = Tail(acks[m]))
  BY DEF Lose, JobInv, OpTypes
<1>3. ASSUME NEW i \in DOMAIN acks'[A]
      PROVE  \E k \in DOMAIN acks[A] : acks'[A][i] = acks[A][k]
  <2>1. CASE acks'[A] = acks[A]
    BY <1>3, <2>1
  <2>2. CASE acks[A] # <<>> /\ acks'[A] = Tail(acks[A])
    <3>1. acks[A] \in Seq(Ack)
      BY Servers DEF JobInv, OpTypes
    <3>2. i + 1 \in DOMAIN acks[A] /\ acks'[A][i] = acks[A][i + 1]
      BY <1>3, <2>2, <3>1
    <3> QED
      BY <3>2
  <2> QED
    BY <1>2, <2>1, <2>2, Servers
<1>4. Stays /\ StaysB
  BY <1>1, <1>3 DEF Stays, StaysB, Lose, world
<1> QED
  BY <1>4, FallStays

LEMMA PromoteLateFall ==
  ASSUME JobInv, FallInv, Remembered, NEW n \in Server, PromoteLate(n)
  PROVE  FallInv'
<1>1. Stays /\ StaysB
  BY Servers DEF PromoteLate, Stays, StaysB, memory, JobInv, WorldTypes
<1> QED
  BY <1>1, FallStays

LEMMA RejoinFall ==
  ASSUME JobInv, FallInv, Remembered, NEW n \in Server, Rejoin(n)
  PROVE  FallInv'
<1>1. Stays /\ StaysB
  BY Servers DEF Rejoin, FollowActive, Stays, StaysB, memory, JobInv, WorldTypes
<1> QED
  BY <1>1, FallStays

LEMMA RestartFall ==
  ASSUME JobInv, FallInv, Remembered, NEW n \in Server, Restart(n)
  PROVE  FallInv'
<1>1. /\ acks' = [acks EXCEPT ![n] = <<>>] /\ running' = [running EXCEPT ![n] = None]
      /\ done' = [done EXCEPT ![n] = None]
      /\ db' = [db EXCEPT ![n] = IF @ = "sealed" /\ active = n THEN "primary" ELSE @]
      /\ UNCHANGED <<job, mail, active, commit>>
      /\ cmd'[A] \in {cmd[A], None}
  BY Servers DEF Restart, Reborn, JobInv, JobTypes
<1>2. \A m \in Server : acks'[m] = acks[m] \/ acks'[m] = <<>>
  BY <1>1 DEF JobInv, OpTypes
<1>3. \A i \in DOMAIN acks'[A] : \E k \in DOMAIN acks[A] : acks'[A][i] = acks[A][k]
  BY <1>2, Servers
<1>4. Stays /\ StaysB
  BY <1>1, <1>3, Servers DEF Stays, StaysB, JobInv, OpTypes, WorldTypes
<1> QED
  BY <1>4, FallStays

\* What carrying out an operation changes: the server itself, and whom it answers.
Comes(n, a) ==
  /\ running'[n] = None /\ a.node = n /\ a.op = running[n].op /\ a.seq = running[n].seq
  /\ a.op = "freeze" /\ a.ok /\ db[n] \in {"standby", "frozen"} => db'[n] = "frozen"

Does(n) ==
  /\ job' = job /\ mail' = mail /\ active' = active /\ running[n] # None
  /\ cmd'[A] \in {cmd[A], None}
  /\ \A m \in Server : m # n => /\ running'[m] = running[m] /\ done'[m] = done[m]
                                /\ db'[m] = db[m] /\ commit'[m] = commit[m]
  /\ running'[n] \in {running[n], None}
  /\ done'[n] \in {done[n], None} \/ Comes(n, done'[n])
  /\ \A m \in Server : \A i \in DOMAIN acks'[m] :
       (\E k \in DOMAIN acks[m] : acks'[m][i] = acks[m][k]) \/ Comes(n, acks'[m][i])
  /\ running[n].op \in {"freeze", "thaw"} /\ db[n] \in {"standby", "frozen"} =>
       running'[n] = None /\ commit'[n] = commit[n] /\ db'[n] \in {"standby", "frozen"}

\* An operation is over, with its answer.
LEMMA ComesIs ==
  ASSUME JobInv, NEW n \in Server, running[n] # None, NEW ok \in BOOLEAN, NEW noFault \in BOOLEAN,
         Result(n, ok, noFault),
         running[n].op = "freeze" /\ ok /\ db[n] \in {"standby", "frozen"} => db'[n] = "frozen"
  PROVE  /\ running'[n] = None /\ Comes(n, done'[n])
         /\ \A m \in Server : m # n => running'[m] = running[m] /\ done'[m] = done[m]
         /\ \A m \in Server : \A i \in DOMAIN acks'[m] :
              (\E k \in DOMAIN acks[m] : acks'[m][i] = acks[m][k]) \/ Comes(n, acks'[m][i])
<1> DEFINE a == [op |-> running[n].op, node |-> n, seq |-> running[n].seq, ok |-> ok, noFault |-> noFault]
           d == running[n].from
<1>1. running[n] \in Task /\ d \in Server
  BY DEF JobInv, OpTypes, Task
<1>2. /\ a \in Ack /\ a.seq = running[n].seq /\ a.node = n /\ a.op = running[n].op /\ a.ok = ok
  BY <1>1 DEF Ack, Task
<1>3. /\ running' = [running EXCEPT ![n] = None] /\ done' = [done EXCEPT ![n] = a]
      /\ acks' = [acks EXCEPT ![d] = Append(@, a)]
  BY Zenon DEF Result
<1> HIDE DEF a, d
<1>4. running'[n] = None /\ done'[n] = a
  BY <1>3 DEF JobInv, OpTypes
<1>5. Comes(n, a)
  BY <1>2, <1>4 DEF Comes
<1>6. \A m \in Server : \A i \in DOMAIN acks'[m] :
        (\E k \in DOMAIN acks[m] : acks'[m][i] = acks[m][k]) \/ acks'[m][i] = a
  BY <1>1, <1>2, <1>3, Appended DEF JobInv
<1>7. \A m \in Server : m # n => running'[m] = running[m] /\ done'[m] = done[m]
  BY <1>3 DEF JobInv, OpTypes
<1>8. Comes(n, done'[n])
  BY <1>4, <1>5
<1>9. \A m \in Server : \A i \in DOMAIN acks'[m] :
        (\E k \in DOMAIN acks[m] : acks'[m][i] = acks[m][k]) \/ Comes(n, acks'[m][i])
  BY <1>5, <1>6
<1> QED
  BY <1>4, <1>7, <1>8, <1>9

\* An operation that changes the program, and is no freezing nor thawing.
LEMMA ChangeDoes ==
  ASSUME JobInv, NEW n \in Server, running[n] # None, NEW c, Change(n, c), RunFrame,
         running[n].op \notin {"freeze", "thaw"},
         \A m \in Server : m # n => db'[m] = db[m]
  PROVE  Does(n)
<1>1. \A m \in Server : m # n => commit'[m] = commit[m]
  BY DEF Change, JobInv, WorldTypes
<1>4. cmd'[A] \in {cmd[A], None}
  <2>1. cmd' = cmd \/ cmd' = [cmd EXCEPT ![n] = None]
    BY DEF Change
  <2> QED
    BY <2>1, Servers DEF JobInv, JobTypes
<1>2. CASE Result(n, TRUE, FALSE)
  BY <1>1, <1>2, <1>4, ComesIs DEF Does, RunFrame
<1>3. CASE acks' = [acks EXCEPT ![n] = <<>>] /\ running' = [running EXCEPT ![n] = None] /\ done' = [done EXCEPT ![n] = None]
  <2>1. \A m \in Server : acks'[m] = acks[m] \/ acks'[m] = <<>>
    BY <1>3 DEF JobInv, OpTypes
  <2>2. \A m \in Server : \A i \in DOMAIN acks'[m] : \E k \in DOMAIN acks[m] : acks'[m][i] = acks[m][k]
    BY <2>1
  <2>3. /\ running'[n] = None /\ done'[n] = None
        /\ \A m \in Server : m # n => running'[m] = running[m] /\ done'[m] = done[m]
    BY <1>3 DEF JobInv, OpTypes
  <2> QED
    BY <1>1, <1>4, <2>2, <2>3 DEF Does, RunFrame
<1> QED
  BY <1>2, <1>3 DEF Change

LEMMA RunDoes ==
  ASSUME JobInv, NEW n \in Server, Run(n)
  PROVE  Does(n)
<1>1. running[n] # None /\ RunFrame
  BY DEF Run, RunFrame
<1>2. CASE RunInstall(n)
  <2>1. running[n].op = "install"
    BY <1>2 DEF RunInstall
  <2>2. CASE commit[n] = "new"
    <3>1. Result(n, TRUE, FALSE) /\ UNCHANGED <<commit, db, cmd>>
      BY <1>2, <2>2 DEF RunInstall
    <3> QED
      BY <1>1, <2>1, <3>1, ComesIs DEF Does, RunFrame
  <2>3. CASE commit[n] # "new"
    <3>1. Change(n, "new") /\ \A m \in Server : m # n => db'[m] = db[m]
      BY <1>2, <2>3 DEF RunInstall, JobInv, WorldTypes
    <3> QED
      BY <1>1, <2>1, <3>1, ChangeDoes
  <2> QED
    BY <2>2, <2>3
<1>3. CASE RunNoRestart(n)
  <2>1. /\ running[n].op \in {"install_norestart", "rollback_norestart"} /\ Result(n, TRUE, FALSE)
        /\ commit' = commit /\ cmd' = cmd
        /\ \A m \in Server : m # n => db'[m] = db[m]
    BY <1>3 DEF RunNoRestart, JobInv, WorldTypes
  <2> QED
    BY <1>1, <2>1, ComesIs DEF Does, RunFrame
<1>4. CASE RunRollback(n)
  <2>1. running[n].op = "rollback" /\ Change(n, "old") /\ \A m \in Server : m # n => db'[m] = db[m]
    BY <1>4 DEF RunRollback, FollowActive, JobInv, WorldTypes
  <2> QED
    BY <1>1, <2>1, ChangeDoes
<1>5. CASE RunSeal(n)
  <2>1. running[n].op = "seal" /\ commit' = commit /\ cmd' = cmd /\ \A m \in Server : m # n => db'[m] = db[m]
    BY <1>5 DEF RunSeal, JobInv, WorldTypes
  <2>2. CASE Result(n, TRUE, FALSE)
    BY <1>1, <2>1, <2>2, ComesIs DEF Does, RunFrame
  <2>3. CASE running' = running /\ done' = done /\ acks' = acks
    BY <1>1, <2>1, <2>3 DEF Does, RunFrame
  <2> QED
    BY <1>5, <2>2, <2>3 DEF RunSeal
<1>6. CASE RunFreeze(n)
  <2>1. /\ running[n].op = "freeze" /\ Result(n, TRUE, FALSE) /\ commit' = commit /\ cmd' = cmd
        /\ \A m \in Server : m # n => db'[m] = db[m]
        /\ db[n] \in {"standby", "frozen"} => db'[n] = "frozen"
    BY <1>6 DEF RunFreeze, JobInv, WorldTypes
  <2> QED
    BY <1>1, <2>1, ComesIs DEF Does, RunFrame
<1>7. CASE RunThaw(n)
  <2>1. /\ running[n].op = "thaw" /\ Result(n, TRUE, FALSE) /\ commit' = commit /\ cmd' = cmd
        /\ \A m \in Server : m # n => db'[m] = db[m]
        /\ db'[n] = "standby"
    BY <1>7 DEF RunThaw, FollowActive, JobInv, WorldTypes
  <2> QED
    BY <1>1, <2>1, ComesIs DEF Does, RunFrame
<1>8. CASE RunReinit(n)
  <2>1. running[n].op = "reinit" /\ Change(n, "new") /\ \A m \in Server : m # n => db'[m] = db[m]
    BY <1>8 DEF RunReinit, FollowActive, JobInv, WorldTypes
  <2> QED
    BY <1>1, <2>1, ChangeDoes
<1>9. CASE RunFails(n)
  <2>1. PICK noFault \in BOOLEAN : Result(n, FALSE, noFault)
    BY <1>9 DEF RunFails
  <2>2. /\ commit' = commit /\ cmd' = cmd /\ \A m \in Server : m # n => db'[m] = db[m]
        /\ running[n].op # "seal" => db'[n] = db[n]
    BY <1>9 DEF RunFails, JobInv, WorldTypes
  <2> QED
    BY <1>1, <2>1, <2>2, ComesIs DEF Does, RunFrame
<1> QED
  BY <1>2, <1>3, <1>4, <1>5, <1>6, <1>7, <1>8, <1>9 DEF Run

LEMMA RunFall ==
  ASSUME JobInv, FallInv, Remembered, NEW n \in Server, Run(n)
  PROVE  FallInv'
<1>1. Does(n)
  BY RunDoes
<1>2. n = A \/ n = B
  BY DEF Server
<1>3. Stays
  BY <1>1, <1>2, Servers DEF Does, Stays
<1>4. CASE n = A
  <2>1. \A i \in DOMAIN acks'[A] :
          (\E k \in DOMAIN acks[A] : acks'[A][i] = acks[A][k]) \/ acks'[A][i].node = A
    BY <1>1, <1>4, Servers DEF Does, Comes
  <2>2. StaysB
    BY <1>1, <1>4, <2>1, Servers DEF Does, StaysB
  <2> QED
    BY <1>3, <2>2, FallStays
<1>5. CASE n = B
  <2>1. Exact' /\ RollingKept'
    BY <1>3, MostStays DEF FallInv
  <2>2. SequentialKept'
    <3> SUFFICES ASSUME job[A].kind = "sequential", active = A, Early(job[A]), ~flags[A].takeover
                 PROVE  SequentialKept'
      BY <1>1, Servers DEF SequentialKept, Does, Remembered, Early, Ended
    <3>1. /\ commit[B] = "old" /\ db[B] \in {"standby", "frozen"} /\ job[B].seq <= job[A].seq
          /\ Asks(job[A]) /\ RunsAtB /\ DoneAtB /\ HeardFromB
      BY <1>1, <1>5 DEF FallInv, SequentialKept, Quiet, Does
    <3>2. running[B] # None /\ running[B] \in Task
      BY <1>1, <1>5, Servers DEF Does, JobInv, OpTypes
    <3>3. running'[B] = None /\ commit'[B] = "old" /\ db'[B] \in {"standby", "frozen"}
      BY <1>1, <1>5, <3>1, <3>2 DEF Does, RunsAtB
    <3>4. ASSUME NEW a, Comes(B, a)
          PROVE  FrozenAtB(a)' /\ a.seq <= job[A].waitSeq
                 /\ (a.seq = job[A].waitSeq => a.op = job[A].waitOp /\ Quiet(B)')
      <4>1. a.seq <= job[A].waitSeq /\ (a.seq = job[A].waitSeq => a.op = job[A].waitOp /\ (mail[B] # None => mail[B].op = None))
        BY <3>1, <3>2, <3>4 DEF Comes, RunsAtB
      <4>2. a.ok /\ job[A].waitOp = "freeze" => db'[B] = "frozen"
        BY <3>1, <3>2, <3>4 DEF Comes, RunsAtB
      <4> QED
        BY <1>1, <3>3, <4>1, <4>2 DEF FrozenAtB, Quiet, Does
    <3>5. DoneAtB'
      <4>1. CASE done'[B] = None
        BY <4>1 DEF DoneAtB
      <4>2. CASE done'[B] = done[B]
        BY <1>1, <3>1, <3>2, <4>2 DEF DoneAtB, FrozenAtB, Does
      <4>3. CASE Comes(B, done'[B])
        <5>1. /\ FrozenAtB(done[B])' /\ done'[B].seq <= job[A].waitSeq
              /\ done'[B].seq = job[A].waitSeq => done'[B].op = job[A].waitOp
          BY <3>4, <4>3 DEF FrozenAtB
        <5> QED
          BY <1>1, <3>3, <5>1 DEF DoneAtB, Does
      <4> QED
        BY <1>1, <1>5, <4>1, <4>2, <4>3 DEF Does
    <3>6. HeardFromB'
      <4> SUFFICES ASSUME NEW i \in DOMAIN acks'[A], Answered(acks[A][i])'
                   PROVE  Quiet(B)' /\ FrozenAtB(acks[A][i])'
        BY DEF HeardFromB
      <4>1. CASE \E k \in DOMAIN acks[A] : acks'[A][i] = acks[A][k]
        <5>1. PICK k \in DOMAIN acks[A] : acks'[A][i] = acks[A][k]
          BY <4>1
        <5>2. Answered(acks[A][k])
          BY <1>1, <5>1 DEF Answered, Does
        <5> QED
          BY <3>1, <3>2, <5>2 DEF HeardFromB, Quiet
      <4>2. CASE Comes(B, acks'[A][i])
        <5>1. /\ FrozenAtB(acks[A][i])' /\ acks'[A][i].seq <= job[A].waitSeq
              /\ acks'[A][i].seq = job[A].waitSeq => Quiet(B)'
          BY <3>4, <4>2 DEF FrozenAtB
        <5>2. acks'[A][i].seq \in Nat /\ job[A].waitSeq \in Nat /\ acks'[A][i].seq >= job[A].waitSeq
          <6>1. acks'[A][i].seq = running[B].seq /\ running[B].seq \in Nat /\ job[A] \in Job
            BY <3>2, <4>2, Servers DEF Comes, Task, JobInv, JobTypes
          <6> QED
            BY <1>1, <6>1 DEF Answered, Does, Job
        <5> QED
          BY <5>1, <5>2
      <4> QED
        BY <1>1, <1>5, <4>1, <4>2, Servers DEF Does
    <3> QED
      BY <1>1, <3>1, <3>3, <3>5, <3>6 DEF SequentialKept, RunsAtB, Does
  <2> QED
    BY <2>1, <2>2 DEF FallInv
<1> QED
  BY <1>2, <1>4, <1>5

\* The server that took over ends the job.
LEMMA TakenStep ==
  ASSUME NEW j \in Job, NEW o \in Look, o.takeover
  PROVE  /\ Turn(j, o, UpdateStep(j, o)) /\ Ended(UpdateStep(j, o).j)
         /\ UpdateStep(j, o).cmd = None
<1> DEFINE n == NoteInstall(j, o)
           i == IF n.kind # "sequential" /\ n.phase = "Locked" /\ FirstActive(n, o)
                THEN [n EXCEPT !.frozenSynced = TRUE] ELSE n
           t == Step(Finish(i, "Failed"))
           s == j.seq + 1
           k == [t.j EXCEPT !.seq = s]
           q == [t EXCEPT !.j = k]
           r == UpdateStep(j, o)
<1>1. r = IF t.j = j THEN t ELSE q
  BY Zenon DEF UpdateStep
<1>2. i \in Job
  BY NotedIs
<1> HIDE DEF n, i, r
<1>3. /\ t \in StepRecord /\ t.j \in Job /\ t.j.phase = "Failed" /\ t.j.waitNode = None
      /\ t.to = None /\ t.cmd = None
  BY <1>2, FinishIs, StepIs DEF Cleared
<1> HIDE DEF t, s
<1>4. k.phase = "Failed" /\ k.waitNode = None
  BY <1>3 DEF Job
<1> HIDE DEF k
<1>5. q.j = k /\ q.to = None /\ q.cmd = None
  BY <1>3 DEF StepRecord
<1> HIDE DEF q
<1>6. r.j.phase = "Failed" /\ r.j.waitNode = None /\ r.to = None /\ r.cmd = None
  BY <1>1, <1>3, <1>4, <1>5
<1>7. None # A
  BY NoneIs DEF Server
<1>8. Turn(j, o, r)
  BY <1>6, <1>7, AwayTurn
<1> QED
  BY <1>6, <1>8 DEF Ended, r

\* What is known when the conducting server makes a step.
LEMMA FitsIs ==
  ASSUME JobInv, FallInv, NEW n \in Server, active = n, ~Ended(job[n]), NEW o, Looks(n, o), ~o.takeover
  PROVE  Fits(job[n], o)
<1>1. Form(job[n]) /\ job[n].kind = job[A].kind /\ o.self = n /\ ~flags[n].takeover
  BY DEF JobInv, Book, JobsFit, Looks
<1>2. job[n].kind = "rolling" /\ job[n].waitNode = A => Released(job[n])
  BY <1>1 DEF FallInv, RollingKept
<1>3. job[n].kind = "sequential" /\ n = A /\ Early(job[n]) => Idle(job[n]) \/ Asks(job[n])
  BY <1>1 DEF FallInv, SequentialKept
<1> QED
  BY <1>1, <1>2, <1>3 DEF Fits

LEMMA SelfOKIs ==
  ASSUME NEW n, NEW o \in Views(n), o.selfOK
  PROVE  commit[n] = Wanted(n)
<1>1. PICK late \in Late(n), lockMax \in BOOLEAN, again \in Again,
         selfOK \in SelfAnswers(n), partnerOK \in PartnerAnswers(n), partnerUp \in BOOLEAN,
         ack \in {None} \cup {acks[n][1] : i \in DOMAIN acks[n]} :
           o = View(n, late, lockMax, again, selfOK, partnerOK, partnerUp, ack)
  BY DEF Views
<1>2. o.selfOK = selfOK
  BY <1>1 DEF View
<1> QED
  BY <1>2 DEF SelfAnswers

\* A tick of the conducting server, with all that is said of its step.
LEMMA TurnIs ==
  ASSUME JobInv, FallInv, NEW n \in Server, Conduct(n)
  PROVE  /\ active = n /\ ~Ended(job[n]) /\ mail[Other(n)] = None
         /\ \E o, r : /\ Conducted(n, o, r) /\ Turn(job[n], o, r)
                      /\ (o.takeover => Ended(r.j))
                      /\ (o.selfOK => commit[n] = Wanted(n))
                      /\ (r.to = n => running[n] = None)
<1>1. /\ active = n /\ ~Ended(job[n]) /\ mail[Other(n)] = None
      /\ \E s \in {[UpdateStep(job[n], o) EXCEPT !.ack = o.ack # None] : o \in Views(n)} :
           TickEnd(n, s) /\ (s.to = n => running[n] = None)
      /\ UNCHANGED <<done, faults, world>>
  BY DEF Conduct, ConductOn
<1>2. PICK s \in {[UpdateStep(job[n], o) EXCEPT !.ack = o.ack # None] : o \in Views(n)} :
        TickEnd(n, s) /\ (s.to = n => running[n] = None)
  BY <1>1
<1>8. PICK o \in Views(n) : s = [UpdateStep(job[n], o) EXCEPT !.ack = o.ack # None]
  BY <1>2
<1> DEFINE r == UpdateStep(job[n], o)
           b == o.ack # None
<1>3. Looks(n, o) /\ (o.selfOK => commit[n] = Wanted(n))
  BY ViewIs, SelfOKIs DEF JobInv
<1>4. Stepped(job[n], o, r) /\ Turn(job[n], o, r) /\ (o.takeover => Ended(r.j))
  <2>1. job[n] \in Job /\ Form(job[n]) /\ job[n].waitSeq <= job[n].seq
    BY DEF JobInv, JobTypes, Book, JobsFit
  <2>2. ~o.takeover => Fits(job[n], o)
    BY <1>1, <1>3, FitsIs
  <2>3. o \in Look
    BY <1>3 DEF Looks
  <2>4. Turn(job[n], o, r) /\ (o.takeover => Ended(r.j))
    BY <2>1, <2>2, <2>3, UpdateTurn, TakenStep
  <2> QED
    BY <1>1, <2>1, <2>3, <2>4, UpdateStepIs
<1>5. s = [r EXCEPT !.ack = b]
  BY <1>8
<1> HIDE DEF r, b
<1>6. s.j = r.j /\ s.op = r.op /\ s.to = r.to /\ s.cmd = r.cmd /\ s.ack = b
  BY <1>4, <1>5 DEF Stepped, StepRecord
<1>7. Conducted(n, o, r)
  BY <1>1, <1>2, <1>3, <1>4, <1>6 DEF TickEnd, Conducted, b
<1> QED
  BY <1>1, <1>2, <1>3, <1>4, <1>6, <1>7

\* The messages and the operations after a step.
LEMMA ConductSends ==
  ASSUME JobInv, Exact, NEW n \in Server, NEW o, NEW r, Conducted(n, o, r), mail[Other(n)] = None, active = n
  PROVE  /\ job'[n] = r.j /\ job'[Other(n)] = job[Other(n)] /\ Exact' /\ mail'[n] = None
         /\ mail'[Other(n)] # None => mail'[Other(n)].job = r.j /\ mail'[Other(n)].op = (IF r.to = Other(n) THEN r.op ELSE None)
         /\ running'[Other(n)] = running[Other(n)]
         /\ r.to # n => running'[n] = running[n]
<1> DEFINE m == Other(n)
           p == [op |-> r.op, job |-> r.j]
           q == [op |-> None, job |-> r.j]
<1>1. /\ n # m /\ m \in Server /\ Other(m) = n /\ Server = {n, m}
  BY Servers DEF Server
<1>2. job'[n] = r.j /\ job'[m] = job[m]
  BY <1>1 DEF Conducted, JobInv, JobTypes
<1>3. mail[n] = None
  BY DEF JobInv, Book, MailFits
<1>4. mail' = IF r.to = m THEN [mail EXCEPT ![m] = p] ELSE IF r.j # job[n] THEN [mail EXCEPT ![m] = q] ELSE mail
  BY DEF Conducted
<1>5. p.op = r.op /\ p.job = r.j /\ q.op = None /\ q.job = r.j
  OBVIOUS
<1> HIDE DEF p, q, m
<1>6. mail'[n] = None
  BY <1>1, <1>3, <1>4 DEF JobInv, JobTypes
<1>7. mail'[m] # None => mail'[m] = (IF r.to = m THEN p ELSE q)
  <2>1. mail[m] = None /\ mail \in [Server -> Letter \cup {None}]
    BY DEF m, JobInv, JobTypes
  <2> QED
    BY <1>1, <1>4, <2>1
<1>8. Exact'
  BY <1>1, <1>2, <1>5, <1>6, <1>7 DEF Exact
<1>9. running'[m] = running[m] /\ (r.to # n => running'[n] = running[n])
  BY <1>1 DEF Conducted, JobInv, OpTypes
<1>10. mail'[m] # None => mail'[m].job = r.j /\ mail'[m].op = (IF r.to = m THEN r.op ELSE None)
  BY <1>5, <1>7
<1> QED
  BY <1>2, <1>6, <1>8, <1>9, <1>10 DEF m

LEMMA ConductRolling ==
  ASSUME JobInv, FallInv, NEW n \in Server, NEW o, NEW r, Conducted(n, o, r), Turn(job[n], o, r),
         active = n, ~Ended(job[n]), mail[Other(n)] = None,
         o.takeover => Ended(r.j), o.selfOK => commit[n] = Wanted(n)
  PROVE  RollingKept'
<1> SUFFICES ASSUME job'[A].kind = "rolling"
             PROVE  RollingKept'
  BY DEF RollingKept
<1>1. /\ job'[n] = r.j /\ job'[Other(n)] = job[Other(n)] /\ mail'[n] = None
      /\ mail'[Other(n)] # None => mail'[Other(n)].op = (IF r.to = Other(n) THEN r.op ELSE None)
      /\ running'[Other(n)] = running[Other(n)]
      /\ r.to # n => running'[n] = running[n]
  BY ConductSends DEF FallInv
<1>10. /\ o.takeover = flags[n].takeover /\ (o.takeover => r.cmd = None)
       /\ cmd' = [cmd EXCEPT ![n] = IF r.cmd = None THEN @ ELSE r.cmd]
  BY DEF Conducted, Looks, Stepped
<1>2. /\ r.j.kind = job[n].kind /\ active' = active /\ db' = db /\ commit' = commit
  BY DEF Conducted, Stepped, world
<1>3. job[n].kind = "rolling" /\ job[A].kind = "rolling"
  BY <1>1, <1>2, Servers DEF JobInv, Book, JobsFit
<1>4. Rolls(job[n], o, r)
  BY <1>3 DEF Turn
<1>5. /\ \A s \in Server : job[s].waitNode = A => Released(job[s])
      /\ \/ active = B /\ (Past(job[B]) \/ flags[B].takeover)
         \/ active = A /\ cmd[A] = None /\ (Ended(job[A]) \/ flags[A].takeover)
         \/ /\ \A s \in Server : ~Released(job[s])
            /\ Quiet(A) /\ commit[A] = "old" /\ (active = B => db[A] = "frozen")
  BY <1>3 DEF FallInv, RollingKept
<1>6. \A s \in Server : s = n \/ s = Other(n)
  BY Servers
<1>7. \A s \in Server : job'[s].waitNode = A => Released(job'[s])
  BY <1>1, <1>4, <1>5, <1>6 DEF Rolls
<1>8. CASE active = B /\ (Past(job[B]) \/ flags[B].takeover)
  <2>1. n = B /\ (Released(job[B]) \/ o.takeover)
    BY <1>8, <1>10 DEF Past
  <2>2. Past(job'[B])
    BY <1>1, <1>4, <2>1 DEF Rolls, Past
  <2> QED
    BY <1>2, <1>7, <1>8, <2>2 DEF RollingKept, Past, Released, Ended
<1>9. CASE /\ \A s \in Server : ~Released(job[s])
           /\ Quiet(A) /\ commit[A] = "old" /\ (active = B => db[A] = "frozen")
  <2>1. CASE Released(r.j)
    <3>1. job[n].phase = "VerifyNew" /\ o.selfOK
      BY <1>4, <1>9, <2>1 DEF Rolls
    <3>2. commit[n] = "new"
      BY <1>3, <3>1 DEF Wanted
    <3>3. n = B
      BY <1>9, <3>2 DEF Server
    <3> QED
      BY <1>1, <1>2, <1>7, <2>1, <3>3 DEF RollingKept, Past, Released, Ended
  <2>2. CASE ~Released(r.j)
    <3>1. r.to # A
      BY <1>4, <2>2 DEF Rolls
    <3>2. \A s \in Server : ~Released(job'[s])
      BY <1>1, <1>6, <1>9, <2>2
    <3>3. running'[A] = None
      BY <1>1, <1>9, <3>1, Servers DEF Quiet
    <3>4. mail'[A] # None => mail'[A].op = None
      BY <1>1, <1>6, <3>1, Servers
    <3>5. Quiet(A)'
      BY <3>3, <3>4 DEF Quiet
    <3> QED
      BY <1>2, <1>7, <1>9, <3>2, <3>5 DEF RollingKept, Released
  <2> QED
    BY <2>1, <2>2
<1>11. CASE active = A /\ cmd[A] = None /\ (Ended(job[A]) \/ flags[A].takeover)
  <2>1. n = A /\ o.takeover
    BY <1>10, <1>11
  <2>2. Ended(job'[A]) /\ cmd'[A] = None
    BY <1>1, <1>10, <1>11, <2>1 DEF JobInv, JobTypes
  <2> QED
    BY <1>2, <1>7, <1>11, <2>2 DEF RollingKept, Released, Ended
<1> QED
  BY <1>5, <1>8, <1>9, <1>11

\* The answers after a step are some of those before.
LEMMA ConductHears ==
  ASSUME JobInv, NEW n \in Server, NEW o, NEW r, Conducted(n, o, r)
  PROVE  \A i \in DOMAIN acks'[n] : \E k \in DOMAIN acks[n] : acks'[n][i] = acks[n][k]
<1>1. acks[n] \in Seq(Ack)
  BY DEF JobInv, OpTypes
<1>2. acks'[n] = acks[n] \/ (acks[n] # <<>> /\ acks'[n] = Tail(acks[n]))
  BY DEF Conducted, Looks, JobInv, OpTypes
<1>3. CASE acks'[n] = acks[n]
  BY <1>3
<1>4. CASE acks[n] # <<>> /\ acks'[n] = Tail(acks[n])
  <2>1. ASSUME NEW i \in DOMAIN acks'[n]
        PROVE  \E k \in DOMAIN acks[n] : acks'[n][i] = acks[n][k]
    <3>1. i + 1 \in DOMAIN acks[n] /\ acks'[n][i] = acks[n][i + 1]
      BY <1>1, <1>4, <2>1
    <3> QED
      BY <3>1
  <2> QED
    BY <2>1
<1> QED
  BY <1>2, <1>3, <1>4

LEMMA ConductSequential ==
  ASSUME JobInv, FallInv, NEW n \in Server, NEW o, NEW r, Conducted(n, o, r), Turn(job[n], o, r),
         active = n, ~Ended(job[n]), mail[Other(n)] = None,
         o.takeover => Ended(r.j)
  PROVE  SequentialKept'
<1> SUFFICES ASSUME job'[A].kind = "sequential", active' = A, Early(job'[A])
             PROVE  SequentialKept'
  BY DEF SequentialKept
<1>1. n = A /\ active' = active /\ db' = db /\ commit' = commit /\ done' = done
  BY DEF Conducted, world
<1> DEFINE j == job[A]
<1>2. /\ job'[A] = r.j /\ job'[B] = job[B]
      /\ mail'[B] # None => mail'[B].op = (IF r.to = B THEN r.op ELSE None)
      /\ running'[B] = running[B]
  BY <1>1, ConductSends, Servers DEF FallInv
<1>3. /\ r.j.kind = j.kind /\ Sends(j, r) /\ (r.j = j \/ r.j.seq = j.seq + 1) /\ (r.op # None => r.j.seq = j.seq + 1)
      /\ o.self = A /\ ~flags[A].takeover
  BY <1>1, <1>2 DEF Conducted, Stepped, Looks, Early, Ended
<1>4. j.kind = "sequential" /\ Halts(j, o, r)
  BY <1>1, <1>2, <1>3 DEF Turn
<1>5. /\ commit[B] = "old" /\ db[B] \in {"standby", "frozen"} /\ job[B].seq <= j.seq
      /\ \/ Idle(j) /\ Quiet(B) /\ (Kept(j) => db[B] = "frozen")
         \/ Asks(j) /\ RunsAtB /\ DoneAtB /\ HeardFromB
  BY <1>1, <1>3, <1>4 DEF FallInv, SequentialKept, Halts
<1>6. j \in Job /\ job[B] \in Job /\ j.waitSeq <= j.seq /\ j.seq \in Nat /\ j.waitSeq \in Nat /\ job[B].seq \in Nat
  BY Servers DEF JobInv, JobTypes, Book, JobsFit, Job
<1>7. /\ done[B] # None => done[B].seq \in Nat /\ done[B].seq <= job[B].seq
      /\ running[B] # None => running[B].seq \in Nat
  BY Servers DEF JobInv, OpTypes, Book, NumbersFit, Ack, Task
<1>8. ASSUME NEW i \in DOMAIN acks'[A]
      PROVE  /\ \E k \in DOMAIN acks[A] : acks'[A][i] = acks[A][k]
             /\ acks'[A][i].seq \in Nat /\ acks'[A][i].seq <= j.seq
  <2>1. PICK k \in DOMAIN acks[A] : acks'[A][i] = acks[A][k]
    BY <1>1, <1>8, ConductHears
  <2>2. acks[A] \in Seq(Ack) /\ acks[A][k].seq <= j.seq
    BY <2>1, Servers DEF JobInv, OpTypes, Book, NumbersFit
  <2>3. acks[A][k] \in Ack
    BY <2>1, <2>2
  <2> QED
    BY <2>1, <2>2, <2>3 DEF Ack
<1>9. job'[B].seq <= job'[A].seq
  BY <1>2, <1>3, <1>5, <1>6
<1>10. r.to # B /\ running[B] = None => Quiet(B)'
  BY <1>2 DEF Quiet
<1>11. CASE Idle(j) /\ Idle(r.j) /\ r.to # B /\ (Kept(r.j) => Kept(j))
  <2>1. Quiet(B) /\ (Kept(j) => db[B] = "frozen")
    BY <1>5, <1>11 DEF Idle, Asks
  <2>2. Quiet(B)'
    BY <1>10, <1>11, <2>1 DEF Quiet
  <2> QED
    BY <1>1, <1>2, <1>5, <1>9, <1>11, <2>1, <2>2 DEF SequentialKept, Idle, Kept
<1>12. CASE r.op # None /\ Asks(r.j) /\ (Idle(j) \/ (Asks(j) /\ r.op = "thaw"))
  <2>1. r.j.waitSeq = j.seq + 1 /\ r.j.waitOp = r.op
    BY <1>3, <1>12 DEF Sends
  <2>2. DoneAtB'
    BY <1>1, <1>2, <1>5, <1>6, <1>7, <2>1 DEF DoneAtB
  <2>3. HeardFromB'
    BY <1>2, <1>6, <1>8, <2>1 DEF HeardFromB, Answered
  <2>4. CASE Idle(j)
    <3>1. running[B] = None
      BY <1>5, <2>4 DEF Idle, Asks, Quiet
    <3>2. RunsAtB'
      BY <1>2, <3>1 DEF RunsAtB
    <3> QED
      BY <1>1, <1>2, <1>5, <1>9, <1>12, <2>2, <2>3, <3>2 DEF SequentialKept, Asks
  <2>5. CASE Asks(j) /\ r.op = "thaw"
    <3>1. RunsAtB
      BY <1>5, <2>5 DEF Idle, Asks
    <3>2. running[B] # None => running[B].op \in {"freeze", "thaw"} /\ running[B].seq <= j.waitSeq
      BY <3>1 DEF RunsAtB
    <3>3. RunsAtB'
      BY <1>2, <1>6, <1>7, <2>1, <2>5, <3>2 DEF RunsAtB
    <3> QED
      BY <1>1, <1>2, <1>5, <1>9, <1>12, <2>2, <2>3, <3>3 DEF SequentialKept, Asks
  <2> QED
    BY <1>12, <2>4, <2>5
<1>13. CASE Asks(j) /\ Asks(r.j) /\ r.op = None /\ r.j.waitOp = j.waitOp /\ r.j.waitSeq = j.waitSeq
  <2>1. RunsAtB /\ DoneAtB /\ HeardFromB
    BY <1>5, <1>13 DEF Idle, Asks
  <2>2. mail'[B] # None => mail'[B].op = None
    BY <1>2, <1>13
  <2>3. RunsAtB'
    BY <1>2, <1>13, <2>1, <2>2 DEF RunsAtB
  <2>4. DoneAtB'
    BY <1>1, <1>2, <1>13, <2>1 DEF DoneAtB, FrozenAtB
  <2>5. HeardFromB'
    <3> SUFFICES ASSUME NEW i \in DOMAIN acks'[A], Answered(acks[A][i])'
                 PROVE  Quiet(B)' /\ FrozenAtB(acks[A][i])'
      BY DEF HeardFromB
    <3>1. PICK k \in DOMAIN acks[A] : acks'[A][i] = acks[A][k]
      BY <1>8
    <3>2. Answered(acks[A][k])
      BY <1>2, <1>13, <3>1 DEF Answered
    <3>3. Quiet(B) /\ FrozenAtB(acks[A][k])
      BY <2>1, <3>2 DEF HeardFromB
    <3> QED
      BY <1>1, <1>2, <1>13, <2>2, <3>1, <3>3 DEF Quiet, FrozenAtB
  <2> QED
    BY <1>1, <1>2, <1>5, <1>9, <1>13, <2>3, <2>4, <2>5 DEF SequentialKept, Asks
<1>14. CASE /\ Asks(j) /\ Idle(r.j) /\ r.to # B /\ AckOf(j, o) # None /\ AckOf(j, o).ok
            /\ Kept(r.j) => j.waitOp = "freeze"
  <2>1. HeardFromB
    BY <1>5, <1>14 DEF Idle, Asks
  <2>2. o \in Look /\ (o.ack # None => acks[A] # <<>> /\ o.ack = acks[A][1])
    BY <1>1 DEF Conducted, Looks
  <2>3. /\ o.ack # None /\ o.ack.ok /\ o.ack.op = j.waitOp /\ o.ack.node = B /\ o.ack.seq >= j.waitSeq
    BY <1>6, <1>14, <2>2, AckOfIs DEF Asks
  <2>4. 1 \in DOMAIN acks[A] /\ o.ack = acks[A][1]
    <3>1. acks[A] \in Seq(Ack)
      BY Servers DEF JobInv, OpTypes
    <3> QED
      BY <2>2, <2>3, <3>1
  <2>5. Answered(acks[A][1]) /\ acks[A][1].ok
    BY <2>3, <2>4 DEF Answered
  <2>6. Quiet(B) /\ FrozenAtB(acks[A][1])
    BY <2>1, <2>4, <2>5 DEF HeardFromB
  <2>7. Kept(r.j) => db[B] = "frozen"
    BY <1>14, <2>5, <2>6 DEF FrozenAtB
  <2>8. Quiet(B)'
    BY <1>10, <1>14, <2>6 DEF Quiet
  <2>9. Idle(r.j) /\ (Kept(r.j) => db'[B] = "frozen")
    BY <1>1, <1>14, <2>7
  <2> QED
    BY <1>1, <1>2, <1>5, <1>9, <2>8, <2>9 DEF SequentialKept, Idle, Kept
<1>15. "thaw" # None
  BY NoneIs DEF Op
<1> QED
  BY <1>4, <1>11, <1>12, <1>13, <1>14, <1>15 DEF Halts

LEMMA ConductFall ==
  ASSUME JobInv, FallInv, NEW n \in Server, Conduct(n)
  PROVE  FallInv'
<1>1. active = n /\ ~Ended(job[n]) /\ mail[Other(n)] = None
  BY TurnIs
<1>2. PICK o, r : /\ Conducted(n, o, r) /\ Turn(job[n], o, r)
                  /\ (o.takeover => Ended(r.j)) /\ (o.selfOK => commit[n] = Wanted(n))
  BY TurnIs
<1>3. Exact'
  BY <1>1, <1>2, ConductSends DEF FallInv
<1>4. RollingKept'
  BY <1>1, <1>2, ConductRolling
<1>5. SequentialKept'
  BY <1>1, <1>2, ConductSequential
<1> QED
  BY <1>3, <1>4, <1>5 DEF FallInv

\* Sending again says nothing new.
LEMMA ResendFall ==
  ASSUME JobInv, FallInv, NEW n \in Server, Resend(n)
  PROVE  FallInv'
<1> DEFINE j == job[n]
           m == Other(n)
           p == [op |-> j.waitOp, job |-> j]
           q == [op |-> None, job |-> j]
<1>1. /\ active = n /\ m \in Server /\ m # n /\ n = Other(m) /\ acks[n] = <<>>
      /\ job' = job /\ done' = done /\ active' = active /\ db' = db /\ commit' = commit
      /\ flags' = flags /\ cmd' = cmd
  BY Servers DEF Resend, world
<1>2. \/ /\ j.waitOp # None /\ j.waitNode = m /\ running[m] = None
         /\ mail' = [mail EXCEPT ![m] = p] /\ running' = running /\ acks' = acks
      \/ /\ j.waitOp # None /\ j.waitNode = n /\ mail' = mail
         /\ \A s \in Server : s # n => running'[s] = running[s]
      \/ mail' = [mail EXCEPT ![m] = q] /\ running' = running /\ acks' = acks
  BY DEF Resend, JobInv, OpTypes
<1>3. p.op = j.waitOp /\ p.job = j /\ q.op = None /\ q.job = j /\ j = job[n] /\ m = Other(n)
  OBVIOUS
<1> HIDE DEF j, m, p, q
<1>4. \A s \in Server : \/ mail'[s] = mail[s]
                        \/ s = m /\ mail'[s] = p /\ j.waitNode = m /\ running[m] = None
                        \/ s = m /\ mail'[s] = q
  BY <1>2 DEF JobInv, JobTypes
<1>5. Exact'
  BY <1>1, <1>3, <1>4 DEF FallInv, Exact
<1>6. \A s \in Server : s # n => running'[s] = running[s]
  BY <1>2
<1>7. RollingKept'
  <2> SUFFICES ASSUME job[A].kind = "rolling"
               PROVE  RollingKept'
    BY <1>1 DEF RollingKept
  <2>1. /\ \A s \in Server : job[s].waitNode = A => Released(job[s])
        /\ \/ active = B /\ (Past(job[B]) \/ flags[B].takeover)
           \/ active = A /\ cmd[A] = None /\ (Ended(job[A]) \/ flags[A].takeover)
           \/ /\ \A s \in Server : ~Released(job[s])
              /\ Quiet(A) /\ commit[A] = "old" /\ (active = B => db[A] = "frozen")
    BY DEF FallInv, RollingKept
  <2>2. CASE \/ active = B /\ (Past(job[B]) \/ flags[B].takeover)
             \/ active = A /\ cmd[A] = None /\ (Ended(job[A]) \/ flags[A].takeover)
    BY <1>1, <2>1, <2>2 DEF RollingKept
  <2>3. CASE /\ \A s \in Server : ~Released(job[s])
             /\ Quiet(A) /\ commit[A] = "old" /\ (active = B => db[A] = "frozen")
    <3>1. j.waitNode # A
      BY <1>3, <2>1, <2>3
    <3>2. running'[A] = None
      BY <1>2, <2>3, <3>1, Servers DEF Quiet
    <3>3. mail'[A] # None => mail'[A].op = None
      BY <1>3, <1>4, <2>3, <3>1, Servers DEF Quiet
    <3>4. Quiet(A)'
      BY <3>2, <3>3 DEF Quiet
    <3> QED
      BY <1>1, <2>1, <2>3, <3>4 DEF RollingKept
  <2> QED
    BY <2>1, <2>2, <2>3
<1>8. SequentialKept'
  <2> SUFFICES ASSUME job[A].kind = "sequential", n = A, Early(job[A]), ~flags[A].takeover
               PROVE  SequentialKept'
    BY <1>1 DEF SequentialKept
  <2>1. /\ commit[B] = "old" /\ db[B] \in {"standby", "frozen"} /\ job[B].seq <= job[A].seq
        /\ \/ Idle(job[A]) /\ Quiet(B) /\ (Kept(job[A]) => db[B] = "frozen")
           \/ Asks(job[A]) /\ RunsAtB /\ DoneAtB /\ HeardFromB
    BY <1>1 DEF FallInv, SequentialKept
  <2>2. m = B /\ running'[B] = running[B] /\ j = job[A]
    BY <1>3, <1>6, Servers
  <2>3. CASE Idle(job[A]) /\ Quiet(B) /\ (Kept(job[A]) => db[B] = "frozen")
    <3>1. mail'[B] = mail[B] \/ mail'[B] = q
      BY <1>4, <2>2, <2>3, Servers DEF Idle
    <3>2. Quiet(B)'
      BY <1>3, <2>2, <2>3, <3>1 DEF Quiet
    <3> QED
      BY <1>1, <2>1, <2>3, <3>2 DEF SequentialKept
  <2>4. CASE Asks(job[A]) /\ RunsAtB /\ DoneAtB /\ HeardFromB
    <3>1. j.waitNode = B /\ B # n
      BY <2>2, <2>4, Servers DEF Asks
    <3>2. acks'[A] = <<>>
      BY <1>1, <1>2, <3>1
    <3>3. HeardFromB'
      BY <3>2 DEF HeardFromB
    <3>4. RunsAtB'
      BY <1>1, <1>3, <1>4, <2>2, <2>4, Servers DEF RunsAtB
    <3>5. DoneAtB'
      BY <1>1, <2>2, <2>4 DEF DoneAtB, FrozenAtB
    <3> QED
      BY <1>1, <2>1, <2>4, <3>3, <3>4, <3>5 DEF SequentialKept
  <2> QED
    BY <2>1, <2>3, <2>4
<1> QED
  BY <1>5, <1>7, <1>8 DEF FallInv

\* A message brings the job of the active server and an order that fits it.
LEMMA ReceiveFall ==
  ASSUME JobInv, FallInv, NEW n \in Server, Receive(n)
  PROVE  FallInv'
<1> DEFINE m == Other(n)
           in == mail[n].job
           op == mail[n].op
           k == IF MirrorWins(job[n], in) THEN in ELSE job[n]
           t == [op |-> op, seq |-> in.waitSeq, from |-> m, sealed |-> in.sealed]
           known == done[n] # None /\ done[n].op = op /\ done[n].seq = in.waitSeq
           busy == running[n] # None
<1>1. /\ mail[n] # None /\ m \in Server /\ m # n /\ n = Other(m) /\ m = Other(n)
      /\ mail' = [mail EXCEPT ![n] = None] /\ job' = [job EXCEPT ![n] = k]
      /\ done' = done /\ active' = active /\ db' = db /\ commit' = commit /\ cmd' = cmd
      /\ flags'[A].takeover = flags[A].takeover /\ flags'[B].takeover = flags[B].takeover
  BY Servers DEF Receive, MirrorIn, world, JobInv, JobTypes, Flags
<1>2. /\ op # None => known \/ (busy => running[n].op = op /\ running[n].seq = in.waitSeq)
      /\ running' = IF op = None \/ known \/ busy THEN running ELSE [running EXCEPT ![n] = t]
      /\ acks' = IF op # None /\ known THEN [acks EXCEPT ![m] = Append(@, done[n])] ELSE acks
  BY DEF Receive
<1>3. t.op = op /\ t.seq = in.waitSeq
  OBVIOUS
<1>4. /\ mail[n] \in Letter /\ in \in Job /\ in.seq <= job[m].seq /\ n # active
      /\ (op # None => op = in.waitOp)
  BY <1>1 DEF JobInv, JobTypes, Letter, Book, MailFits
<1>5. in = job[m] /\ active = m /\ (k = in \/ k = job[n])
  BY <1>1, <1>4, Servers DEF FallInv, Exact, JobInv, WorldTypes
<1>6. /\ job'[n] = k /\ job'[m] = job[m] /\ mail'[n] = None /\ mail'[m] = mail[m]
      /\ running'[m] = running[m] /\ \A s \in Server : s = n \/ s = m
  BY <1>1, <1>2, Servers DEF JobInv, JobTypes, OpTypes
<1>7. running'[n] = IF op = None \/ known \/ busy THEN running[n] ELSE t
  BY <1>2 DEF JobInv, OpTypes
<1>8. op = mail[n].op
  OBVIOUS
<1> HIDE DEF m, in, op, k, t
<1>9. Exact'
  <2>1. mail[m] = None
    BY <1>1, <1>5 DEF JobInv, Book, MailFits
  <2> QED
    BY <1>6, <2>1 DEF Exact
<1>10. RollingKept'
  <2> SUFFICES ASSUME job'[A].kind = "rolling"
               PROVE  RollingKept'
    BY DEF RollingKept
  <2>1. job[A].kind = "rolling"
    BY <1>5, <1>6, Servers DEF JobInv, Book, JobsFit
  <2>2. /\ \A s \in Server : job[s].waitNode = A => Released(job[s])
        /\ \/ active = B /\ (Past(job[B]) \/ flags[B].takeover)
           \/ active = A /\ cmd[A] = None /\ (Ended(job[A]) \/ flags[A].takeover)
           \/ /\ \A s \in Server : ~Released(job[s])
              /\ Quiet(A) /\ commit[A] = "old" /\ (active = B => db[A] = "frozen")
    BY <2>1 DEF FallInv, RollingKept
  <2>3. \A s \in Server : job'[s] \in {job[n], job[m]}
    BY <1>5, <1>6
  <2>4. \A s \in Server : job'[s].waitNode = A => Released(job'[s])
    BY <1>1, <2>2, <2>3
  <2>5. CASE \/ active = B /\ (Past(job[B]) \/ flags[B].takeover)
             \/ active = A /\ cmd[A] = None /\ (Ended(job[A]) \/ flags[A].takeover)
    BY <1>1, <1>5, <1>6, <2>4, <2>5 DEF RollingKept, Past, Released, Ended
  <2>6. CASE /\ \A s \in Server : ~Released(job[s])
             /\ Quiet(A) /\ commit[A] = "old" /\ (active = B => db[A] = "frozen")
    <3>1. \A s \in Server : ~Released(job'[s])
      BY <1>1, <2>3, <2>6
    <3>2. Quiet(A)'
      <4>1. CASE n = A
        BY <1>1, <1>6, <1>7, <1>8, <2>6, <4>1 DEF Quiet
      <4>2. CASE m = A
        BY <1>6, <2>6, <4>2 DEF Quiet
      <4> QED
        BY <1>6, <4>1, <4>2, Servers
    <3> QED
      BY <1>1, <2>4, <2>6, <3>1, <3>2 DEF RollingKept, Released
  <2> QED
    BY <2>2, <2>5, <2>6
<1>11. SequentialKept'
  <2> SUFFICES ASSUME job'[A].kind = "sequential", active = A, Early(job'[A]), ~flags[A].takeover
               PROVE  SequentialKept'
    BY <1>1 DEF SequentialKept
  <2>1. m = A /\ n = B /\ job'[A] = job[A] /\ job[A] = in
    BY <1>5, <1>6, Servers
  <2>2. /\ commit[B] = "old" /\ db[B] \in {"standby", "frozen"} /\ job[B].seq <= job[A].seq
        /\ \/ Idle(job[A]) /\ Quiet(B) /\ (Kept(job[A]) => db[B] = "frozen")
           \/ Asks(job[A]) /\ RunsAtB /\ DoneAtB /\ HeardFromB
    BY <2>1 DEF FallInv, SequentialKept
  <2>3. job'[B].seq <= job'[A].seq
    BY <1>4, <1>5, <1>6, <2>1, <2>2
  <2>4. CASE Idle(job[A]) /\ Quiet(B) /\ (Kept(job[A]) => db[B] = "frozen")
    <3>1. Quiet(B)'
      BY <1>1, <1>6, <1>7, <1>8, <2>1, <2>4 DEF Quiet
    <3> QED
      BY <1>1, <2>1, <2>2, <2>3, <2>4, <3>1 DEF SequentialKept, Idle, Kept
  <2>5. CASE Asks(job[A]) /\ RunsAtB /\ DoneAtB /\ HeardFromB
    <3>1. job'[B].seq <= job'[A].seq /\ Asks(job[A])' /\ commit'[B] = "old" /\ db'[B] \in {"standby", "frozen"}
      BY <1>1, <2>1, <2>2, <2>3, <2>5 DEF Asks
    <3>2. CASE op = None
      <4>1. running'[B] = running[B] /\ mail'[B] = None /\ acks' = acks
        BY <1>2, <1>6, <1>7, <2>1, <3>2
      <4>2. RunsAtB'
        BY <2>1, <2>5, <4>1 DEF RunsAtB
      <4>3. DoneAtB'
        BY <1>1, <2>1, <2>5, <4>1 DEF DoneAtB, FrozenAtB
      <4>4. HeardFromB'
        BY <1>1, <2>1, <2>5, <4>1 DEF HeardFromB, Answered, FrozenAtB, Quiet
      <4> QED
        BY <3>1, <4>2, <4>3, <4>4 DEF SequentialKept
    <3>3. CASE op # None /\ known
      <4>1. running[B] = None /\ FrozenAtB(done[B]) /\ done[B] \in Ack
        BY <1>4, <2>1, <2>5, <3>3, Servers DEF DoneAtB, JobInv, OpTypes
      <4>2. running'[B] = None /\ mail'[B] = None /\ Quiet(B)'
        BY <1>6, <1>7, <2>1, <3>3, <4>1 DEF Quiet
      <4>3. \A i \in DOMAIN acks'[A] : (\E l \in DOMAIN acks[A] : acks'[A][i] = acks[A][l]) \/ acks'[A][i] = done[B]
        <5>1. acks' = [acks EXCEPT ![A] = Append(@, done[B])] /\ A \in Server
          BY <1>2, <2>1, <3>3, Servers
        <5> QED
          BY <4>1, <5>1, Appended DEF JobInv
      <4>4. HeardFromB'
        <5> SUFFICES ASSUME NEW i \in DOMAIN acks'[A], Answered(acks[A][i])'
                     PROVE  FrozenAtB(acks[A][i])'
          BY <4>2 DEF HeardFromB
        <5>1. CASE acks'[A][i] = done[B]
          BY <1>1, <2>1, <4>1, <5>1 DEF FrozenAtB
        <5>2. CASE \E l \in DOMAIN acks[A] : acks'[A][i] = acks[A][l]
          <6>1. PICK l \in DOMAIN acks[A] : acks'[A][i] = acks[A][l]
            BY <5>2
          <6>2. Answered(acks[A][l])
            BY <2>1, <6>1 DEF Answered
          <6> QED
            BY <1>1, <2>1, <2>5, <6>1, <6>2 DEF HeardFromB, FrozenAtB
        <5> QED
          BY <4>3, <5>1, <5>2
      <4>5. RunsAtB'
        BY <4>2 DEF RunsAtB
      <4>6. DoneAtB'
        BY <1>1, <2>1, <2>5, <4>2 DEF DoneAtB, FrozenAtB
      <4> QED
        BY <3>1, <4>4, <4>5, <4>6 DEF SequentialKept
    <3>4. CASE op # None /\ ~known
      <4>1. op = job[A].waitOp /\ mail[B].op # None /\ mail[B] # None
        BY <1>1, <1>4, <1>8, <2>1, <3>4
      <4>2. ~busy
        BY <1>2, <2>1, <2>5, <3>4, <4>1 DEF RunsAtB
      <4>3. running[B] = None /\ running'[B] = t /\ mail'[B] = None /\ acks' = acks
        BY <1>2, <1>6, <1>7, <2>1, <3>4, <4>2
      <4>4. RunsAtB'
        <5>1. job[A].waitSeq \in Nat
          BY <1>4, <2>1 DEF Job
        <5> QED
          BY <1>3, <2>1, <2>5, <4>1, <4>3, <5>1 DEF RunsAtB, Asks
      <4>5. DoneAtB'
        BY <1>1, <2>1, <2>5, <3>4, <4>1 DEF DoneAtB
      <4>6. HeardFromB'
        BY <2>1, <2>5, <4>1, <4>3 DEF HeardFromB, Answered, Quiet
      <4> QED
        BY <3>1, <4>4, <4>5, <4>6 DEF SequentialKept
    <3> QED
      BY <3>2, <3>3, <3>4
  <2> QED
    BY <2>2, <2>4, <2>5
<1> QED
  BY <1>9, <1>10, <1>11 DEF FallInv

\* The roles are swapped: A, left behind, is frozen.
LEMMA SwapFall ==
  ASSUME JobInv, FallInv, NEW n \in Server, Swap(n)
  PROVE  FallInv'
<1>1. /\ active = n /\ cmd[n] \in {"swap", "freeze"} /\ active' = Other(n)
      /\ job' = job /\ mail' = mail /\ running' = running /\ commit' = commit
      /\ db' = [db EXCEPT ![n] = IF cmd[n] = "swap" THEN "standby" ELSE "frozen", ![Other(n)] = "primary"]
  BY DEF Swap, Becomes
<1>2. cmd[n] = "swap" => job[A].kind = "swap"
  BY NoneIs DEF JobInv, Book, CommandsFit
<1>3. cmd[n] = "freeze" => job[A].kind = "rolling" /\ n = A
  BY NoneIs DEF JobInv, Book, CommandsFit
<1>4. Exact'
  BY <1>1 DEF FallInv, Exact
<1>5. job[A].kind # "sequential"
  BY <1>1, <1>2, <1>3
<1>6. CASE job[A].kind = "rolling"
  <2>1. cmd[n] = "freeze" /\ n = A /\ active' = B
    BY <1>1, <1>2, <1>3, <1>6, Servers
  <2>2. db'[A] = "frozen"
    BY <1>1, <2>1, Servers DEF JobInv, WorldTypes
  <2>3. RollingKept'
    BY <1>1, <1>6, <2>1, <2>2, NoneIs, Servers DEF FallInv, RollingKept, Quiet
  <2> QED
    BY <1>1, <1>4, <1>5, <2>3 DEF FallInv, SequentialKept
<1>7. CASE job[A].kind # "rolling"
  BY <1>1, <1>4, <1>5, <1>7 DEF FallInv, RollingKept, SequentialKept
<1> QED
  BY <1>6, <1>7

\* The new data is given up: the job turns back, and its first server is left.
LEMMA AbandonFall ==
  ASSUME JobInv, FallInv, NEW n \in Server, Abandon(n)
  PROVE  FallInv'
<1>1. /\ active = n /\ cmd[n] = "abandon" /\ active' = Other(n)
      /\ job' = job /\ mail' = mail /\ running' = running /\ commit' = commit
  BY DEF Abandon, Becomes
<1>2. ~flags[n].takeover /\ job[n].phase = "Rollback" /\ n = job[n].first /\ job[n].kind = job[A].kind /\ Form(job[n])
  BY <1>1, NoneIs DEF JobInv, Book, CommandsFit, JobsFit
<1>3. (job[A].kind = "sequential" => n = A) /\ (job[A].kind = "rolling" => n = B)
  BY <1>2 DEF Form, First
<1>4. Exact'
  BY <1>1 DEF FallInv, Exact
<1>5. SequentialKept'
  BY <1>1, <1>3, Servers DEF SequentialKept
<1>6. RollingKept'
  BY <1>1, <1>2, <1>3, Servers DEF FallInv, RollingKept, Quiet, Past, Released, Ended
<1> QED
  BY <1>4, <1>5, <1>6 DEF FallInv

\* A server that takes over ends its job, or has none.
LEMMA TakeOverFall ==
  ASSUME JobInv, FallInv, NEW n \in Server, TakeOver(n)
  PROVE  FallInv'
<1>1. /\ active = Other(n) /\ active' = n /\ job' = job /\ mail' = [s \in Server |-> None]
      /\ cmd' = [cmd EXCEPT ![Other(n)] = None] /\ flags'[n].takeover = ~Ended(job[n])
  BY Servers DEF TakeOver, JobInv, JobTypes, Flags
<1>2. Exact'
  BY <1>1 DEF Exact
<1>3. SequentialKept'
  BY <1>1 DEF SequentialKept, Early, Ended
<1>4. n = A \/ n = B
  BY DEF Server
<1>5. n = A => cmd'[A] = None
  BY <1>1, Servers DEF JobInv, JobTypes, Book, CommandsFit
<1>6. RollingKept'
  BY <1>1, <1>4, <1>5 DEF FallInv, RollingKept, Past, Released, Ended
<1> QED
  BY <1>2, <1>3, <1>6 DEF FallInv

\* A job that was just created has asked for nothing.
LEMMA InitFall ==
  ASSUME UpdateInit
  PROVE  FallInv
<1>1. PICK k \in Kinds, p \in {"Ask", "Entry"} :
        job = [n \in Server |-> CASE n = A /\ p = "Ask" -> NewJob(k, p)
                                  [] n = A /\ p = "Entry" -> [NewJob(k, p) EXCEPT !.seq = 2]
                                  [] n = B -> [NewJob(k, p) EXCEPT !.phase = "Failed", !.seq = 0]]
  BY DEF UpdateInit
<1> DEFINE z == NewJob(k, p)
           x == [z EXCEPT !.seq = 2]
           y == [z EXCEPT !.phase = "Failed", !.seq = 0]
<1>2. z = [phase |-> p, seq |-> 1, first |-> IF k = "sequential" THEN A ELSE B,
           second |-> IF k = "sequential" THEN B ELSE A, kind |-> k, lock |-> "none",
           waitOp |-> None, waitNode |-> None, waitSeq |-> 0, waitOK |-> FALSE,
           attempts |-> 0, faulty |-> FALSE, freezeAcked |-> FALSE, frozenSynced |-> FALSE,
           sealed |-> FALSE, unprotected |-> FALSE, rollbackSent |-> FALSE,
           installSeen |-> FALSE, freezeSent |-> FALSE, help |-> FALSE]
  BY DEF NewJob
<1>3. /\ z.phase = p /\ z.seq = 1 /\ z.waitNode = None
      /\ x.phase = p /\ x.seq = 2 /\ x.waitNode = None
      /\ y.phase = "Failed" /\ y.seq = 0 /\ y.waitNode = None
  BY <1>2
<1>4. job[A] \in {x, z} /\ job[B] = y
  <2>1. A # B /\ A \in Server /\ B \in Server
    BY Servers
  <2> HIDE DEF x, y, z
  <2>2. job = [n \in Server |-> CASE n = A /\ p = "Ask" -> z
                                  [] n = A /\ p = "Entry" -> x
                                  [] n = B -> y]
    BY <1>1 DEF x, y, z
  <2> QED
    BY <2>1, <2>2
<1> HIDE DEF x, y, z
<1>5. /\ job[A].phase \in {"Ask", "Entry"} /\ job[A].seq \in {1, 2} /\ job[A].waitNode = None
      /\ job[B].phase = "Failed" /\ job[B].seq = 0 /\ job[B].waitNode = None
  BY <1>3, <1>4
<1>6. /\ running = [n \in Server |-> None] /\ mail = [n \in Server |-> None]
      /\ active = A /\ db = [n \in Server |-> IF n = A THEN "primary" ELSE "standby"]
      /\ commit = [n \in Server |-> "old"]
  BY DEF UpdateInit
<1>7. \A n \in Server : Quiet(n) /\ mail[n] = None /\ commit[n] = "old"
  BY <1>6 DEF Quiet
<1>8. None # A /\ None # B /\ \A n \in Server : n = A \/ n = B
  BY NoneIs DEF Server
<1>9. Exact
  BY <1>7 DEF Exact
<1>10. RollingKept
  BY <1>5, <1>6, <1>7, <1>8, Servers DEF RollingKept, Released
<1>11. db[B] = "standby"
  BY <1>6, Servers
<1>12. job[B].seq <= job[A].seq
  BY <1>5
<1>13. SequentialKept
  BY <1>5, <1>7, <1>8, <1>11, <1>12, Servers DEF SequentialKept, Idle, Kept
<1> QED
  BY <1>9, <1>10, <1>13 DEF FallInv

\* Every step keeps this invariant, too, as long as a take-over is remembered.
LEMMA StepFall ==
  ASSUME JobInv, FallInv, [UpdateNext]_updateVars, [Remembered]_updateVars
  PROVE  FallInv'
<1>1. Remembered
  BY DEF Remembered, updateVars
<1>2. cmd \in [Server -> {"swap", "freeze", "abandon", None}]
  BY DEF JobInv, JobTypes
<1>3. CASE UpdateNext
  <2>1. PICK n \in Server :
          \/ Conduct(n) \/ Resend(n) \/ Abort(n) \/ Confirm(n)
          \/ Receive(n) \/ Lose(n) \/ Heartbeat(n) \/ Run(n)
          \/ Swap(n) \/ Abandon(n) \/ PromoteLate(n) \/ SwapFails(n) \/ TakeOver(n)
          \/ Rejoin(n) \/ Restart(n) \/ Write(n) \/ Replicate(n)
    BY <1>3 DEF UpdateNext
  <2>2. CASE Abort(n) \/ Confirm(n) \/ Heartbeat(n) \/ SwapFails(n) \/ Write(n) \/ Replicate(n)
    <3>1. UNCHANGED <<job, active, running, done, acks, mail, commit, db>>
      BY <2>2 DEF Abort, Confirm, Heartbeat, SwapFails, Write, Replicate, world, memory
    <3>2. cmd'[A] \in {cmd[A], None}
      BY <1>2, <2>2, Servers DEF Abort, Confirm, Heartbeat, SwapFails, Write, Replicate
    <3> QED
      BY <1>1, <3>1, <3>2, IdleFall
  <2> QED
    BY <1>1, <2>1, <2>2, ConductFall, ResendFall, ReceiveFall, LoseFall, RunFall, SwapFall, AbandonFall,
       PromoteLateFall, TakeOverFall, RejoinFall, RestartFall
<1>4. CASE UNCHANGED updateVars
  BY <1>1, <1>4, IdleFall DEF updateVars
<1> QED
  BY <1>3, <1>4

\* While the new program is being verified, the way back is whole.
LEMMA FallKept ==
  ASSUME JobInv, FallInv
  PROVE  FallbackKept
<1> SUFFICES ASSUME NEW n \in Server, active = n, job[n].first = n, job[n].phase = "VerifyNew",
                    job[n].kind # "swap", ~flags[n].takeover
             PROVE  LET m == Other(n) IN db[m] = "frozen" /\ commit[m] = "old" /\ data[m] = acked
  BY DEF FallbackKept
<1>1. /\ job[n] \in Job /\ Form(job[n]) /\ job[n].kind = job[A].kind
  BY DEF JobInv, JobTypes, Book, JobsFit
<1>2. job[n].kind \in {"rolling", "sequential"}
  BY <1>1, KindsAssumption DEF Job
<1>3. CASE job[n].kind = "rolling"
  <2>1. n = B
    BY <1>1, <1>3, Sides
  <2>2. ~Past(job[B]) /\ active # A
    BY <2>1, Servers DEF Past, Released, Ended
  <2>3. commit[A] = "old" /\ db[A] = "frozen"
    BY <1>1, <1>3, <2>1, <2>2 DEF FallInv, RollingKept
  <2>4. data[A] = acked
    BY <1>1, <1>3, <2>1, <2>3 DEF JobInv, WayBackComplete, NoWayBack, Calm, Ended, BeforeLock
  <2> QED
    BY <2>1, <2>3, <2>4, Servers
<1>4. CASE job[n].kind = "sequential"
  <2>1. n = A
    BY <1>1, <1>4, Sides
  <2>2. commit[B] = "old" /\ db[B] = "frozen" /\ job[A].freezeAcked
    BY <1>4, <2>1 DEF FallInv, SequentialKept, Early, Idle, Asks, Kept
  <2>3. Held(job[A])
    BY <1>1, <1>4, <2>1, <2>2 DEF Held, Form
  <2>4. data[B] = acked
    BY <2>1, <2>2, <2>3 DEF JobInv, CopyComplete, NotFrozen
  <2> QED
    BY <2>1, <2>2, <2>4, Servers
<1> QED
  BY <1>2, <1>3, <1>4

\* While the new program is being verified under the lock, the other server
\* keeps the way back: the old program and a frozen database with every write.
\* It holds for every number of faults, as long as a server that took over does
\* not forget it before its job has ended (Remembered): the mark is in memory
\* only, and a restart before the next saved step takes it away.
THEOREM FallbackIsKept == UpdateSpec /\ [][Remembered]_updateVars => []FallbackKept
<1>1. UpdateInit => JobInv /\ FallInv
  BY InitIs, InitFall
<1>2. JobInv /\ FallInv /\ [UpdateNext]_updateVars /\ [Remembered]_updateVars => (JobInv /\ FallInv)'
  BY StepKeeps, StepFall
<1>3. JobInv /\ FallInv => FallbackKept
  BY FallKept
<1> QED
  BY <1>1, <1>2, <1>3, PTL DEF UpdateSpec
=============================================================================
