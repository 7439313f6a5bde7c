---------------------------- MODULE ActionQueue ----------------------------
(***************************************************************************)
(* How the decisions of the failover kernel reach PostgreSQL, pdh and the  *)
(* tunnel of one server (execute, enqueueActions, actionWorker in          *)
(* cmd/pdh-ha/daemon.go, pgactor.go).                                      *)
(*                                                                         *)
(* A tick puts its actions into a queue and waits when the queue is full;  *)
(* one worker carries them out, step by step, while further ticks decide.  *)
(* Each step may fail; the rest of its batch is then skipped.  Every 30 s  *)
(* reconcile runs in the same queue.                                       *)
(*                                                                         *)
(* The kernel's decisions are those of Failover, without its clocks.       *)
(***************************************************************************)
EXTENDS Naturals, Sequences

CONSTANTS QueueSize,      \* 16 in the code
          MaxDecisions,   \* bound: decisions of the kernel that cost actions
          MaxFailures     \* bound: steps that fail and restarts of pdh-ha

ASSUME QueueAssumption ==
  QueueSize \in Nat \ {0} /\ MaxDecisions \in Nat /\ MaxFailures \in Nat

VARIABLES
  role, term,   \* Persisted
  handing,      \* HandoverPending: "no", "demoting", "ready"
  doneTerm, failedTerm, \* demoteDone, demoteFailed
  partner,      \* the partner's role: "passive" or "active"
  outbox,       \* actions of the tick that waits for the queue
  queue,        \* actQ
  task,          \* what the worker does: the action and the steps left
  failedBatch,  \* the batch whose rest is skipped
  pgUp,         \* PostgreSQL: "primary", "standby", "stopped"
  readOnly,     \* default_transaction_read_only in the configuration
  signal,       \* standby.signal
  pdh, tunnel,  \* the services
  refused,      \* an action other than a demotion failed
  decisions, errors, reboots

queueVars == <<role, term, handing, doneTerm, failedTerm, partner, outbox, queue, task,
               failedBatch, pgUp, readOnly, signal, pdh, tunnel, refused,
               decisions, errors, reboots>>

kernel == <<role, term, handing, partner>>
server == <<pgUp, readOnly, signal, pdh, tunnel>>

Idle == [kind |-> "none", batch |-> 0, term |-> 0, steps |-> <<>>]
Writable == pgUp = "primary" /\ ~readOnly

QueueInit ==
  /\ role = "active" /\ term = 1 /\ handing = "no" /\ doneTerm = 0 /\ failedTerm = 0
  /\ partner = "passive" /\ outbox = <<>> /\ queue = <<>> /\ task = Idle /\ failedBatch = 0
  /\ pgUp = "primary" /\ readOnly = FALSE /\ signal = FALSE /\ pdh = TRUE /\ tunnel = TRUE
  /\ refused = FALSE /\ decisions = 0 /\ errors = 0 /\ reboots = 0

-----------------------------------------------------------------------------
(* The kernel, one tick at a time.  A tick that waits in execute holds up   *)
(* the next one.                                                            *)

\* The tick's actions: a with this term, then the address, which does nothing.
Decide(a) ==
  /\ outbox = <<>> /\ decisions < MaxDecisions /\ decisions' = decisions + 1
  /\ LET act(kind) == [kind |-> kind, batch |-> decisions + 1, term |-> term']
     IN outbox' = <<act(a), act("address")>>

NoAction == outbox = <<>> /\ UNCHANGED <<outbox, decisions>>

world0 == <<doneTerm, failedTerm, queue, task, failedBatch, server, refused, errors, reboots>>

Swap0(kind) ==
  /\ role = "active" /\ partner = "passive"
  /\ role' = "passive" /\ handing' = "demoting" /\ UNCHANGED <<term, partner, world0>>
  /\ Decide(kind)

\* Failed or too slow: back to active.
SwapBack0 ==
  /\ handing = "demoting" /\ (failedTerm = term \/ doneTerm # term)
  /\ role' = "active" /\ handing' = "no" /\ UNCHANGED <<term, partner, world0>>
  /\ Decide("unfence")

DemoteSeen ==
  /\ handing = "demoting" /\ doneTerm = term /\ failedTerm # term
  /\ handing' = "ready" /\ UNCHANGED <<role, term, partner, world0>>
  /\ NoAction

\* The partner takes over, does not, or nobody knows.
HandoverEnds ==
  /\ handing = "ready" /\ handing' = "no" /\ UNCHANGED world0
  /\ \/ partner' = "active" /\ term' = term + 1 /\ UNCHANGED role /\ NoAction
     \/ partner' = partner /\ term' = term + 1 /\ UNCHANGED role /\ NoAction
     \/ partner' = partner /\ term' = term /\ role' = "active" /\ Decide("unfence")

Lost ==
  /\ role = "active" /\ role' = "fenced" /\ UNCHANGED <<term, handing, partner, world0>>
  /\ Decide("fence")

Back ==
  /\ role = "fenced" /\ partner = "passive"
  /\ role' = "active" /\ UNCHANGED <<term, handing, partner, world0>>
  /\ Decide("unfence")

PartnerTakesOver ==
  /\ role = "fenced" /\ partner = "passive" /\ partner' = "active"
  /\ UNCHANGED <<role, term, handing, world0>> /\ NoAction

AdoptHigherTerm ==
  /\ role = "fenced" /\ partner = "active"
  /\ role' = "rejoin" /\ term' = term + 1 /\ UNCHANGED <<handing, partner, world0>>
  /\ Decide("rejoin")

RejoinEnds ==
  /\ role = "rejoin" /\ role' = "passive" /\ UNCHANGED <<term, handing, partner, world0>> /\ NoAction

Promoted ==
  /\ role = "passive" /\ handing = "no"
  /\ role' = "active" /\ term' = term + 1 /\ partner' = "passive" /\ UNCHANGED <<handing, world0>>
  /\ Decide("promote")

\* boot: an active server that does not see its partner waits fenced.
Reboot ==
  /\ errors + reboots < MaxFailures /\ reboots' = reboots + 1
  /\ outbox' = <<>> /\ queue' = <<>> /\ task' = Idle /\ failedBatch' = 0
  /\ doneTerm' = 0 /\ failedTerm' = 0 /\ handing' = "no"
  /\ UNCHANGED <<role, term, partner, server, refused, decisions, errors>>

Boot ==
  /\ reboots > 0 /\ role \in {"active", "fenced"} /\ queue = <<>> /\ task = Idle
  /\ UNCHANGED <<term, handing, partner, world0>>
  /\ \/ partner = "passive" /\ role' = "active" /\ Decide("unfence")
     \/ role' = "fenced" /\ Decide("fence")

Kernel0 ==
  \/ \E k \in {"demote", "demote_freeze", "abandon"} : Swap0(k)
  \/ SwapBack0 \/ DemoteSeen \/ HandoverEnds \/ Lost \/ Back \/ PartnerTakesOver
  \/ AdoptHigherTerm \/ RejoinEnds \/ Promoted \/ Boot

\* Mutant: does not look whether there is room.
Enqueue_Full ==
  /\ outbox # <<>>
  /\ queue' = Append(queue, Head(outbox)) /\ outbox' = Tail(outbox)
  /\ UNCHANGED <<kernel, doneTerm, failedTerm, task, failedBatch, server, refused, decisions, errors, reboots>>

\* enqueueActions
Enqueue ==
  /\ outbox # <<>> /\ Len(queue) < QueueSize
  /\ queue' = Append(queue, Head(outbox)) /\ outbox' = Tail(outbox)
  /\ UNCHANGED <<kernel, doneTerm, failedTerm, task, failedBatch, server, refused, decisions, errors, reboots>>

\* maybeReconcileLocked: one at a time, from a goroutine of its own.
Reconcile ==
  /\ \A i \in DOMAIN queue : queue[i].kind # "reconcile"
  /\ task.kind # "reconcile" /\ Len(queue) < QueueSize
  /\ queue' = Append(queue, [kind |-> "reconcile", batch |-> 0, term |-> term])
  /\ UNCHANGED <<kernel, doneTerm, failedTerm, outbox, task, failedBatch, server, refused, decisions, errors, reboots>>

-----------------------------------------------------------------------------
(* The worker. *)

\* Mutant: the services only.
Fence_Services == <<"servicesOff">>

Fence == <<"servicesOff", "readOnly">>
Unfence == <<"startFrozen", "writable", "servicesOn">>

\* Mutant: leaves a database that can be written alone.
ReconcileSteps_Lenient ==
  CASE role = "active" -> IF Writable THEN <<"servicesOn">> ELSE <<>>
    [] role # "active" /\ pgUp = "standby" -> <<"tunnelOff", "pdhOn">>
    [] OTHER -> <<"tunnelOff", "pdhOff">>

\* reconcile, by the role it finds when it starts: it only ever closes.
ReconcileSteps ==
  CASE role = "active" -> IF Writable THEN <<"servicesOn">> ELSE <<>>
    [] role # "active" /\ pgUp = "standby" -> <<"tunnelOff", "pdhOn">>
    [] role # "active" /\ Writable -> <<"tunnelOff">> \o Fence
    [] OTHER -> <<"tunnelOff", "pdhOff">>

Steps(kind) ==
  CASE kind = "demote" -> <<"push">> \o Fence \o <<"caughtUp", "stop", "signal", "start">>
    [] kind = "demote_freeze" ->
         IF pgUp = "stopped" THEN <<>> ELSE <<"push">> \o Fence \o <<"caughtUp", "stop">>
    [] kind = "abandon" -> <<"servicesOff", "stop">>
    [] kind = "fence" -> Fence
    [] kind = "unfence" -> Unfence
    [] kind = "promote" ->
         (IF pgUp = "stopped" THEN <<"start">> ELSE <<>>)
         \o (IF pgUp = "stopped" /\ ~signal THEN <<>> ELSE <<"promotePG">>)
         \o <<"writable", "servicesOn">>
    [] kind = "rejoin" ->
         IF pgUp = "standby" THEN <<"servicesOff">> ELSE <<"servicesOff", "stop", "copy", "signal", "start">>
    [] kind = "address" -> <<>>
    [] kind = "reconcile" -> ReconcileSteps

\* Mutant: the rest of a failed batch stays at the head of the queue.
Take_Stuck ==
  /\ task.kind = "none" /\ queue # <<>>
  /\ Head(queue).kind = "reconcile" \/ Head(queue).batch # failedBatch
  /\ queue' = Tail(queue)
  /\ LET q == Head(queue)
     IN task' = [kind |-> q.kind, batch |-> q.batch, term |-> q.term, steps |-> Steps(q.kind)]
  /\ UNCHANGED <<kernel, doneTerm, failedTerm, outbox, failedBatch, server, refused, decisions, errors, reboots>>

Take ==
  /\ task.kind = "none" /\ queue # <<>> /\ queue' = Tail(queue)
  /\ LET q == Head(queue)
     IN IF q.kind # "reconcile" /\ q.batch = failedBatch THEN UNCHANGED task
        ELSE task' = [kind |-> q.kind, batch |-> q.batch, term |-> q.term, steps |-> Steps(q.kind)]
  /\ UNCHANGED <<kernel, doneTerm, failedTerm, outbox, failedBatch, server, refused, decisions, errors, reboots>>

Services(p, t) == pdh' = p /\ tunnel' = t
PG(up, ro, sig) == pgUp' = up /\ readOnly' = ro /\ signal' = sig
Started == IF signal THEN "standby" ELSE "primary"

\* What a step does.  fence leaves a database alone that does not write.
Effect(s) ==
  CASE s = "servicesOff" -> Services(FALSE, FALSE) /\ PG(pgUp, readOnly, signal)
    [] s = "servicesOn" -> Services(TRUE, TRUE) /\ PG(pgUp, readOnly, signal)
    [] s = "pdhOn" -> Services(TRUE, tunnel) /\ PG(pgUp, readOnly, signal)
    [] s = "pdhOff" -> Services(FALSE, tunnel) /\ PG(pgUp, readOnly, signal)
    [] s = "tunnelOff" -> Services(pdh, FALSE) /\ PG(pgUp, readOnly, signal)
    [] s = "readOnly" -> Services(pdh, tunnel) /\ PG(pgUp, readOnly \/ pgUp = "primary", signal)
    [] s = "writable" -> Services(pdh, tunnel) /\ PG(pgUp, FALSE, signal)
    [] s = "stop" -> Services(pdh, tunnel) /\ PG("stopped", readOnly, signal)
    [] s = "signal" -> Services(pdh, tunnel) /\ PG(pgUp, FALSE, TRUE)
    [] s = "start" ->
         Services(pdh, tunnel) /\ PG(IF pgUp = "stopped" THEN Started ELSE pgUp, readOnly, signal)
    [] s = "startFrozen" ->
         Services(pdh, tunnel) /\ PG(IF pgUp = "stopped" /\ ~signal THEN "primary" ELSE pgUp, readOnly, signal)
    [] s = "promotePG" -> Services(pdh, tunnel) /\ PG("primary", readOnly, FALSE)
    [] OTHER -> UNCHANGED server     \* push, caughtUp, copy

\* What a step needs: unfence and waitCaughtUp a primary, promote a standby.
Possible(s) ==
  CASE s = "caughtUp" -> pgUp = "primary"
    [] s = "writable" -> pgUp = "primary"
    [] s = "promotePG" -> pgUp = "standby"
    [] OTHER -> TRUE

Demotion == {"demote", "demote_freeze", "abandon"}

\* The end of an action; step waits for the result of a demotion.
Ends(ok) ==
  /\ task' = Idle
  /\ doneTerm' = IF task.kind \in Demotion /\ ok THEN task.term ELSE doneTerm
  /\ failedTerm' = IF task.kind \in Demotion /\ ~ok THEN task.term ELSE failedTerm
  /\ failedBatch' = IF ok \/ task.kind = "reconcile" THEN failedBatch ELSE task.batch
  /\ refused' = (refused \/ (~ok /\ task.kind \notin Demotion \cup {"reconcile"}))

DoStep ==
  /\ task.steps # <<>> /\ Possible(Head(task.steps))
  /\ Effect(Head(task.steps)) /\ task' = [task EXCEPT !.steps = Tail(@)]
  /\ UNCHANGED <<kernel, doneTerm, failedTerm, outbox, queue, failedBatch, refused, decisions, errors, reboots>>

\* A step fails.  A demotion whose partner has not caught up is taken back.
StepFails ==
  LET s == Head(task.steps)
  IN /\ task.steps # <<>>
     /\ IF Possible(s) THEN errors + reboots < MaxFailures /\ errors' = errors + 1 ELSE UNCHANGED errors
     /\ IF s = "caughtUp" /\ pgUp = "primary"
        THEN Services(TRUE, TRUE) /\ PG(pgUp, FALSE, signal) ELSE UNCHANGED server
     /\ Ends(FALSE)
     /\ UNCHANGED <<kernel, outbox, queue, decisions, reboots>>

Done ==
  /\ task.kind # "none" /\ task.steps = <<>> /\ Ends(TRUE)
  /\ UNCHANGED <<kernel, outbox, queue, server, decisions, errors, reboots>>

WorkerStep == Take \/ DoStep \/ StepFails \/ Done

QueueNext == Kernel0 \/ Reboot \/ Enqueue \/ Reconcile \/ WorkerStep

QueueFair ==
  /\ WF_queueVars(Enqueue) /\ WF_queueVars(WorkerStep)
  /\ WF_queueVars(Reconcile) /\ WF_queueVars((SwapBack0 \/ DemoteSeen))

QueueSpec == QueueInit /\ [][QueueNext]_queueVars /\ QueueFair

-----------------------------------------------------------------------------
(* Properties. *)

QueueTypeOK ==
  /\ role \in {"active", "fenced", "passive", "rejoin"} /\ term \in Nat
  /\ handing \in {"no", "demoting", "ready"} /\ partner \in {"passive", "active"}
  /\ pgUp \in {"primary", "standby", "stopped"} /\ Len(queue) <= QueueSize /\ Len(outbox) <= 2
  /\ {readOnly, signal, pdh, tunnel, refused} \subseteq BOOLEAN

\* Once every action is carried out the server does what its role says, however
\* roles changed meanwhile and wherever a demotion failed: active, the database
\* can be written and pdh runs; fenced, it cannot.
IdleAgrees ==
  outbox = <<>> /\ queue = <<>> /\ task.kind = "none" /\ ~refused /\ reboots = 0 =>
    /\ role = "active" => Writable /\ pdh
    /\ role = "fenced" => ~Writable

\* A server that is not active stops being written to and being reached through
\* the tunnel, whatever step failed or was lost in a restart.
OthersStop ==
  (role # "active" /\ (Writable \/ tunnel)) ~> (role = "active" \/ (~Writable /\ ~tunnel))

\* A tick that waits for room in the queue goes on.
TickGoesOn == outbox # <<>> ~> outbox = <<>>
=============================================================================
