------------------------- MODULE ActionQueue_proofs -------------------------
(* Theorems about ActionQueue, for any length of the queue and any number  *)
(* of decisions, failures and restarts.                                    *)
EXTENDS ActionQueue, SequenceTheorems, TLAPS

-----------------------------------------------------------------------------
(* Types.                                                                  *)

Main == {"demote", "demote_freeze", "abandon", "fence", "unfence", "promote", "rejoin"}
StepName == {"push", "servicesOff", "servicesOn", "readOnly", "caughtUp", "stop", "signal", "start",
             "startFrozen", "writable", "promotePG", "copy", "tunnelOff", "pdhOn", "pdhOff"}
Action == [kind : Main \cup {"address", "reconcile"}, batch : Nat, term : Nat]
Task == [kind : Main \cup {"address", "reconcile", "none"}, batch : Nat, term : Nat,
         steps : Seq(StepName)]

KernelInv ==
  /\ role \in {"active", "fenced", "passive", "rejoin"} /\ term \in Nat /\ decisions \in Nat
  /\ handing \in {"no", "demoting", "ready"} /\ partner \in {"passive", "active"}

ServerInv ==
  /\ pgUp \in {"primary", "standby", "stopped"} /\ readOnly \in BOOLEAN /\ signal \in BOOLEAN
  /\ pdh \in BOOLEAN /\ tunnel \in BOOLEAN

\* At most a main action and the address wait for the queue.
LinesInv ==
  /\ queue \in Seq(Action) /\ Len(queue) <= QueueSize
  /\ outbox \in Seq(Action) /\ Len(outbox) <= 2
  /\ Len(outbox) = 2 => /\ outbox[1].kind \in Main /\ outbox[1].batch = decisions
                        /\ outbox[2].kind = "address"
  /\ Len(outbox) = 1 => outbox[1].kind = "address"
  /\ task \in Task /\ failedBatch \in Nat /\ refused \in BOOLEAN /\ reboots \in Nat

QueueTypes == KernelInv /\ ServerInv /\ LinesInv

LEMMA QueueTypesInit == QueueInit => QueueTypes
<1> SUFFICES ASSUME QueueInit PROVE QueueTypes
  OBVIOUS
<1>1. KernelInv
  BY DEF QueueInit, KernelInv
<1>2. ServerInv
  BY DEF QueueInit, ServerInv
<1>3. LinesInv
  <2>1. <<>> \in Seq(Action) /\ Len(<<>>) = 0 /\ Idle \in Task
    BY DEF Idle, Task
  <2>2. 0 <= QueueSize /\ 0 \in Nat
    BY QueueAssumption
  <2>3. queue = <<>> /\ outbox = <<>> /\ task = Idle /\ failedBatch = 0 /\ refused = FALSE /\ reboots = 0
    BY DEF QueueInit
  <2>4. Len(queue) = 0 /\ Len(outbox) = 0 /\ queue \in Seq(Action) /\ outbox \in Seq(Action)
    BY <2>1, <2>3
  <2>5. task \in Task /\ failedBatch \in Nat /\ refused \in BOOLEAN /\ reboots \in Nat
    BY <2>1, <2>2, <2>3
  <2> QED
    BY <2>2, <2>4, <2>5 DEF LinesInv
<1> QED
  BY <1>1, <1>2, <1>3 DEF QueueTypes

\* The steps of an action.
LEMMA StepsTyped ==
  ASSUME NEW kind \in Main \cup {"address", "reconcile"}
  PROVE  Steps(kind) \in Seq(StepName)
<1> DEFINE C == \A s, t \in Seq(StepName) : s \o t \in Seq(StepName)
<1>1. C
  BY ConcatProperties
<1>2. /\ <<"push">> \in Seq(StepName) /\ <<"servicesOff", "readOnly">> \in Seq(StepName)
      /\ <<"caughtUp", "stop", "signal", "start">> \in Seq(StepName)
      /\ <<"caughtUp", "stop">> \in Seq(StepName) /\ <<>> \in Seq(StepName)
      /\ <<"servicesOff", "stop">> \in Seq(StepName)
      /\ <<"startFrozen", "writable", "servicesOn">> \in Seq(StepName)
      /\ <<"start">> \in Seq(StepName) /\ <<"promotePG">> \in Seq(StepName)
      /\ <<"writable", "servicesOn">> \in Seq(StepName) /\ <<"servicesOff">> \in Seq(StepName)
      /\ <<"servicesOff", "stop", "copy", "signal", "start">> \in Seq(StepName)
      /\ <<"servicesOn">> \in Seq(StepName) /\ <<"tunnelOff", "pdhOn">> \in Seq(StepName)
      /\ <<"tunnelOff">> \in Seq(StepName) /\ <<"tunnelOff", "pdhOff">> \in Seq(StepName)
  BY DEF StepName
<1>3. CASE kind = "demote"
  <2>1. Steps(kind) = (<<"push">> \o <<"servicesOff", "readOnly">>) \o <<"caughtUp", "stop", "signal", "start">>
    BY <1>3 DEF Steps, Fence
  <2>2. <<"push">> \o <<"servicesOff", "readOnly">> \in Seq(StepName)
    BY <1>1, <1>2
  <2> QED
    BY <1>1, <1>2, <2>1, <2>2
<1>4. CASE kind = "demote_freeze"
  <2>1. Steps(kind) \in {<<>>, (<<"push">> \o <<"servicesOff", "readOnly">>) \o <<"caughtUp", "stop">>}
    BY <1>4 DEF Steps, Fence
  <2>2. <<"push">> \o <<"servicesOff", "readOnly">> \in Seq(StepName)
    BY <1>1, <1>2
  <2>3. (<<"push">> \o <<"servicesOff", "readOnly">>) \o <<"caughtUp", "stop">> \in Seq(StepName)
    BY <1>1, <1>2, <2>2
  <2> QED
    BY <1>2, <2>1, <2>3
<1>5. CASE kind = "promote"
  <2>1. \E s \in {<<"start">>, <<>>}, t \in {<<>>, <<"promotePG">>} :
          Steps(kind) = (s \o t) \o <<"writable", "servicesOn">>
    BY <1>5 DEF Steps
  <2>2. \A s \in {<<"start">>, <<>>}, t \in {<<>>, <<"promotePG">>} : s \o t \in Seq(StepName)
    BY <1>1, <1>2
  <2>3. PICK s \in {<<"start">>, <<>>}, t \in {<<>>, <<"promotePG">>} :
          Steps(kind) = (s \o t) \o <<"writable", "servicesOn">>
    BY <2>1
  <2>4. s \o t \in Seq(StepName)
    BY <2>2
  <2>5. (s \o t) \o <<"writable", "servicesOn">> \in Seq(StepName)
    BY <1>1, <1>2, <2>4
  <2> QED
    BY <2>3, <2>5
<1>6. CASE kind = "reconcile"
  <2>1. Steps(kind) = ReconcileSteps
    BY <1>6 DEF Steps
  <2>2. ReconcileSteps \in {<<"servicesOn">>, <<>>, <<"tunnelOff", "pdhOn">>, <<"tunnelOff", "pdhOff">>,
                            <<"tunnelOff">> \o <<"servicesOff", "readOnly">>}
    BY DEF ReconcileSteps, Fence
  <2> QED
    BY <1>1, <1>2, <2>1, <2>2
<1>7. CASE kind \in {"abandon", "fence", "unfence", "rejoin", "address"}
  <2>1. Steps(kind) \in {<<"servicesOff", "stop">>, <<"servicesOff", "readOnly">>,
                         <<"startFrozen", "writable", "servicesOn">>, <<"servicesOff">>,
                         <<"servicesOff", "stop", "copy", "signal", "start">>, <<>>}
    BY <1>7 DEF Steps, Fence, Unfence
  <2> QED
    BY <1>2, <2>1
<1> QED
  BY <1>3, <1>4, <1>5, <1>6, <1>7 DEF Main

\* A tick of the kernel: nothing for the server and the same role, or the end of
\* a rejoin; or an action that suits the new role.
Rests ==
  /\ outbox = <<>> /\ UNCHANGED <<outbox, decisions>>
  /\ role' = role \/ (role = "rejoin" /\ role' = "passive")

Orders(k) ==
  /\ Decide(k)
  /\ role' = "active" => k \in {"unfence", "promote"}
  /\ role' = "fenced" => k = "fence"

LEMMA KernelSays ==
  ASSUME QueueTypes, Kernel0
  PROVE  /\ KernelInv' \/ ~(decisions' \in Nat)
         /\ UNCHANGED <<doneTerm, failedTerm, queue, task, failedBatch, server, refused, errors, reboots>>
         /\ Rests \/ \E k \in Main : Orders(k)
<1> USE DEF world0
<1>0. /\ role \in {"active", "fenced", "passive", "rejoin"} /\ term \in Nat /\ term + 1 \in Nat
      /\ handing \in {"no", "demoting", "ready"} /\ partner \in {"passive", "active"}
  BY DEF QueueTypes, KernelInv
<1>1. ASSUME NEW k \in {"demote", "demote_freeze", "abandon"}, Swap0(k)
      PROVE  /\ role' = "passive" /\ handing' = "demoting" /\ UNCHANGED <<term, partner, world0>> /\ Decide(k)
             /\ k \in Main
  BY <1>1 DEF Swap0, Main
<1>2. CASE \E k \in {"demote", "demote_freeze", "abandon"} : Swap0(k)
  BY <1>0, <1>1, <1>2 DEF KernelInv, Orders
<1>3. CASE SwapBack0
  BY <1>0, <1>3 DEF SwapBack0, KernelInv, Orders, Main
<1>4. CASE DemoteSeen
  BY <1>0, <1>4 DEF DemoteSeen, NoAction, KernelInv, Rests
<1>5. CASE HandoverEnds
  <2>1. CASE partner' \in {"active", partner} /\ term' = term + 1 /\ UNCHANGED role /\ NoAction
    BY <1>0, <1>5, <2>1 DEF HandoverEnds, NoAction, KernelInv, Rests
  <2>2. CASE partner' = partner /\ term' = term /\ role' = "active" /\ Decide("unfence")
    BY <1>0, <1>5, <2>2 DEF HandoverEnds, KernelInv, Orders, Main
  <2> QED
    BY <1>5, <2>1, <2>2 DEF HandoverEnds
<1>6. CASE Lost
  BY <1>0, <1>6 DEF Lost, KernelInv, Orders, Main
<1>7. CASE Back
  BY <1>0, <1>7 DEF Back, KernelInv, Orders, Main
<1>8. CASE PartnerTakesOver
  BY <1>0, <1>8 DEF PartnerTakesOver, NoAction, KernelInv, Rests
<1>9. CASE AdoptHigherTerm
  BY <1>0, <1>9 DEF AdoptHigherTerm, KernelInv, Orders, Main
<1>10. CASE RejoinEnds
  BY <1>0, <1>10 DEF RejoinEnds, NoAction, KernelInv, Rests
<1>11. CASE Promoted
  BY <1>0, <1>11 DEF Promoted, KernelInv, Orders, Main
<1>12. CASE Boot
  BY <1>0, <1>12 DEF Boot, KernelInv, Orders, Main
<1> QED
  BY <1>2, <1>3, <1>4, <1>5, <1>6, <1>7, <1>8, <1>9, <1>10, <1>11, <1>12 DEF Kernel0

\* What a decision puts into the outbox.
LEMMA WhatIsDecided ==
  ASSUME QueueTypes, NEW k \in Main, Decide(k), term' \in Nat
  PROVE  /\ outbox = <<>> /\ decisions' = decisions + 1 /\ decisions' \in Nat
         /\ outbox' \in Seq(Action) /\ Len(outbox') = 2
         /\ outbox'[1].kind = k /\ outbox'[1].batch = decisions' /\ outbox'[2].kind = "address"
<1> DEFINE act(kind) == [kind |-> kind, batch |-> decisions + 1, term |-> term']
<1>1. outbox = <<>> /\ decisions' = decisions + 1 /\ outbox' = <<act(k), act("address")>>
  BY DEF Decide
<1>2. decisions + 1 \in Nat
  BY DEF QueueTypes, KernelInv
<1>3. act(k) \in Action /\ act("address") \in Action
  BY <1>2 DEF Action
<1>4. act(k).kind = k /\ act(k).batch = decisions + 1 /\ act("address").kind = "address"
  OBVIOUS
<1> HIDE DEF act
<1> QED
  BY <1>1, <1>2, <1>3, <1>4

\* The end of an action.
LEMMA EndsTyped ==
  ASSUME QueueTypes, NEW ok \in BOOLEAN, Ends(ok)
  PROVE  task' = Idle /\ Idle \in Task /\ failedBatch' \in Nat /\ refused' \in BOOLEAN
<1>1. Idle \in Task
  BY DEF Idle, Task
<1>2. task.batch \in Nat /\ failedBatch \in Nat /\ refused \in BOOLEAN
  BY DEF QueueTypes, LinesInv, Task
<1> QED
  BY <1>1, <1>2 DEF Ends

LEMMA EffectTyped ==
  ASSUME ServerInv, NEW s \in StepName, Effect(s)
  PROVE  ServerInv'
<1> USE DEF ServerInv, Services, PG
<1>1. CASE s \in {"servicesOff", "servicesOn"}
  BY <1>1 DEF Effect
<1>2. CASE s \in {"pdhOn", "pdhOff", "tunnelOff"}
  BY <1>2 DEF Effect
<1>3. CASE s = "readOnly"
  <2>1. (readOnly \/ pgUp = "primary") \in BOOLEAN
    OBVIOUS
  <2> QED
    BY <1>3, <2>1 DEF Effect
<1>4. CASE s \in {"writable", "stop", "signal"}
  BY <1>4 DEF Effect
<1>5. CASE s \in {"start", "startFrozen", "promotePG"}
  BY <1>5 DEF Effect, Started
<1>6. CASE s \in {"push", "caughtUp", "copy"}
  BY <1>6 DEF Effect, server
<1> QED
  BY <1>1, <1>2, <1>3, <1>4, <1>5, <1>6 DEF StepName

LEMMA QueueTypesKept == QueueTypes /\ [QueueNext]_queueVars => QueueTypes'
<1> SUFFICES ASSUME QueueTypes, [QueueNext]_queueVars PROVE QueueTypes'
  OBVIOUS
<1> USE DEF kernel, server
<1>0. /\ KernelInv /\ ServerInv /\ LinesInv
      /\ queue \in Seq(Action) /\ outbox \in Seq(Action) /\ task \in Task
  BY DEF QueueTypes, LinesInv
<1>1. CASE Kernel0
  <2>1. /\ KernelInv' \/ ~(decisions' \in Nat)
        /\ UNCHANGED <<doneTerm, failedTerm, queue, task, failedBatch, server, refused, errors, reboots>>
        /\ Rests \/ \E k \in Main : Orders(k)
    BY <1>1, KernelSays
  <2>2. CASE Rests
    BY <1>0, <2>1, <2>2 DEF Rests, QueueTypes, KernelInv, ServerInv, LinesInv
  <2>3. CASE \E k \in Main : Orders(k)
    <3>1. PICK k \in Main : Decide(k)
      BY <2>3 DEF Orders
    <3>2. decisions' = decisions + 1 /\ decisions' \in Nat
      BY <1>0, <3>1 DEF Decide, KernelInv
    <3>3. KernelInv' /\ term' \in Nat
      BY <2>1, <3>2 DEF KernelInv
    <3>4. /\ outbox' \in Seq(Action) /\ Len(outbox') = 2
          /\ outbox'[1].kind = k /\ outbox'[1].batch = decisions' /\ outbox'[2].kind = "address"
      BY <3>1, <3>3, WhatIsDecided
    <3> QED
      BY <1>0, <2>1, <3>3, <3>4 DEF QueueTypes, ServerInv, LinesInv
  <2> QED
    BY <2>1, <2>2, <2>3
<1>2. CASE Reboot
  <2>1. Idle \in Task /\ <<>> \in Seq(Action) /\ Len(<<>>) = 0
    BY DEF Idle, Task
  <2>2. KernelInv' /\ ServerInv'
    BY <1>0, <1>2 DEF Reboot, KernelInv, ServerInv
  <2>3. LinesInv'
    BY <1>0, <1>2, <2>1, QueueAssumption DEF Reboot, LinesInv
  <2> QED
    BY <2>2, <2>3 DEF QueueTypes
<1>3. CASE Enqueue
  <2>1. /\ outbox # <<>> /\ Len(queue) < QueueSize
        /\ queue' = Append(queue, Head(outbox)) /\ outbox' = Tail(outbox)
        /\ UNCHANGED <<kernel, doneTerm, failedTerm, task, failedBatch, server, refused, decisions, errors, reboots>>
    BY <1>3 DEF Enqueue
  <2>2. /\ Head(outbox) \in Action /\ queue' \in Seq(Action) /\ Len(queue') = Len(queue) + 1
        /\ outbox' \in Seq(Action) /\ Len(outbox') = Len(outbox) - 1
        /\ Len(outbox) = 2 => outbox'[1] = outbox[2]
    BY <1>0, <2>1
  <2>3. Len(queue) \in Nat /\ Len(outbox) \in Nat /\ Len(outbox) <= 2 /\ QueueSize \in Nat
    BY <1>0, QueueAssumption DEF LinesInv
  <2>7. Len(queue') <= QueueSize
    BY <2>1, <2>2, <2>3
  <2>4. /\ Len(queue') <= QueueSize /\ Len(outbox') <= 2 /\ Len(outbox') # 2
        /\ Len(outbox') = 1 => Len(outbox) = 2
    BY <2>7, <2>2, <2>3
  <2>6. Len(outbox') = 1 => outbox'[1].kind = "address"
    BY <1>0, <2>2, <2>4 DEF LinesInv
  <2>5. LinesInv'
    BY <1>0, <2>1, <2>2, <2>4, <2>6 DEF LinesInv
  <2> QED
    BY <1>0, <2>1, <2>5 DEF QueueTypes, KernelInv, ServerInv
<1>4. CASE Reconcile
  <2> DEFINE a == [kind |-> "reconcile", batch |-> 0, term |-> term]
  <2>1. /\ Len(queue) < QueueSize /\ queue' = Append(queue, a)
        /\ UNCHANGED <<kernel, doneTerm, failedTerm, outbox, task, failedBatch, server, refused, decisions, errors, reboots>>
    BY <1>4 DEF Reconcile
  <2>2. a \in Action
    BY <1>0 DEF Action, KernelInv
  <2>3. queue' \in Seq(Action) /\ Len(queue') = Len(queue) + 1 /\ Len(queue) \in Nat
    <3> HIDE DEF a
    <3> QED
      BY <1>0, <2>1, <2>2
  <2>4. LinesInv'
    BY <1>0, <2>1, <2>3, QueueAssumption DEF LinesInv
  <2> QED
    BY <1>0, <2>1, <2>4 DEF QueueTypes, KernelInv, ServerInv
<1>5. CASE Take
  <2> DEFINE q == Head(queue)
             t == [kind |-> q.kind, batch |-> q.batch, term |-> q.term, steps |-> Steps(q.kind)]
  <2>1. /\ queue # <<>> /\ queue' = Tail(queue) /\ task' \in {task, t}
        /\ UNCHANGED <<kernel, doneTerm, failedTerm, outbox, failedBatch, server, refused, decisions, errors, reboots>>
    BY <1>5 DEF Take
  <2>2. q \in Action /\ queue' \in Seq(Action) /\ Len(queue') <= Len(queue) /\ Len(queue') \in Nat /\ Len(queue) \in Nat
    BY <1>0, <2>1
  <2>3. t \in Task
    <3> HIDE DEF q
    <3>1. q.kind \in Main \cup {"address", "reconcile"} /\ q.batch \in Nat /\ q.term \in Nat
      BY <2>2 DEF Action
    <3>2. Steps(q.kind) \in Seq(StepName)
      BY <3>1, StepsTyped
    <3> QED
      BY <3>1, <3>2 DEF Task
  <2> HIDE DEF t, q
  <2>4. LinesInv'
    BY <1>0, <2>1, <2>2, <2>3, QueueAssumption DEF LinesInv
  <2> QED
    BY <1>0, <2>1, <2>4 DEF QueueTypes, KernelInv, ServerInv
<1>6. CASE DoStep
  <2>1. /\ task.steps # <<>> /\ Effect(Head(task.steps)) /\ task' = [task EXCEPT !.steps = Tail(@)]
        /\ UNCHANGED <<kernel, doneTerm, failedTerm, outbox, queue, failedBatch, refused, decisions, errors, reboots>>
    BY <1>6 DEF DoStep
  <2>2. Head(task.steps) \in StepName /\ Tail(task.steps) \in Seq(StepName)
    <3>1. task.steps \in Seq(StepName)
      BY <1>0 DEF Task
    <3> QED
      BY <2>1, <3>1
  <2>3. task' \in Task
    BY <1>0, <2>1, <2>2 DEF Task
  <2>4. ServerInv'
    BY <1>0, <2>1, <2>2, EffectTyped
  <2> QED
    BY <1>0, <2>1, <2>3, <2>4 DEF QueueTypes, KernelInv, LinesInv
<1>7. CASE StepFails
  <2>1. /\ Ends(FALSE) /\ UNCHANGED <<kernel, outbox, queue, decisions, reboots>>
        /\ \/ pdh' = TRUE /\ tunnel' = TRUE /\ pgUp' = pgUp /\ readOnly' = FALSE /\ signal' = signal
           \/ UNCHANGED server
    BY <1>7 DEF StepFails, Services, PG
  <2>2. task' = Idle /\ Idle \in Task /\ failedBatch' \in Nat /\ refused' \in BOOLEAN
    BY <2>1, EndsTyped
  <2>3. ServerInv'
    BY <1>0, <2>1 DEF ServerInv
  <2> QED
    BY <1>0, <2>1, <2>2, <2>3 DEF QueueTypes, KernelInv, LinesInv
<1>8. CASE Done
  <2>1. Ends(TRUE) /\ UNCHANGED <<kernel, outbox, queue, server, decisions, errors, reboots>>
    BY <1>8 DEF Done
  <2>2. task' = Idle /\ Idle \in Task /\ failedBatch' \in Nat /\ refused' \in BOOLEAN
    BY <2>1, EndsTyped
  <2> QED
    BY <1>0, <2>1, <2>2 DEF QueueTypes, KernelInv, ServerInv, LinesInv
<1>9. CASE UNCHANGED queueVars
  BY <1>0, <1>9 DEF queueVars, QueueTypes, KernelInv, ServerInv, LinesInv
<1> QED
  BY <1>1, <1>2, <1>3, <1>4, <1>5, <1>6, <1>7, <1>8, <1>9 DEF QueueNext, WorkerStep

\* The variables of the queue and the server keep their types and the queue its
\* length, whatever fails (enqueueActions, actionWorker in daemon.go).
THEOREM QueueTypesHold == QueueSpec => []QueueTypeOK
<1>1. QueueTypes => QueueTypeOK
  <2> SUFFICES ASSUME QueueTypes PROVE QueueTypeOK
    OBVIOUS
  <2>1. {readOnly, signal, pdh, tunnel, refused} \subseteq BOOLEAN
    BY DEF QueueTypes, ServerInv, LinesInv
  <2> QED
    BY <2>1 DEF QueueTypes, KernelInv, ServerInv, LinesInv, QueueTypeOK
<1> QED
  BY <1>1, QueueTypesInit, QueueTypesKept, PTL DEF QueueSpec

-----------------------------------------------------------------------------
(* What is decided last is carried out last.  A decision is a batch; its   *)
(* main action is the one that suits the role.                             *)

IsMain(a) == a.kind \in Main
MainWaits == Len(outbox) = 2

\* The kind of action that brings about a role.
Agrees(kind) ==
  /\ role = "active" => kind \in {"unfence", "promote"}
  /\ role = "fenced" => kind = "fence"

\* Main actions come in the order of their batches, and after every failure.
Order ==
  /\ \A i \in DOMAIN queue : IsMain(queue[i]) =>
       /\ failedBatch < queue[i].batch /\ queue[i].batch <= decisions
       /\ MainWaits => queue[i].batch < decisions
       /\ IsMain(task) => task.batch < queue[i].batch
       /\ \A j \in DOMAIN queue : j < i /\ IsMain(queue[j]) => queue[j].batch < queue[i].batch
  /\ IsMain(task) => /\ failedBatch < task.batch /\ task.batch <= decisions
                     /\ MainWaits => task.batch < decisions
  /\ failedBatch <= decisions /\ (MainWaits => failedBatch < decisions)

\* The last decision is still to be carried out.
InQueue == \E i \in DOMAIN queue : IsMain(queue[i]) /\ queue[i].batch = decisions
AtWork == IsMain(task) /\ task.batch = decisions
Pending == MainWaits \/ InQueue \/ AtWork

Last ==
  /\ MainWaits => Agrees(outbox[1].kind)
  /\ \A i \in DOMAIN queue : IsMain(queue[i]) /\ queue[i].batch = decisions => Agrees(queue[i].kind)
  /\ AtWork => Agrees(task.kind)
  /\ (\E i \in DOMAIN queue : IsMain(queue[i])) \/ IsMain(task) => Pending

Opening == {<<"start", "promotePG", "writable", "servicesOn">>, <<"start", "writable", "servicesOn">>,
            <<"promotePG", "writable", "servicesOn">>, <<"startFrozen", "writable", "servicesOn">>,
            <<"writable", "servicesOn">>, <<"servicesOn">>, <<>>}
Closing == {<<"tunnelOff", "pdhOn">>, <<"pdhOn">>, <<"tunnelOff", "servicesOff", "readOnly">>,
            <<"servicesOff", "readOnly">>, <<"readOnly">>, <<"tunnelOff", "pdhOff">>, <<"pdhOff">>, <<>>}

\* What the steps done so far have achieved.
Working ==
  /\ task.kind \in {"unfence", "promote"} =>
       /\ task.steps \in Opening
       /\ task.steps = <<"servicesOn">> => Writable
       /\ task.steps = <<>> => Writable /\ pdh
  /\ task.kind = "fence" =>
       /\ task.steps \in {<<"servicesOff", "readOnly">>, <<"readOnly">>, <<>>}
       /\ task.steps = <<>> => ~Writable
  /\ task.kind = "reconcile" => task.steps \in Closing \cup {<<"servicesOn">>}
  /\ task.kind \in {"none", "address"} => task.steps = <<>>

\* Nothing is pending: the server does what the role says, and a reconcile under
\* way was begun in this role.
Agreed ==
  ~Pending =>
    /\ role = "active" => Writable /\ pdh /\ task.steps \in {<<>>, <<"servicesOn">>}
    /\ role # "active" => task.steps \in Closing
    /\ role = "fenced" => ~Writable

AgreeInv == Order /\ Last /\ Working /\ Agreed

Smooth == reboots = 0 /\ ~refused

QueueInv == QueueTypes /\ (Smooth => AgreeInv)

LEMMA QueueInvInit == QueueInit => QueueInv
<1> SUFFICES ASSUME QueueInit PROVE QueueInv
  OBVIOUS
<1>1. QueueTypes
  BY QueueTypesInit
<1>2. /\ queue = <<>> /\ outbox = <<>> /\ task = Idle /\ decisions = 0 /\ role = "active"
      /\ failedBatch = 0 /\ pgUp = "primary" /\ readOnly = FALSE /\ pdh = TRUE
  BY DEF QueueInit
<1>3. /\ ~MainWaits /\ ~IsMain(task) /\ DOMAIN queue = {} /\ task.kind = "none" /\ task.steps = <<>>
  BY <1>2 DEF MainWaits, IsMain, Main, Idle
<1>4. ~Pending /\ Writable /\ pdh
  BY <1>2, <1>3 DEF Pending, InQueue, AtWork, Writable
<1>5. Order /\ Last
  BY <1>2, <1>3 DEF Order, Last, AtWork
<1>6. Working /\ Agreed
  BY <1>2, <1>3, <1>4 DEF Working, Agreed
<1> QED
  BY <1>1, <1>5, <1>6 DEF QueueInv, AgreeInv

\* A decision of the kernel.
LEMMA KernelAgrees ==
  ASSUME QueueTypes, QueueTypes', AgreeInv, Kernel0
  PROVE  AgreeInv'
<1>0. UNCHANGED <<queue, task, failedBatch, pgUp, readOnly, signal, pdh, tunnel>>
  BY KernelSays DEF server
<1>1. /\ \A i \in DOMAIN queue : queue[i].batch \in Nat
      /\ decisions \in Nat /\ task.batch \in Nat /\ failedBatch \in Nat
  <2>1. queue \in Seq(Action) /\ task \in Task /\ failedBatch \in Nat /\ decisions \in Nat
    BY DEF QueueTypes, LinesInv, KernelInv
  <2>2. \A i \in DOMAIN queue : queue[i] \in Action
    BY <2>1
  <2> QED
    BY <2>1, <2>2 DEF Action, Task
<1>2. Working' /\ Writable' = Writable
  BY <1>0 DEF AgreeInv, Working, Writable
<1>3. Rests \/ \E k \in Main : Orders(k)
  BY KernelSays
<1>4. CASE Rests
  <2>1. /\ UNCHANGED <<outbox, decisions, queue, task, failedBatch>>
        /\ role' = "active" => role = "active"
        /\ role' = "fenced" => role = "fenced"
        /\ role' # "active" => role # "active"
    BY <1>0, <1>4 DEF Rests
  <2>2. Order' /\ (Pending' <=> Pending)
    BY <2>1 DEF AgreeInv, Order, MainWaits, IsMain, Pending, InQueue, AtWork
  <2>3. Last'
    BY <2>1, <2>2 DEF AgreeInv, Last, MainWaits, IsMain, AtWork, Agrees
  <2>4. Agreed'
    BY <1>0, <1>2, <2>1, <2>2 DEF AgreeInv, Agreed
  <2> QED
    BY <1>2, <2>2, <2>3, <2>4 DEF AgreeInv
<1>5. CASE \E k \in Main : Orders(k)
  <2>1. PICK k \in Main : Orders(k)
    BY <1>5
  <2>2. /\ outbox = <<>> /\ decisions' = decisions + 1 /\ decisions' \in Nat
        /\ Len(outbox') = 2 /\ outbox'[1].kind = k
    BY <2>1, WhatIsDecided DEF Orders, QueueTypes, KernelInv
  <2>3. MainWaits' /\ Pending' /\ Agreed'
    BY <2>2 DEF MainWaits, Pending, Agreed
  <2>4. ~MainWaits
    BY <2>2 DEF MainWaits
  <2>5. Order'
    <3>1. failedBatch < decisions'
      BY <1>1, <2>2 DEF AgreeInv, Order
    <3>2. ASSUME NEW i \in DOMAIN queue, IsMain(queue[i])
          PROVE  /\ failedBatch < queue[i].batch /\ queue[i].batch < decisions'
                 /\ IsMain(task) => task.batch < queue[i].batch
                 /\ \A j \in DOMAIN queue : j < i /\ IsMain(queue[j]) => queue[j].batch < queue[i].batch
      BY <1>1, <2>2, <3>2 DEF AgreeInv, Order
    <3>3. IsMain(task) => failedBatch < task.batch /\ task.batch < decisions'
      BY <1>1, <2>2 DEF AgreeInv, Order
    <3>4. UNCHANGED <<queue, task, failedBatch>>
      BY <1>0
    <3> QED
      BY <1>1, <2>2, <3>1, <3>2, <3>3, <3>4 DEF Order, IsMain
  <2>6. Last'
    <3>1. \A i \in DOMAIN queue : IsMain(queue[i]) => queue[i].batch # decisions'
      BY <1>1, <2>2 DEF AgreeInv, Order
    <3>2. ~AtWork'
      BY <1>0, <1>1, <2>2 DEF AgreeInv, Order, AtWork, IsMain
    <3>3. Agrees(k)'
      BY <2>1 DEF Orders, Agrees
    <3>4. UNCHANGED queue
      BY <1>0
    <3> QED
      BY <2>2, <2>3, <3>1, <3>2, <3>3, <3>4 DEF Last, IsMain, Agrees
  <2> QED
    BY <1>2, <2>3, <2>5, <2>6 DEF AgreeInv
<1> QED
  BY <1>3, <1>4, <1>5

\* The facts about types these proofs use.
LEMMA QueueFacts ==
  ASSUME QueueTypes
  PROVE  /\ queue \in Seq(Action) /\ outbox \in Seq(Action) /\ task \in Task
         /\ \A i \in DOMAIN queue : queue[i] \in Action /\ queue[i].batch \in Nat
         /\ decisions \in Nat /\ task.batch \in Nat /\ failedBatch \in Nat
         /\ Len(outbox) \in Nat /\ Len(outbox) <= 2
<1>1. queue \in Seq(Action) /\ outbox \in Seq(Action) /\ task \in Task /\ failedBatch \in Nat
      /\ decisions \in Nat /\ Len(outbox) <= 2
  BY DEF QueueTypes, LinesInv, KernelInv
<1>2. \A i \in DOMAIN queue : queue[i] \in Action
  BY <1>1
<1>3. Len(outbox) \in Nat /\ Len(outbox) <= 2
  BY <1>1
<1>4. \A a \in Action : a.batch \in Nat
  BY DEF Action
<1>5. task.batch \in Nat
  BY <1>1 DEF Task
<1> QED
  BY <1>1, <1>2, <1>3, <1>4, <1>5

\* The queue gets longer.
LEMMA Longer ==
  ASSUME QueueTypes, NEW a \in Action, queue' = Append(queue, a)
  PROVE  /\ Len(queue) \in Nat /\ DOMAIN queue = 1 .. Len(queue)
         /\ DOMAIN queue' = DOMAIN queue \cup {Len(queue) + 1} /\ queue'[Len(queue) + 1] = a
         /\ \A i \in DOMAIN queue : queue'[i] = queue[i] /\ i < Len(queue) + 1 /\ i \in Nat
<1>1. queue \in Seq(Action)
  BY QueueFacts
<1>2. /\ Len(queue) \in Nat /\ DOMAIN queue = 1 .. Len(queue)
      /\ Len(queue') = Len(queue) + 1 /\ DOMAIN queue' = 1 .. Len(queue')
      /\ queue'[Len(queue) + 1] = a /\ \A i \in 1 .. Len(queue) : queue'[i] = queue[i]
  BY <1>1
<1> QED
  BY <1>2

\* Something that is no main action comes into the queue.
LEMMA OtherComes ==
  ASSUME QueueTypes, AgreeInv, NEW a \in Action, ~IsMain(a), queue' = Append(queue, a),
         MainWaits' <=> MainWaits, outbox'[1] = outbox[1] \/ ~MainWaits,
         UNCHANGED <<role, task, failedBatch, pgUp, readOnly, pdh, decisions>>
  PROVE  AgreeInv'
<1>1. /\ DOMAIN queue' = DOMAIN queue \cup {Len(queue) + 1} /\ queue'[Len(queue) + 1] = a
      /\ \A i \in DOMAIN queue : queue'[i] = queue[i]
  BY Longer
<1>2. \A i \in DOMAIN queue' : IsMain(queue'[i]) => i \in DOMAIN queue /\ queue'[i] = queue[i]
  BY <1>1
<1>3. \A i \in DOMAIN queue : i \in DOMAIN queue' /\ queue'[i] = queue[i]
  BY <1>1
<1>4. Order'
  BY <1>2, <1>3 DEF AgreeInv, Order, IsMain
<1>5. (InQueue' <=> InQueue) /\ (Pending' <=> Pending)
  BY <1>2, <1>3 DEF Pending, InQueue, AtWork, IsMain
<1>6. Last'
  BY <1>2, <1>3, <1>5 DEF AgreeInv, Last, AtWork, Agrees, IsMain
<1>7. Working' /\ Agreed'
  BY <1>5 DEF AgreeInv, Working, Agreed, Writable
<1> QED
  BY <1>4, <1>6, <1>7 DEF AgreeInv

LEMMA EnqueueAgrees ==
  ASSUME QueueTypes, AgreeInv, Enqueue
  PROVE  AgreeInv'
<1>1. /\ outbox # <<>> /\ queue' = Append(queue, Head(outbox)) /\ outbox' = Tail(outbox)
      /\ UNCHANGED <<role, task, failedBatch, pgUp, readOnly, pdh, decisions>>
  BY DEF Enqueue, kernel, server
<1>2. /\ outbox \in Seq(Action) /\ Len(outbox) \in Nat /\ Len(outbox) <= 2 /\ decisions \in Nat
      /\ failedBatch \in Nat /\ task.batch \in Nat
      /\ \A i \in DOMAIN queue : queue[i].batch \in Nat
  BY QueueFacts
<1> DEFINE a == Head(outbox)
<1>3. /\ a \in Action /\ a = outbox[1] /\ Len(outbox') = Len(outbox) - 1
      /\ Len(outbox) = 1 \/ Len(outbox) = 2
  <2>1. /\ a \in Action /\ a = outbox[1] /\ Len(outbox') = Len(outbox) - 1
        /\ Len(outbox) # 0 /\ Len(outbox) \in Nat
    BY <1>1, <1>2
  <2>2. Len(outbox) <= 2
    BY <1>2
  <2>3. Len(outbox) = 1 \/ Len(outbox) = 2
    BY <2>1, <2>2
  <2> QED
    BY <2>1, <2>3
<1>4. CASE Len(outbox) = 1
  <2>1. ~IsMain(a)
    BY <1>3, <1>4 DEF QueueTypes, LinesInv, IsMain, Main
  <2>2. ~MainWaits /\ ~MainWaits'
    BY <1>3, <1>4 DEF MainWaits
  <2> QED
    BY <1>1, <1>3, <2>1, <2>2, OtherComes
<1>5. CASE Len(outbox) = 2
  <2>1. IsMain(a) /\ a.batch = decisions
    BY <1>3, <1>5 DEF QueueTypes, LinesInv, IsMain
  <2>2. MainWaits /\ ~MainWaits'
    BY <1>3, <1>5 DEF MainWaits
  <2> DEFINE n == Len(queue) + 1
  <2>3. /\ DOMAIN queue' = DOMAIN queue \cup {n} /\ queue'[n] = a
        /\ \A i \in DOMAIN queue : queue'[i] = queue[i] /\ i < n /\ i \in Nat /\ n \in Nat
    BY <1>1, <1>3, Longer
  <2> HIDE DEF a, n
  <2>4. InQueue' /\ Pending'
    BY <1>1, <2>1, <2>3 DEF InQueue, IsMain, Pending
  <2>5. \A i \in DOMAIN queue : IsMain(queue[i]) => queue[i].batch < decisions
    BY <2>2 DEF AgreeInv, Order
  <2>6. ~AtWork'
    BY <1>1, <1>2, <2>2 DEF AgreeInv, Order, AtWork, IsMain
  <2>7. Order'
    <3>1. ASSUME NEW i \in DOMAIN queue, IsMain(queue[i])
          PROVE  /\ failedBatch < queue[i].batch /\ queue[i].batch <= decisions
                 /\ IsMain(task) => task.batch < queue[i].batch
                 /\ \A j \in DOMAIN queue' : j < i /\ IsMain(queue'[j]) => queue'[j].batch < queue'[i].batch
      <4>1. \A j \in DOMAIN queue' : j < i => j \in DOMAIN queue
        BY <2>3
      <4>2. \A j \in DOMAIN queue : j < i /\ IsMain(queue[j]) => queue[j].batch < queue[i].batch
        BY <3>1 DEF AgreeInv, Order
      <4>3. \A j \in DOMAIN queue' : j < i /\ IsMain(queue'[j]) => queue'[j].batch < queue'[i].batch
        BY <2>3, <4>1, <4>2
      <4> QED
        BY <3>1, <4>3 DEF AgreeInv, Order
    <3>2. /\ failedBatch < decisions /\ (IsMain(task) => task.batch < decisions)
          /\ \A j \in DOMAIN queue' : j < n /\ IsMain(queue'[j]) => queue'[j].batch < decisions
      <4>1. failedBatch < decisions /\ (IsMain(task) => task.batch < decisions)
        BY <1>2, <2>2 DEF AgreeInv, Order
      <4>2. \A j \in DOMAIN queue' : j < n => j \in DOMAIN queue
        <5>1. ~(n < n)
          BY <2>3, <1>2 DEF n
        <5> QED
          BY <2>3, <5>1
      <4> QED
        BY <2>3, <2>5, <4>1, <4>2
    <3>3. \A i \in DOMAIN queue' : IsMain(queue'[i]) =>
            /\ failedBatch < queue'[i].batch /\ queue'[i].batch <= decisions
            /\ IsMain(task) => task.batch < queue'[i].batch
            /\ \A j \in DOMAIN queue' : j < i /\ IsMain(queue'[j]) => queue'[j].batch < queue'[i].batch
      BY <1>2, <2>1, <2>3, <3>1, <3>2
    <3>4. IsMain(task) => failedBatch < task.batch /\ task.batch <= decisions
      BY DEF AgreeInv, Order
    <3> QED
      <4>1. failedBatch' <= decisions' /\ ~MainWaits'
        BY <1>1, <1>2, <2>2, <3>2
      <4> QED
        BY <1>1, <3>3, <3>4, <4>1 DEF Order, IsMain
  <2>8. Last'
    <3>1. Agrees(a.kind)
      BY <1>3, <2>2 DEF AgreeInv, Last, a
    <3>2. \A i \in DOMAIN queue' : IsMain(queue'[i]) /\ queue'[i].batch = decisions => queue'[i] = a
      BY <1>2, <2>3, <2>5
    <3> QED
      BY <1>1, <2>2, <2>4, <2>6, <3>1, <3>2 DEF Last, Agrees, IsMain
  <2>9. Working'
    BY <1>1 DEF AgreeInv, Working, Writable
  <2>10. Agreed'
    BY <2>4 DEF Agreed
  <2> QED
    BY <2>7, <2>8, <2>9, <2>10 DEF AgreeInv
<1> QED
  BY <1>3, <1>4, <1>5

LEMMA ReconcileAgrees ==
  ASSUME QueueTypes, AgreeInv, Reconcile
  PROVE  AgreeInv'
<1> DEFINE a == [kind |-> "reconcile", batch |-> 0, term |-> term]
<1>1. /\ queue' = Append(queue, a)
      /\ UNCHANGED <<role, task, failedBatch, pgUp, readOnly, pdh, decisions, outbox>>
  BY DEF Reconcile, kernel, server
<1>2. a \in Action /\ ~IsMain(a)
  BY DEF QueueTypes, KernelInv, Action, IsMain, Main
<1>3. MainWaits' <=> MainWaits
  BY <1>1 DEF MainWaits
<1> HIDE DEF a
<1> QED
  BY <1>1, <1>2, <1>3, OtherComes

\* The queue gets shorter.
LEMMA Shorter ==
  ASSUME QueueTypes, queue # <<>>, queue' = Tail(queue)
  PROVE  /\ 1 \in DOMAIN queue /\ Head(queue) = queue[1] /\ Head(queue) \in Action
         /\ \A i \in DOMAIN queue' : i + 1 \in DOMAIN queue /\ queue'[i] = queue[i + 1] /\ i + 1 > 1
         /\ \A i \in DOMAIN queue : i > 1 => i - 1 \in DOMAIN queue' /\ queue'[i - 1] = queue[i]
         /\ \A i, j \in DOMAIN queue' : j < i => j + 1 < i + 1
         /\ \A i \in DOMAIN queue : i \in Nat /\ (i = 1 \/ i > 1)
<1>1. queue \in Seq(Action)
  BY QueueFacts
<1>2. /\ Len(queue) \in Nat \ {0} /\ DOMAIN queue = 1 .. Len(queue)
      /\ Len(queue') = Len(queue) - 1 /\ DOMAIN queue' = 1 .. Len(queue')
      /\ Head(queue) = queue[1] /\ Head(queue) \in Action
      /\ \A i \in 1 .. Len(queue') : queue'[i] = queue[i + 1]
  BY <1>1
<1>3. \A i \in DOMAIN queue : i > 1 => i - 1 \in DOMAIN queue' /\ queue'[i - 1] = queue[(i - 1) + 1] /\ (i - 1) + 1 = i
  BY <1>2
<1> QED
  BY <1>2, <1>3

\* Short sequences put together.
LEMMA JoinedTwo ==
  ASSUME NEW a, NEW b
  PROVE  <<a>> \o <<b>> = <<a, b>>
<1> DEFINE S == {a, b}
           s == <<a>> \o <<b>>
           t == <<a, b>>
<1>1. Len(s) = 2 /\ Len(t) = 2
  OBVIOUS
<1>2. s[1] = t[1] /\ s[2] = t[2]
  OBVIOUS
<1>3. s \in Seq(S) /\ t \in Seq(S)
  OBVIOUS
<1>4. \A i \in 1 .. 2 : s[i] = t[i]
  BY <1>2
<1> HIDE DEF S, s, t
<1>5. s = t
  BY <1>1, <1>3, <1>4, SeqEqual
<1> QED
  BY <1>5 DEF s, t

LEMMA JoinedThree ==
  ASSUME NEW a, NEW b, NEW c
  PROVE  <<a>> \o <<b, c>> = <<a, b, c>>
<1> DEFINE S == {a, b, c}
           s == <<a>> \o <<b, c>>
           t == <<a, b, c>>
<1>1. Len(s) = 3 /\ Len(t) = 3
  OBVIOUS
<1>2. s[1] = t[1] /\ s[2] = t[2] /\ s[3] = t[3]
  OBVIOUS
<1>3. s \in Seq(S) /\ t \in Seq(S)
  OBVIOUS
<1>4. \A i \in 1 .. 3 : s[i] = t[i]
  BY <1>2
<1> HIDE DEF S, s, t
<1>5. s = t
  BY <1>1, <1>3, <1>4, SeqEqual
<1> QED
  BY <1>5 DEF s, t

LEMMA JoinedFour ==
  ASSUME NEW a, NEW b, NEW c, NEW d
  PROVE  <<a, b>> \o <<c, d>> = <<a, b, c, d>>
<1> DEFINE S == {a, b, c, d}
           s == <<a, b>> \o <<c, d>>
           t == <<a, b, c, d>>
<1>1. Len(s) = 4 /\ Len(t) = 4
  OBVIOUS
<1>2. s[1] = t[1] /\ s[2] = t[2] /\ s[3] = t[3] /\ s[4] = t[4]
  OBVIOUS
<1>3. s \in Seq(S) /\ t \in Seq(S)
  OBVIOUS
<1>4. \A i \in 1 .. 4 : s[i] = t[i]
  BY <1>2
<1> HIDE DEF S, s, t
<1>5. s = t
  BY <1>1, <1>3, <1>4, SeqEqual
<1> QED
  BY <1>5 DEF s, t

\* The steps an action begins with.
LEMMA FirstSteps ==
  /\ Steps("promote") \in Opening /\ Steps("promote") # <<"servicesOn">> /\ Steps("promote") # <<>>
  /\ Steps("unfence") \in Opening /\ Steps("unfence") # <<"servicesOn">> /\ Steps("unfence") # <<>>
  /\ Steps("fence") = <<"servicesOff", "readOnly">> /\ <<"servicesOff", "readOnly">> # <<>>
  /\ Steps("address") = <<>>
  /\ Steps("reconcile") \in Closing \cup {<<"servicesOn">>}
  /\ role = "active" => Steps("reconcile") \in {<<>>, <<"servicesOn">>}
  /\ role # "active" => Steps("reconcile") \in Closing
<1>1. Steps("unfence") = <<"startFrozen", "writable", "servicesOn">>
  BY DEF Steps, Unfence
<1>2. Steps("fence") = <<"servicesOff", "readOnly">> /\ Steps("address") = <<>>
  BY DEF Steps, Fence
<1>3. Steps("reconcile") = ReconcileSteps
  BY DEF Steps
<1>4. <<"tunnelOff">> \o <<"servicesOff", "readOnly">> = <<"tunnelOff", "servicesOff", "readOnly">>
  BY JoinedThree
<1>5. /\ role = "active" => ReconcileSteps \in {<<>>, <<"servicesOn">>}
      /\ role # "active" => ReconcileSteps \in
           {<<"tunnelOff", "pdhOn">>, <<"tunnelOff", "pdhOff">>, <<"tunnelOff", "servicesOff", "readOnly">>}
  BY <1>4 DEF ReconcileSteps, Fence
<1>6. \E s \in {<<"start">>, <<>>}, t \in {<<>>, <<"promotePG">>} :
        /\ Steps("promote") = (s \o t) \o <<"writable", "servicesOn">>
        /\ s = <<>> => t = <<"promotePG">>
  BY DEF Steps
<1>7. /\ (<<"start">> \o <<>>) \o <<"writable", "servicesOn">> = <<"start", "writable", "servicesOn">>
      /\ (<<"start">> \o <<"promotePG">>) \o <<"writable", "servicesOn">> = <<"start", "promotePG", "writable", "servicesOn">>
      /\ (<<>> \o <<"promotePG">>) \o <<"writable", "servicesOn">> = <<"promotePG", "writable", "servicesOn">>
  <2>1. /\ <<"start">> \o <<>> = <<"start">> /\ <<>> \o <<"promotePG">> = <<"promotePG">>
    <3>1. <<"start">> \in Seq(StepName) /\ <<"promotePG">> \in Seq(StepName)
      BY DEF StepName
    <3> QED
      BY <3>1, ConcatEmptySeq
  <2>2. /\ <<"start">> \o <<"promotePG">> = <<"start", "promotePG">>
        /\ <<"start">> \o <<"writable", "servicesOn">> = <<"start", "writable", "servicesOn">>
        /\ <<"promotePG">> \o <<"writable", "servicesOn">> = <<"promotePG", "writable", "servicesOn">>
    BY JoinedTwo, JoinedThree
  <2>3. <<"start", "promotePG">> \o <<"writable", "servicesOn">> = <<"start", "promotePG", "writable", "servicesOn">>
    BY JoinedFour
  <2> QED
    BY <2>1, <2>2, <2>3
<1>8. Steps("promote") \in {<<"start", "writable", "servicesOn">>,
                            <<"start", "promotePG", "writable", "servicesOn">>,
                            <<"promotePG", "writable", "servicesOn">>}
  BY <1>6, <1>7
<1>9. /\ <<"start", "writable", "servicesOn">> \notin {<<>>, <<"servicesOn">>}
      /\ <<"start", "promotePG", "writable", "servicesOn">> \notin {<<>>, <<"servicesOn">>}
      /\ <<"promotePG", "writable", "servicesOn">> \notin {<<>>, <<"servicesOn">>}
      /\ <<"startFrozen", "writable", "servicesOn">> \notin {<<>>, <<"servicesOn">>}
      /\ <<"servicesOff", "readOnly">> # <<>>
  OBVIOUS
<1> QED
  BY <1>1, <1>2, <1>3, <1>5, <1>8, <1>9 DEF Opening, Closing

LEMMA TakeAgrees ==
  ASSUME QueueTypes, AgreeInv, Take
  PROVE  AgreeInv'
<1> DEFINE q == Head(queue)
           t == [kind |-> q.kind, batch |-> q.batch, term |-> q.term, steps |-> Steps(q.kind)]
           skipped == q.kind # "reconcile" /\ q.batch = failedBatch
<1>1. /\ task.kind = "none" /\ queue # <<>> /\ queue' = Tail(queue)
      /\ skipped => UNCHANGED task
      /\ ~skipped => task' = t
      /\ UNCHANGED <<role, outbox, failedBatch, pgUp, readOnly, pdh, decisions>>
  BY DEF Take, kernel, server
<1>2. /\ 1 \in DOMAIN queue /\ q = queue[1] /\ q \in Action
      /\ \A i \in DOMAIN queue' : i + 1 \in DOMAIN queue /\ queue'[i] = queue[i + 1] /\ i + 1 > 1
      /\ \A i \in DOMAIN queue : i > 1 => i - 1 \in DOMAIN queue' /\ queue'[i - 1] = queue[i]
      /\ \A i, j \in DOMAIN queue' : j < i => j + 1 < i + 1
      /\ \A i \in DOMAIN queue : i \in Nat /\ (i = 1 \/ i > 1)
  BY <1>1, Shorter
<1>3. /\ decisions \in Nat /\ failedBatch \in Nat /\ task.batch \in Nat /\ q.batch \in Nat
      /\ \A i \in DOMAIN queue : queue[i].batch \in Nat
  BY <1>2, QueueFacts
<1>4. ~IsMain(task) /\ task.steps = <<>>
  BY <1>1 DEF AgreeInv, Working, IsMain, Main
<1>5. t.kind = q.kind /\ t.batch = q.batch /\ t.steps = Steps(q.kind)
  OBVIOUS
<1> HIDE DEF t
<1>6. MainWaits' <=> MainWaits
  BY <1>1 DEF MainWaits
<1>7. CASE IsMain(q)
  <2>1. ~skipped
    BY <1>2, <1>3, <1>7 DEF AgreeInv, Order
  <2>2. task' = t /\ IsMain(task')
    BY <1>1, <1>5, <1>7, <2>1 DEF IsMain
  <2>3. \A i \in DOMAIN queue' : IsMain(queue'[i]) => q.batch < queue'[i].batch
    <3>1. \A i \in DOMAIN queue : i > 1 /\ IsMain(queue[i]) => queue[1].batch < queue[i].batch
      BY <1>2, <1>7 DEF AgreeInv, Order
    <3> QED
      BY <1>2, <3>1
  <2>4. Order'
    <3>1. ASSUME NEW i \in DOMAIN queue', IsMain(queue'[i])
          PROVE  /\ failedBatch < queue'[i].batch /\ queue'[i].batch <= decisions
                 /\ MainWaits => queue'[i].batch < decisions
                 /\ \A j \in DOMAIN queue' : j < i /\ IsMain(queue'[j]) => queue'[j].batch < queue'[i].batch
      BY <1>2, <3>1 DEF AgreeInv, Order
    <3>2. /\ failedBatch < q.batch /\ q.batch <= decisions /\ (MainWaits => q.batch < decisions)
          /\ failedBatch <= decisions /\ (MainWaits => failedBatch < decisions)
      BY <1>2, <1>7 DEF AgreeInv, Order
    <3> QED
      BY <1>1, <1>5, <1>6, <2>2, <2>3, <3>1, <3>2 DEF Order, IsMain
  <2>5. Pending
    BY <1>2, <1>7 DEF AgreeInv, Last
  <2>6. q.batch <= decisions /\ (MainWaits => q.batch < decisions)
    BY <1>2, <1>7 DEF AgreeInv, Order
  <2>7. Pending'
    <3>1. CASE MainWaits
      BY <1>6, <3>1 DEF Pending
    <3>2. CASE ~MainWaits
      <4>1. PICK i \in DOMAIN queue : IsMain(queue[i]) /\ queue[i].batch = decisions
        BY <1>4, <2>5, <3>2 DEF Pending, InQueue, AtWork
      <4>2. CASE i = 1
        BY <1>1, <1>2, <1>5, <2>2, <4>1, <4>2 DEF Pending, AtWork
      <4>3. CASE i > 1
        <5>1. i - 1 \in DOMAIN queue' /\ IsMain(queue'[i - 1]) /\ queue'[i - 1].batch = decisions'
          BY <1>1, <1>2, <4>1, <4>3 DEF IsMain
        <5> QED
          BY <5>1 DEF Pending, InQueue
      <4> QED
        BY <1>2, <4>2, <4>3
    <3> QED
      BY <3>1, <3>2
  <2>8. Last'
    <3>1. \A i \in DOMAIN queue' : IsMain(queue'[i]) /\ queue'[i].batch = decisions => Agrees(queue'[i].kind)
      BY <1>2 DEF AgreeInv, Last
    <3>2. q.batch = decisions => Agrees(q.kind)
      BY <1>2, <1>7 DEF AgreeInv, Last
    <3>3. MainWaits => Agrees(outbox[1].kind)
      BY DEF AgreeInv, Last
    <3> QED
      BY <1>1, <1>5, <1>6, <2>2, <2>7, <3>1, <3>2, <3>3 DEF Last, AtWork, Agrees, IsMain
  <2>9. Working'
    <3>1. /\ task'.kind \in Main /\ task'.steps = Steps(task'.kind)
      BY <1>5, <2>2 DEF IsMain
    <3> QED
      BY <3>1, FirstSteps DEF Working, Main
  <2>10. Agreed'
    BY <2>7 DEF Agreed
  <2> QED
    BY <2>4, <2>8, <2>9, <2>10 DEF AgreeInv
<1>8. CASE ~IsMain(q)
  <2>1. ~IsMain(task') /\ (skipped => UNCHANGED task)
    BY <1>1, <1>4, <1>5, <1>8 DEF IsMain
  <2>2. \A i \in DOMAIN queue : IsMain(queue[i]) => i > 1
    BY <1>2, <1>8
  <2>3. Order'
    <3>1. ASSUME NEW i \in DOMAIN queue', IsMain(queue'[i])
          PROVE  /\ failedBatch < queue'[i].batch /\ queue'[i].batch <= decisions
                 /\ MainWaits => queue'[i].batch < decisions
                 /\ \A j \in DOMAIN queue' : j < i /\ IsMain(queue'[j]) => queue'[j].batch < queue'[i].batch
      BY <1>2, <3>1 DEF AgreeInv, Order
    <3>2. failedBatch <= decisions /\ (MainWaits => failedBatch < decisions)
      BY DEF AgreeInv, Order
    <3> QED
      BY <1>1, <1>6, <2>1, <3>1, <3>2 DEF Order, IsMain
  <2>4. InQueue => InQueue'
    <3>1. ASSUME NEW i \in DOMAIN queue, IsMain(queue[i]), queue[i].batch = decisions PROVE InQueue'
      <4>1. i - 1 \in DOMAIN queue' /\ IsMain(queue'[i - 1]) /\ queue'[i - 1].batch = decisions'
        BY <1>1, <1>2, <2>2, <3>1 DEF IsMain
      <4> QED
        BY <4>1 DEF InQueue
    <3> QED
      BY <3>1 DEF InQueue
  <2>5. Pending => Pending'
    BY <1>4, <1>6, <2>4 DEF Pending, AtWork
  <2>6. Last'
    <3>1. \A i \in DOMAIN queue' : IsMain(queue'[i]) /\ queue'[i].batch = decisions => Agrees(queue'[i].kind)
      BY <1>2 DEF AgreeInv, Last
    <3>2. (\E i \in DOMAIN queue' : IsMain(queue'[i])) => Pending'
      BY <1>2, <2>5 DEF AgreeInv, Last
    <3>3. MainWaits => Agrees(outbox[1].kind)
      BY DEF AgreeInv, Last
    <3> QED
      BY <1>1, <1>6, <2>1, <3>1, <3>2, <3>3 DEF Last, AtWork, Agrees, IsMain
  <2>7. q.kind \in {"address", "reconcile"}
    BY <1>2, <1>8 DEF Action, IsMain
  <2>8. \/ task' = task
        \/ task'.kind = q.kind /\ task'.steps = Steps(q.kind)
    BY <1>1, <1>5
  <2>9. Working'
    <3>1. CASE task' = task
      BY <1>1, <3>1 DEF AgreeInv, Working, Writable
    <3>2. CASE task'.kind = q.kind /\ task'.steps = Steps(q.kind)
      BY <2>7, <3>2, FirstSteps DEF Working
    <3> QED
      BY <2>8, <3>1, <3>2
  <2>10. Agreed'
    <3>1. CASE Pending'
      BY <3>1 DEF Agreed
    <3>2. CASE ~Pending'
      <4>1. /\ role = "active" => Writable /\ pdh
            /\ role = "fenced" => ~Writable
        BY <2>5, <3>2 DEF AgreeInv, Agreed
      <4>2. <<>> \in Closing
        BY DEF Closing
      <4>3. /\ role = "active" => task'.steps \in {<<>>, <<"servicesOn">>}
            /\ role # "active" => task'.steps \in Closing
        BY <1>4, <2>7, <2>8, <4>2, FirstSteps
      <4> QED
        BY <1>1, <4>1, <4>3 DEF Agreed, Writable
    <3> QED
      BY <3>1, <3>2
  <2> QED
    BY <2>3, <2>6, <2>9, <2>10 DEF AgreeInv
<1> QED
  BY <1>7, <1>8

\* What is left after a step.
LEMMA OpeningMoves ==
  ASSUME NEW s \in Opening, s # <<>>
  PROVE  /\ Tail(s) \in Opening
         /\ Tail(s) = <<"servicesOn">> => Head(s) = "writable"
         /\ Tail(s) = <<>> => s = <<"servicesOn">> /\ Head(s) = "servicesOn"
<1>1. CASE s = <<"start", "promotePG", "writable", "servicesOn">>
  <2>1. Tail(s) = <<"promotePG", "writable", "servicesOn">>
    BY <1>1
  <2>2. Tail(s) # <<"servicesOn">> /\ Tail(s) # <<>>
    BY <2>1
  <2> QED
    BY <2>1, <2>2 DEF Opening
<1>2. CASE s \in {<<"start", "writable", "servicesOn">>, <<"promotePG", "writable", "servicesOn">>,
                  <<"startFrozen", "writable", "servicesOn">>}
  <2>1. Tail(s) = <<"writable", "servicesOn">>
    <3>1. CASE s = <<"start", "writable", "servicesOn">>
      BY <3>1
    <3>2. CASE s = <<"promotePG", "writable", "servicesOn">>
      BY <3>2
    <3>3. CASE s = <<"startFrozen", "writable", "servicesOn">>
      BY <3>3
    <3> QED
      BY <1>2, <3>1, <3>2, <3>3
  <2>2. Tail(s) # <<"servicesOn">> /\ Tail(s) # <<>>
    BY <2>1
  <2> QED
    BY <2>1, <2>2 DEF Opening
<1>3. CASE s = <<"writable", "servicesOn">>
  <2>1. Tail(s) = <<"servicesOn">> /\ Head(s) = "writable"
    BY <1>3
  <2>2. Tail(s) # <<>>
    BY <2>1
  <2> QED
    BY <2>1, <2>2 DEF Opening
<1>4. CASE s = <<"servicesOn">>
  <2>1. Tail(s) = <<>> /\ Head(s) = "servicesOn"
    BY <1>4
  <2>2. Tail(s) # <<"servicesOn">>
    BY <2>1
  <2> QED
    BY <1>4, <2>1, <2>2 DEF Opening
<1> QED
  BY <1>1, <1>2, <1>3, <1>4 DEF Opening

LEMMA ClosingMoves ==
  ASSUME NEW s \in Closing, s # <<>>
  PROVE  Tail(s) \in Closing /\ Head(s) \in {"tunnelOff", "pdhOn", "pdhOff", "servicesOff", "readOnly"}
<1>1. CASE s = <<"tunnelOff", "pdhOn">>
  <2>1. Tail(s) = <<"pdhOn">> /\ Head(s) = "tunnelOff"
    BY <1>1
  <2> QED
    BY <2>1 DEF Closing
<1>2. CASE s \in {<<"pdhOn">>, <<"readOnly">>, <<"pdhOff">>}
  <2>1. Tail(s) = <<>> /\ Head(s) \in {"pdhOn", "pdhOff", "readOnly"}
    <3>1. CASE s = <<"pdhOn">>
      BY <3>1
    <3>2. CASE s = <<"readOnly">>
      BY <3>2
    <3>3. CASE s = <<"pdhOff">>
      BY <3>3
    <3> QED
      BY <1>2, <3>1, <3>2, <3>3
  <2> QED
    BY <2>1 DEF Closing
<1>3. CASE s = <<"tunnelOff", "servicesOff", "readOnly">>
  <2>1. Tail(s) = <<"servicesOff", "readOnly">> /\ Head(s) = "tunnelOff"
    BY <1>3
  <2> QED
    BY <2>1 DEF Closing
<1>4. CASE s = <<"servicesOff", "readOnly">>
  <2>1. Tail(s) = <<"readOnly">> /\ Head(s) = "servicesOff"
    BY <1>4
  <2> QED
    BY <2>1 DEF Closing
<1>5. CASE s = <<"tunnelOff", "pdhOff">>
  <2>1. Tail(s) = <<"pdhOff">> /\ Head(s) = "tunnelOff"
    BY <1>5
  <2> QED
    BY <2>1 DEF Closing
<1> QED
  BY <1>1, <1>2, <1>3, <1>4, <1>5 DEF Closing

\* What the steps do to the database and pdh.
LEMMA Effects ==
  ASSUME ServerInv, NEW s, Effect(s)
  PROVE  /\ s = "servicesOn" => pdh' = TRUE /\ (Writable' <=> Writable)
         /\ s = "writable" => (Writable' <=> pgUp = "primary")
         /\ s = "readOnly" => ~Writable'
         /\ s \in {"tunnelOff", "pdhOn", "pdhOff", "servicesOff"} => (Writable' <=> Writable)
<1>1. CASE s = "servicesOn"
  BY <1>1 DEF Effect, Services, PG, Writable
<1>2. CASE s = "writable"
  <2>1. pgUp' = pgUp /\ readOnly' = FALSE
    BY <1>2 DEF Effect, PG
  <2> QED
    BY <1>2, <2>1 DEF Writable
<1>3. CASE s = "readOnly"
  <2>1. pgUp' = pgUp /\ readOnly' = (readOnly \/ pgUp = "primary")
    BY <1>3 DEF Effect, PG
  <2> QED
    BY <1>3, <2>1 DEF Writable
<1>4. CASE s \in {"tunnelOff", "pdhOn", "pdhOff", "servicesOff"}
  <2>1. pgUp' = pgUp /\ readOnly' = readOnly
    BY <1>4 DEF Effect, PG
  <2> QED
    BY <1>4, <2>1 DEF Writable
<1> QED
  BY <1>1, <1>2, <1>3, <1>4

LEMMA StepAgrees ==
  ASSUME QueueTypes, AgreeInv, DoStep
  PROVE  AgreeInv'
<1> DEFINE s == Head(task.steps)
<1>1. /\ task.steps # <<>> /\ Possible(s) /\ Effect(s) /\ task' = [task EXCEPT !.steps = Tail(@)]
      /\ UNCHANGED <<role, outbox, queue, failedBatch, decisions>>
  BY DEF DoStep, kernel
<1>2. task \in Task /\ ServerInv
  BY QueueFacts DEF QueueTypes
<1>3. task'.kind = task.kind /\ task'.batch = task.batch /\ task'.steps = Tail(task.steps)
  BY <1>1, <1>2 DEF Task
<1>4. /\ s = "servicesOn" => pdh' = TRUE /\ (Writable' <=> Writable)
      /\ s = "writable" => (Writable' <=> pgUp = "primary")
      /\ s = "readOnly" => ~Writable'
      /\ s \in {"tunnelOff", "pdhOn", "pdhOff", "servicesOff"} => (Writable' <=> Writable)
  BY <1>1, <1>2, Effects
<1>5. s = "writable" => pgUp = "primary"
  BY <1>1 DEF Possible
<1>6. Order' /\ (Pending' <=> Pending)
  BY <1>1, <1>3 DEF AgreeInv, Order, Pending, MainWaits, InQueue, AtWork, IsMain
<1>7. Last'
  BY <1>1, <1>3, <1>6 DEF AgreeInv, Last, MainWaits, AtWork, Agrees, IsMain
<1>8. Working'
  <2>1. CASE task.kind \in {"unfence", "promote"}
    <3>1. task.steps \in Opening /\ (task.steps = <<"servicesOn">> => Writable)
      BY <2>1 DEF AgreeInv, Working
    <3>2. /\ Tail(task.steps) \in Opening
          /\ Tail(task.steps) = <<"servicesOn">> => s = "writable"
          /\ Tail(task.steps) = <<>> => task.steps = <<"servicesOn">> /\ s = "servicesOn"
      BY <1>1, <3>1, OpeningMoves
    <3> QED
      BY <1>3, <1>4, <1>5, <2>1, <3>1, <3>2 DEF Working
  <2>2. CASE task.kind = "fence"
    <3>1. task.steps \in {<<"servicesOff", "readOnly">>, <<"readOnly">>}
      BY <1>1, <2>2 DEF AgreeInv, Working
    <3>2. CASE task.steps = <<"servicesOff", "readOnly">>
      <4>1. Tail(task.steps) = <<"readOnly">> /\ <<"readOnly">> # <<>>
        BY <3>2
      <4> QED
        BY <1>3, <2>2, <4>1 DEF Working
    <3>3. CASE task.steps = <<"readOnly">>
      <4>1. Tail(task.steps) = <<>> /\ s = "readOnly"
        BY <3>3
      <4> QED
        BY <1>3, <1>4, <2>2, <4>1 DEF Working
    <3> QED
      BY <3>1, <3>2, <3>3
  <2>3. CASE task.kind = "reconcile"
    <3>1. Tail(task.steps) \in Closing
      <4>1. CASE task.steps \in Closing
        BY <1>1, <4>1, ClosingMoves
      <4>2. CASE task.steps = <<"servicesOn">>
        <5>1. Tail(task.steps) = <<>>
          BY <4>2
        <5> QED
          BY <5>1 DEF Closing
      <4> QED
        BY <2>3, <4>1, <4>2 DEF AgreeInv, Working
    <3> QED
      BY <1>3, <2>3, <3>1 DEF Working
  <2>4. CASE task.kind \notin {"unfence", "promote", "fence", "reconcile"}
    <3>1. task.kind \notin {"none", "address"}
      BY <1>1 DEF AgreeInv, Working
    <3> QED
      BY <1>3, <2>4, <3>1 DEF Working
  <2> QED
    BY <2>1, <2>2, <2>3, <2>4
<1>9. Agreed'
  <2>1. CASE Pending
    BY <1>6, <2>1 DEF Agreed
  <2>2. CASE ~Pending
    <3>1. /\ role = "active" => Writable /\ pdh /\ task.steps \in {<<>>, <<"servicesOn">>}
          /\ role # "active" => task.steps \in Closing
          /\ role = "fenced" => ~Writable
      BY <2>2 DEF AgreeInv, Agreed
    <3>2. CASE role = "active"
      <4>1. task.steps = <<"servicesOn">>
        BY <1>1, <3>1, <3>2
      <4>2. s = "servicesOn" /\ Tail(task.steps) = <<>>
        BY <4>1
      <4> QED
        BY <1>1, <1>3, <1>4, <3>1, <3>2, <4>2 DEF Agreed
    <3>3. CASE role # "active"
      <4>1. /\ Tail(task.steps) \in Closing
            /\ s \in {"tunnelOff", "pdhOn", "pdhOff", "servicesOff", "readOnly"}
        BY <1>1, <3>1, <3>3, ClosingMoves
      <4>2. role = "fenced" => ~Writable'
        BY <1>4, <3>1, <4>1
      <4> QED
        BY <1>1, <1>3, <3>3, <4>1, <4>2 DEF Agreed
    <3> QED
      BY <3>2, <3>3
  <2> QED
    BY <2>1, <2>2
<1> QED
  BY <1>6, <1>7, <1>8, <1>9 DEF AgreeInv

\* An action ends: a main action that failed leaves its batch behind.
LEMMA EndAgrees ==
  ASSUME QueueTypes, AgreeInv, task' = Idle,
         UNCHANGED <<role, outbox, queue, decisions>>,
         \/ failedBatch' = failedBatch
         \/ failedBatch' = task.batch /\ IsMain(task),
         ~Pending' => /\ role = "active" => Writable' /\ pdh'
                      /\ role = "fenced" => ~Writable'
  PROVE  AgreeInv'
<1>1. ~IsMain(task') /\ task'.kind = "none" /\ task'.steps = <<>>
  BY DEF Idle, IsMain, Main
<1>2. /\ decisions \in Nat /\ task.batch \in Nat /\ failedBatch \in Nat
      /\ \A i \in DOMAIN queue : queue[i].batch \in Nat
  BY QueueFacts
<1>3. MainWaits' <=> MainWaits
  BY DEF MainWaits
<1>4. Order'
  <2>1. \A i \in DOMAIN queue : IsMain(queue[i]) => failedBatch' < queue[i].batch
    BY <1>2 DEF AgreeInv, Order
  <2>2. failedBatch' <= decisions /\ (MainWaits => failedBatch' < decisions)
    BY <1>2 DEF AgreeInv, Order
  <2> QED
    BY <1>1, <1>3, <2>1, <2>2 DEF AgreeInv, Order, IsMain
<1>5. (\E i \in DOMAIN queue : IsMain(queue[i])) => Pending'
  <2> SUFFICES ASSUME NEW i \in DOMAIN queue, IsMain(queue[i]) PROVE Pending'
    BY DEF IsMain
  <2>1. Pending
    BY DEF AgreeInv, Last
  <2>2. CASE AtWork
    BY <1>2, <2>2 DEF AgreeInv, Order, AtWork
  <2>3. CASE MainWaits \/ InQueue
    BY <1>3, <2>3 DEF Pending, InQueue, IsMain
  <2> QED
    BY <2>1, <2>2, <2>3 DEF Pending
<1>6. Last'
  BY <1>1, <1>3, <1>5 DEF AgreeInv, Last, AtWork, Agrees, IsMain
<1>7. Working'
  BY <1>1 DEF Working
<1>8. Agreed'
  BY <1>1 DEF Agreed, Closing
<1> QED
  BY <1>4, <1>6, <1>7, <1>8 DEF AgreeInv

LEMMA DoneAgrees ==
  ASSUME QueueTypes, AgreeInv, Done
  PROVE  AgreeInv'
<1>1. /\ task.kind # "none" /\ task.steps = <<>> /\ task' = Idle /\ failedBatch' = failedBatch
      /\ UNCHANGED <<role, outbox, queue, decisions, pgUp, readOnly, pdh>>
  BY DEF Done, Ends, kernel, server
<1>2. ASSUME ~Pending' PROVE (role = "active" => Writable /\ pdh) /\ (role = "fenced" => ~Writable)
  <2>1. ~MainWaits /\ ~InQueue
    BY <1>1, <1>2 DEF Pending, MainWaits, InQueue, IsMain
  <2>2. CASE Pending
    <3>1. AtWork /\ Agrees(task.kind)
      BY <2>1, <2>2 DEF Pending, AgreeInv, Last
    <3> QED
      BY <1>1, <3>1 DEF AgreeInv, Working, Agrees
  <2>3. CASE ~Pending
    BY <2>3 DEF AgreeInv, Agreed
  <2> QED
    BY <2>2, <2>3
<1>3. Writable' = Writable /\ pdh' = pdh
  BY <1>1 DEF Writable
<1> QED
  BY <1>1, <1>2, <1>3, EndAgrees

LEMMA FailureAgrees ==
  ASSUME QueueTypes, AgreeInv, StepFails, ~refused'
  PROVE  AgreeInv'
<1> DEFINE s == Head(task.steps)
<1>1. /\ task.steps # <<>> /\ Ends(FALSE)
      /\ UNCHANGED <<role, outbox, queue, decisions>>
      /\ ~(s = "caughtUp" /\ pgUp = "primary") => UNCHANGED <<pgUp, readOnly, pdh>>
  BY DEF StepFails, kernel, server
<1>2. /\ task' = Idle /\ task.kind \in Demotion \cup {"reconcile"}
      /\ failedBatch' = IF task.kind = "reconcile" THEN failedBatch ELSE task.batch
  BY <1>1 DEF Ends
<1>3. CASE task.kind = "reconcile"
  <2>1. task.steps \in Closing \cup {<<"servicesOn">>}
    BY <1>3 DEF AgreeInv, Working
  <2>2. s # "caughtUp"
    <3>1. CASE task.steps \in Closing
      BY <1>1, <3>1, ClosingMoves
    <3>2. CASE task.steps = <<"servicesOn">>
      BY <3>2
    <3> QED
      BY <2>1, <3>1, <3>2
  <2>3. ~AtWork /\ ~AtWork'
    BY <1>2, <1>3 DEF AtWork, IsMain, Main, Idle
  <2>4. Pending' <=> Pending
    BY <1>1, <2>3 DEF Pending, MainWaits, InQueue, IsMain
  <2>5. Writable' = Writable /\ pdh' = pdh
    BY <1>1, <2>2 DEF Writable
  <2>6. ~Pending => (role = "active" => Writable /\ pdh) /\ (role = "fenced" => ~Writable)
    BY DEF AgreeInv, Agreed
  <2> QED
    BY <1>1, <1>2, <1>3, <2>4, <2>5, <2>6, EndAgrees
<1>4. CASE task.kind \in Demotion
  <2>1. IsMain(task) /\ failedBatch' = task.batch
    BY <1>2, <1>4 DEF IsMain, Main, Demotion
  <2>2. Pending
    BY <2>1 DEF AgreeInv, Last
  <2>3. ~Pending' => role # "active" /\ role # "fenced"
    <3> SUFFICES ASSUME ~Pending' PROVE role # "active" /\ role # "fenced"
      OBVIOUS
    <3>1. ~MainWaits /\ ~InQueue
      BY <1>1 DEF Pending, MainWaits, InQueue, IsMain
    <3>2. Agrees(task.kind)
      BY <2>2, <3>1 DEF Pending, AgreeInv, Last
    <3> QED
      BY <1>4, <3>2 DEF Agrees, Demotion
  <2> QED
    BY <1>1, <1>2, <2>1, <2>3, EndAgrees
<1> QED
  BY <1>2, <1>3, <1>4

LEMMA QueueInvKept == QueueInv /\ [QueueNext]_queueVars => QueueInv'
<1> SUFFICES ASSUME QueueInv, [QueueNext]_queueVars, Smooth' PROVE AgreeInv'
  BY QueueTypesKept DEF QueueInv
<1>1. QueueTypes /\ QueueTypes'
  BY QueueTypesKept DEF QueueInv
<1>2. reboots \in Nat /\ reboots' \in Nat /\ reboots' = 0 /\ ~refused'
  BY <1>1 DEF QueueTypes, LinesInv, Smooth
<1>3. CASE Kernel0
  <2>1. Smooth
    BY <1>1, <1>2, <1>3, KernelSays DEF Smooth
  <2> QED
    BY <1>1, <1>3, <2>1, KernelAgrees DEF QueueInv
<1>4. CASE Reboot
  BY <1>2, <1>4 DEF Reboot
<1>5. CASE Enqueue
  BY <1>1, <1>2, <1>5, EnqueueAgrees DEF QueueInv, Smooth, Enqueue
<1>6. CASE Reconcile
  BY <1>1, <1>2, <1>6, ReconcileAgrees DEF QueueInv, Smooth, Reconcile
<1>7. CASE Take
  BY <1>1, <1>2, <1>7, TakeAgrees DEF QueueInv, Smooth, Take
<1>8. CASE DoStep
  BY <1>1, <1>2, <1>8, StepAgrees DEF QueueInv, Smooth, DoStep
<1>9. CASE StepFails
  <2>1. Smooth
    BY <1>2, <1>9 DEF Smooth, StepFails, Ends
  <2> QED
    BY <1>1, <1>2, <1>9, <2>1, FailureAgrees DEF QueueInv
<1>10. CASE Done
  <2>1. Smooth
    BY <1>2, <1>10 DEF Smooth, Done, Ends
  <2> QED
    BY <1>1, <1>10, <2>1, DoneAgrees DEF QueueInv
<1>11. CASE UNCHANGED queueVars
  <2>1. UNCHANGED <<role, outbox, queue, task, failedBatch, decisions, pgUp, readOnly, pdh, reboots, refused>>
    BY <1>11 DEF queueVars
  <2>2. AgreeInv
    BY <1>2, <2>1 DEF QueueInv, Smooth
  <2>3. Order' /\ (Pending' <=> Pending)
    BY <2>1, <2>2 DEF AgreeInv, Order, Pending, MainWaits, InQueue, AtWork, IsMain
  <2>4. Last' /\ Working' /\ Agreed'
    BY <2>1, <2>2, <2>3 DEF AgreeInv, Last, Working, Agreed, MainWaits, AtWork, Agrees, IsMain, Writable
  <2> QED
    BY <2>3, <2>4 DEF AgreeInv
<1> QED
  BY <1>3, <1>4, <1>5, <1>6, <1>7, <1>8, <1>9, <1>10, <1>11 DEF QueueNext, WorkerStep

\* Whenever everything decided has been carried out the server does what its
\* role says: however roles changed while actions waited in the queue, wherever
\* a demotion failed and whatever a reconcile closed in between.
THEOREM IdleServerAgrees == QueueSpec => []IdleAgrees
<1>1. QueueInv => IdleAgrees
  <2> SUFFICES ASSUME QueueInv, outbox = <<>>, queue = <<>>, task.kind = "none", ~refused, reboots = 0
               PROVE  (role = "active" => Writable /\ pdh) /\ (role = "fenced" => ~Writable)
    BY DEF IdleAgrees
  <2>1. AgreeInv
    BY DEF QueueInv, Smooth
  <2>2. ~MainWaits /\ ~InQueue /\ ~AtWork
    BY DEF MainWaits, InQueue, AtWork, IsMain, Main
  <2> QED
    BY <2>1, <2>2 DEF AgreeInv, Agreed, Pending
<1> QED
  BY <1>1, QueueInvInit, QueueInvKept, PTL DEF QueueSpec
=============================================================================
