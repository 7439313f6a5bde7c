------------------------------- MODULE System -------------------------------
(***************************************************************************)
(* The parts of the servers that share no state in these models, checked   *)
(* side by side: a behaviour is a behaviour of one part, the others rest.  *)
(***************************************************************************)
EXTENDS UpdateJob, Replication, DataDirectory, MovingAddress, ActionQueue,
        SingleUpdate, Maintenance

VARIABLE focus     \* the part that moves

parts == <<updateVars, replVars, dirVars, addrVars, queueVars, singleVars,
           maintVars>>

\* A part that rests begins in one of its ways only.
SystemInit ==
  /\ focus \in {"update", "replication", "directory", "address", "queue",
               "single", "maintenance"}
  /\ UpdateInit /\ ReplInit /\ DirInit /\ AddrInit /\ QueueInit /\ SingleInit
  /\ MaintInit
  /\ focus # "update" => job[A] = [NewJob("rolling", "Entry") EXCEPT !.seq = 2]
  /\ focus # "single" => sound
  /\ focus # "maintenance" => mplan = [active |-> TRUE, next |-> 0, fixed |-> TRUE] /\ tasks = <<NewTask(0)>>

SystemNext ==
  \/ /\ focus = "update" /\ UpdateNext
     /\ UNCHANGED <<focus, replVars, dirVars, addrVars, queueVars, singleVars,
                  maintVars>>
  \/ /\ focus = "replication" /\ ReplNext
     /\ UNCHANGED <<focus, updateVars, dirVars, addrVars, queueVars, singleVars,
                  maintVars>>
  \/ /\ focus = "directory" /\ DirNext
     /\ UNCHANGED <<focus, updateVars, replVars, addrVars, queueVars, singleVars,
                  maintVars>>
  \/ /\ focus = "address" /\ AddrNext
     /\ UNCHANGED <<focus, updateVars, replVars, dirVars, queueVars, singleVars,
                  maintVars>>
  \/ /\ focus = "queue" /\ QueueNext
     /\ UNCHANGED <<focus, updateVars, replVars, dirVars, addrVars, singleVars,
                  maintVars>>
  \/ /\ focus = "single" /\ SingleNext
     /\ UNCHANGED <<focus, updateVars, replVars, dirVars, addrVars, queueVars,
                  maintVars>>
  \/ /\ focus = "maintenance" /\ MaintNext
     /\ UNCHANGED <<focus, updateVars, replVars, dirVars, addrVars, queueVars,
                  singleVars>>

systemVars == <<parts, focus>>

\* Each part has the fairness of its own specification.
SystemFair ==
  /\ \A n \in Server : /\ WF_updateVars(focus = "update" /\ ConductOverdue(n))
                       /\ WF_updateVars(focus = "update" /\ UpdateGoesOn(n))
  /\ WF_replVars(focus = "replication" /\ Stream)
  /\ WF_replVars(focus = "replication" /\ Reconnect)
  /\ WF_replVars(focus = "replication" /\ Heal)
  /\ WF_replVars(focus = "replication" /\ Poll)
  /\ WF_replVars(focus = "replication" /\ SyncTick)
  /\ WF_replVars(focus = "replication" /\ ApplySync)
  /\ WF_replVars(focus = "replication" /\ HearWitness)
  /\ WF_replVars(focus = "replication" /\ WitnessNotes)
  /\ \A n \in Host : /\ WF_addrVars(focus = "address" /\ SettingArrives(n))
                     /\ WF_addrVars(focus = "address" /\ WorkGoesOn(n))
                     /\ WF_addrVars(focus = "address" /\ SecondGoesOn(n))
  /\ WF_addrVars(focus = "address" /\ \E n \in Host : GainRole(n))
  /\ WF_queueVars(focus = "queue" /\ Enqueue)
  /\ WF_queueVars(focus = "queue" /\ WorkerStep)
  /\ WF_queueVars(focus = "queue" /\ Reconcile)
  /\ WF_queueVars(focus = "queue" /\ (SwapBack0 \/ DemoteSeen))
  /\ WF_singleVars(focus = "single" /\ JobStep)
  /\ WF_singleVars(focus = "single" /\ AgentStarts)
  /\ WF_singleVars(focus = "single" /\ MaintTick)
  /\ \A c \in Caller : WF_maintVars(focus = "maintenance" /\ OrderGoesOn(c))
  /\ WF_maintVars(focus = "maintenance" /\ HourlyRun)

SystemSpec == SystemInit /\ [][SystemNext]_systemVars /\ SystemFair

SystemTypeOK ==
  /\ UpdateTypeOK /\ ReplTypeOK /\ DirTypeOK /\ AddrTypeOK /\ QueueTypeOK
  /\ SingleTypeOK /\ MaintTypeOK
=============================================================================
