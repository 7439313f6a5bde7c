---------------------------- MODULE Replication ----------------------------
(***************************************************************************)
(* The mirror of the database during one term of the active server         *)
(* (internal/ha/sync.go, cmd/pdh-ha/repl.go).                              *)
(*                                                                         *)
(* The active server decides every tick whether PostgreSQL waits for the   *)
(* standby.  With a witness it may stop waiting only when the witness has  *)
(* noted that the partner is not current, and has the note removed once    *)
(* the mirror follows again; the partner judges by itself, from what the   *)
(* active server reports, whether it may take over.                        *)
(*                                                                         *)
(* A position in the write-ahead log is a number of writes.  AsyncAfter    *)
(* has passed or not, as the environment likes.  SyncStep is modelled      *)
(* outside the maintenance lock of an update, which sets ForceAsync.       *)
(***************************************************************************)
EXTENDS Naturals, Sequences

CONSTANTS Mode,          \* "trio" (with a witness) or "duo"
          LagLimit,      \* how far behind a standby still counts as following
          Prompt,        \* the active server ticks on the status of the moment, its
                         \* settings apply at once, AsyncAfter outlasts messages
          MaxLog,        \* bound: writes of users
          MaxBreaks,     \* bound: breaks of the line between the servers
          MaxLosses,     \* bound: messages lost
          MaxRestarts    \* bound: restarts of pdh-ha of the active server

ASSUME ReplicationAssumption ==
  /\ Mode \in {"trio", "duo"} /\ Prompt \in BOOLEAN
  /\ {LagLimit, MaxLog, MaxBreaks, MaxLosses, MaxRestarts} \subseteq Nat

VARIABLES
  lsn,         \* writes in the log of the primary
  flushed,     \* writes in the log of the standby
  confirmed,   \* writes confirmed to the users
  line,        \* the line between the servers holds
  streaming,   \* the standby receives the log
  conf,        \* PostgreSQL waits for the standby (synchronous_standby_names)
  target,      \* pgActor.syncNames is set
  queued,      \* an applySync waits in the queue of actions
  polled,      \* the status last fetched: streaming and lag
  long,        \* AsyncAfter has passed since the standby last streamed
  ownNote,     \* Persisted.Stale[partner] of the active server
  ackedNote,   \* staleAckTerm is the term (memory)
  note,        \* the witness has the note
  toWitness, toActive, \* stale, current and their confirmations under way
  heard,       \* the report of the active server the standby last saw
  receives,    \* the standby streams, by the status it last fetched itself
  sees,        \* the standby sees the active server
  dataCurrent, \* the standby's judgement of its own data
  alive,       \* the active server works
  budget       \* breaks, losses, restarts so far

replVars == <<lsn, flushed, confirmed, line, streaming, conf, target, queued,
              polled, long, ownNote, ackedNote, note, toWitness, toActive,
              heard, receives, sees, dataCurrent, alive, budget>>

log == <<lsn, flushed, confirmed>>
links == <<line, streaming, alive>>
notes == <<ownNote, ackedNote, note>>
standby == <<heard, receives, sees, dataCurrent>>
wires == <<toWitness, toActive>>

ReplInit ==
  /\ lsn = 0 /\ flushed = 0 /\ confirmed = 0
  /\ line = TRUE /\ streaming = TRUE /\ conf = TRUE /\ target = TRUE /\ queued = FALSE
  /\ polled = [streaming |-> TRUE, lag |-> 0] /\ long = FALSE
  /\ ownNote = FALSE /\ ackedNote = FALSE /\ note = FALSE
  /\ toWitness = <<>> /\ toActive = <<>>
  /\ heard = [sync |-> TRUE, stale |-> FALSE, lag |-> 0] /\ receives = TRUE
  /\ sees = TRUE /\ dataCurrent = TRUE
  /\ alive = TRUE /\ budget = [breaks |-> 0, losses |-> 0, restarts |-> 0]

Lag == lsn - flushed

-----------------------------------------------------------------------------
(* PostgreSQL. *)

WriteLog ==
  /\ alive /\ lsn < MaxLog /\ lsn' = lsn + 1
  /\ UNCHANGED <<flushed, confirmed, links, conf, target, queued, polled, long, notes, wires, standby, budget>>

Stream ==
  /\ streaming /\ flushed < lsn /\ flushed' = flushed + 1
  /\ UNCHANGED <<lsn, confirmed, links, conf, target, queued, polled, long, notes, wires, standby, budget>>

\* A synchronous commit returns when the standby has it.
ConfirmWrite ==
  /\ alive /\ confirmed < lsn /\ (conf => flushed > confirmed)
  /\ confirmed' = confirmed + 1
  /\ UNCHANGED <<lsn, flushed, links, conf, target, queued, polled, long, notes, wires, standby, budget>>

Reconnect ==
  /\ line /\ alive /\ ~streaming /\ streaming' = TRUE
  /\ UNCHANGED <<log, line, alive, conf, target, queued, polled, long, notes, wires, standby, budget>>

Break ==
  /\ line /\ budget.breaks < MaxBreaks
  /\ budget' = [budget EXCEPT !.breaks = @ + 1]
  /\ line' = FALSE /\ streaming' = FALSE
  /\ UNCHANGED <<log, alive, conf, target, queued, polled, long, notes, wires, standby>>

Heal ==
  /\ ~line /\ line' = TRUE
  /\ UNCHANGED <<log, streaming, alive, conf, target, queued, polled, long, notes, wires, standby, budget>>

-----------------------------------------------------------------------------
(* The active server. *)

\* The status is fetched in the background.
Poll ==
  /\ alive
  /\ polled' = [streaming |-> streaming, lag |-> Lag] /\ polled' # polled
  /\ UNCHANGED <<log, links, conf, target, queued, long, notes, wires, standby, budget>>

\* Without a streaming standby AsyncAfter passes; the mirror streams at most
\* one status later.
AsyncAfter ==
  /\ alive /\ ~polled.streaming /\ ~long /\ long' = TRUE
  /\ Prompt => toWitness = <<>> /\ toActive = <<>>
  /\ UNCHANGED <<log, links, conf, target, queued, polled, notes, wires, standby, budget>>

\* Mutant: stops waiting without asking the witness.
SyncStep_Unasked(st, overdue) ==
  LET out == [wantSync |-> target, sendStale |-> FALSE, sendCurrent |-> FALSE,
              markStale |-> FALSE, clearStale |-> FALSE]
  IN CASE target /\ ~st.streaming /\ overdue -> [out EXCEPT !.wantSync = FALSE, !.markStale = TRUE]
       [] ~target /\ st.streaming /\ st.lag <= LagLimit -> [out EXCEPT !.wantSync = TRUE]
       [] OTHER -> out

\* Mutant: forgets the note of the witness if it never went on alone.
SyncStep_OwnNoteOnly(st, overdue) ==
  LET out == [wantSync |-> target, sendStale |-> FALSE, sendCurrent |-> FALSE,
              markStale |-> FALSE, clearStale |-> FALSE]
  IN CASE target /\ ~st.streaming /\ overdue ->
            IF ~ackedNote THEN [out EXCEPT !.sendStale = TRUE]
            ELSE [out EXCEPT !.wantSync = FALSE, !.markStale = TRUE]
       [] ~target /\ st.streaming /\ st.lag <= LagLimit -> [out EXCEPT !.wantSync = TRUE]
       [] target /\ st.streaming /\ ownNote -> [out EXCEPT !.sendCurrent = TRUE]
       [] OTHER -> out

\* The decision; st is the status it reads, overdue that AsyncAfter passed.
SyncStep(st, overdue) ==
  LET out == [wantSync |-> target, sendStale |-> FALSE, sendCurrent |-> FALSE,
              markStale |-> FALSE, clearStale |-> FALSE]
  IN CASE target /\ ~st.streaming /\ overdue ->
            IF Mode = "trio" /\ ~ackedNote THEN [out EXCEPT !.sendStale = TRUE]
            ELSE [out EXCEPT !.wantSync = FALSE, !.markStale = TRUE]
       [] ~target /\ st.streaming /\ st.lag <= LagLimit -> [out EXCEPT !.wantSync = TRUE]
       [] target /\ st.streaming /\ (ownNote \/ ackedNote) ->
            IF Mode = "trio" THEN [out EXCEPT !.sendCurrent = TRUE]
            ELSE [out EXCEPT !.clearStale = TRUE]
       [] OTHER -> out

\* One tick: decide, save the own note, switch, tell the witness.  A note that
\* cannot be saved ends the tick.
SyncTick ==
  LET overdue == long /\ ~polled.streaming
      out == SyncStep(polled, overdue)
      say == IF out.sendStale THEN <<"stale">> ELSE IF out.sendCurrent THEN <<"current">> ELSE <<>>
  IN /\ alive
     /\ Prompt => polled = [streaming |-> streaming, lag |-> Lag]
     /\ long' = overdue
     /\ ownNote' = ((ownNote \/ out.markStale) /\ ~out.clearStale)
     /\ target' = out.wantSync
     /\ IF out.wantSync = target THEN UNCHANGED <<conf, queued>>
        ELSE IF Prompt THEN conf' = out.wantSync /\ UNCHANGED queued
        ELSE queued' = TRUE /\ UNCHANGED conf
     /\ say # <<>> => toWitness = <<>> /\ toActive = <<>>     \* bound: one question at a time
     /\ toWitness' = toWitness \o say
     /\ <<long', ownNote', target', toWitness'>> # <<long, ownNote, target, toWitness>>
     /\ UNCHANGED <<log, links, polled, ackedNote, note, toActive, standby, budget>>

\* The queue of actions comes to the applySync, which reads the target now.
ApplySync ==
  /\ alive /\ queued /\ queued' = FALSE /\ conf' = target
  /\ UNCHANGED <<log, links, target, polled, long, notes, wires, standby, budget>>

\* stale_ack and current_ack
HearWitness ==
  /\ alive /\ toActive # <<>> /\ toActive' = Tail(toActive)
  /\ IF Head(toActive) = "stale"
     THEN ackedNote' = TRUE /\ UNCHANGED ownNote
     ELSE ackedNote' = FALSE /\ ownNote' = FALSE
  /\ UNCHANGED <<log, links, conf, target, queued, polled, long, note, toWitness, standby, budget>>

\* pdh-ha of the active server restarts; the target is what PostgreSQL has.
RestartActive ==
  /\ alive /\ budget.restarts < MaxRestarts
  /\ budget' = [budget EXCEPT !.restarts = @ + 1]
  /\ ackedNote' = FALSE /\ target' = conf /\ queued' = FALSE /\ long' = FALSE
  /\ UNCHANGED <<log, links, conf, polled, ownNote, note, wires, standby>>

-----------------------------------------------------------------------------
(* The witness saves the note before it confirms. *)

WitnessNotes ==
  /\ toWitness # <<>>
  /\ note' = (Head(toWitness) = "stale")
  /\ toActive' = Append(toActive, Head(toWitness)) /\ toWitness' = Tail(toWitness)
  /\ UNCHANGED <<log, links, conf, target, queued, polled, long, ownNote, ackedNote, standby, budget>>

LoseMessage ==
  /\ budget.losses < MaxLosses
  /\ budget' = [budget EXCEPT !.losses = @ + 1]
  /\ \/ toWitness # <<>> /\ toWitness' = Tail(toWitness) /\ UNCHANGED toActive
     \/ toActive # <<>> /\ toActive' = Tail(toActive) /\ UNCHANGED toWitness
  /\ UNCHANGED <<log, links, conf, target, queued, polled, long, notes, standby>>

-----------------------------------------------------------------------------
(* The standby. *)

\* Heartbeats arrive, with the lag of the status last fetched, none if the
\* standby is not in it; being seen takes several of them.
HeartbeatIn ==
  /\ line /\ alive
  /\ heard' = [sync |-> target, stale |-> ownNote,
               lag |-> IF polled.streaming THEN polled.lag ELSE 0]
  /\ sees' \in {sees, TRUE}
  /\ <<heard', sees'>> # <<heard, sees>>
  /\ UNCHANGED <<log, links, conf, target, queued, polled, long, notes, wires, receives, dataCurrent, budget>>

LoseSight ==
  /\ sees /\ ~(line /\ alive) /\ sees' = FALSE
  /\ UNCHANGED <<log, links, conf, target, queued, polled, long, notes, wires, heard, receives, dataCurrent, budget>>

\* The standby too fetches its status in the background.
OwnPoll ==
  /\ receives # streaming /\ receives' = streaming
  /\ UNCHANGED <<log, links, conf, target, queued, polled, long, notes, wires, heard, sees, dataCurrent, budget>>

\* Current stays current until the active server says otherwise.
JudgeData ==
  /\ sees
  /\ dataCurrent' = (heard.sync /\ ~heard.stale /\ (dataCurrent \/ (receives /\ heard.lag <= LagLimit)))
  /\ dataCurrent' # dataCurrent
  /\ UNCHANGED <<log, links, conf, target, queued, polled, long, notes, wires, heard, receives, sees, budget>>

ActiveDies ==
  /\ alive /\ alive' = FALSE /\ streaming' = FALSE
  /\ UNCHANGED <<log, line, conf, target, queued, polled, long, notes, wires, standby, budget>>

ReplNext ==
  \/ WriteLog \/ Stream \/ ConfirmWrite \/ Reconnect \/ Break \/ Heal
  \/ Poll \/ AsyncAfter \/ SyncTick \/ ApplySync \/ HearWitness \/ RestartActive
  \/ WitnessNotes \/ LoseMessage
  \/ HeartbeatIn \/ LoseSight \/ OwnPoll \/ JudgeData \/ ActiveDies

ReplFair ==
  /\ WF_replVars(Stream) /\ WF_replVars(Reconnect)
  /\ WF_replVars(Heal) /\ WF_replVars(Poll)
  /\ WF_replVars(SyncTick) /\ WF_replVars(ApplySync)
  /\ WF_replVars(HearWitness) /\ WF_replVars(WitnessNotes)

ReplSpec == ReplInit /\ [][ReplNext]_replVars /\ ReplFair

-----------------------------------------------------------------------------
(* Properties. *)

ReplTypeOK ==
  /\ lsn \in 0 .. MaxLog /\ flushed \in 0 .. lsn /\ confirmed \in 0 .. lsn
  /\ {line, streaming, conf, target, queued, long, ownNote, ackedNote, note,
      receives, sees, dataCurrent, alive} \subseteq BOOLEAN
  /\ polled \in [streaming : BOOLEAN, lag : 0 .. MaxLog]
  /\ heard \in [sync : BOOLEAN, stale : BOOLEAN, lag : 0 .. MaxLog]
  /\ toWitness \in Seq({"stale", "current"}) /\ toActive \in Seq({"stale", "current"})

\* The standby may become active on its own: it holds itself for current, no
\* longer sees the active server, and the witness would vote for it.
MayTakeOver == dataCurrent /\ ~sees /\ ~alive /\ ~note

\* A standby that may take over lacks no more of the writes confirmed to users
\* than LagLimit, how far behind it may be when the active server begins to wait
\* for it; with LagLimit = 0 it has all.  The witness votes "sonst koennte der
\* veraltete Partner ... uebernehmen und Speicherungen gingen verloren" (sync.go).
ConfirmedSurvives == MayTakeOver => confirmed <= flushed + LagLimit

\* The mirror comes back: once the line holds and the active server lives, the
\* database waits for the standby again and no note keeps it from taking over.
MirrorReturns ==
  <>[]alive => <>[](conf /\ ~note /\ ~ownNote)
=============================================================================
