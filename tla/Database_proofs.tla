--------------------------- MODULE Database_proofs ---------------------------
(* Theorems about the database of a pair of servers: Replication, for any  *)
(* lag limit and any number of writes, breaks, losses and restarts, and    *)
(* DataDirectory, for any number of turns, crashes and directories set     *)
(* aside.                                                                  *)
EXTENDS Replication, DataDirectory, SequenceTheorems, TLAPS

-----------------------------------------------------------------------------
(*                              Replication                                *)
-----------------------------------------------------------------------------
(* Types.                                                                  *)

Wire == {"stale", "current"}
Used == [breaks : Nat, losses : Nat, restarts : Nat]

LogInv == lsn \in 0 .. MaxLog /\ flushed \in 0 .. lsn /\ confirmed \in 0 .. lsn

FlagsInv ==
  /\ line \in BOOLEAN /\ streaming \in BOOLEAN /\ conf \in BOOLEAN /\ target \in BOOLEAN
  /\ queued \in BOOLEAN /\ long \in BOOLEAN /\ ownNote \in BOOLEAN /\ ackedNote \in BOOLEAN
  /\ note \in BOOLEAN /\ receives \in BOOLEAN /\ sees \in BOOLEAN
  /\ dataCurrent \in BOOLEAN /\ alive \in BOOLEAN

WiresInv ==
  /\ polled \in [streaming : BOOLEAN, lag : 0 .. MaxLog]
  /\ heard \in [sync : BOOLEAN, stale : BOOLEAN, lag : 0 .. MaxLog]
  /\ toWitness \in Seq(Wire) /\ toActive \in Seq(Wire) /\ budget \in Used

TypesInv == LogInv /\ FlagsInv /\ WiresInv

Decision == [wantSync : BOOLEAN, sendStale : BOOLEAN, sendCurrent : BOOLEAN,
             markStale : BOOLEAN, clearStale : BOOLEAN]

\* What the decision can be.
LEMMA WhatSyncStepSays ==
  ASSUME FlagsInv, NEW st \in [streaming : BOOLEAN, lag : 0 .. MaxLog], NEW overdue \in BOOLEAN
  PROVE  /\ SyncStep(st, overdue) \in Decision
         /\ SyncStep(st, overdue).sendStale =>
              /\ target /\ ~st.streaming /\ overdue /\ SyncStep(st, overdue).wantSync
              /\ ~SyncStep(st, overdue).sendCurrent
         /\ SyncStep(st, overdue).sendCurrent => target /\ st.streaming /\ SyncStep(st, overdue).wantSync
         /\ target /\ ~SyncStep(st, overdue).wantSync =>
              overdue /\ (Mode = "trio" => ackedNote) /\ ~SyncStep(st, overdue).sendCurrent
         /\ ~target /\ SyncStep(st, overdue).wantSync => st.lag <= LagLimit
<1> DEFINE out == [wantSync |-> target, sendStale |-> FALSE, sendCurrent |-> FALSE,
                   markStale |-> FALSE, clearStale |-> FALSE]
<1>1. /\ out \in Decision /\ out.wantSync = target /\ ~out.sendStale /\ ~out.sendCurrent
      /\ ~out.markStale /\ ~out.clearStale
  BY DEF Decision, FlagsInv
<1>2. /\ target \in BOOLEAN /\ st.streaming \in BOOLEAN /\ ackedNote \in BOOLEAN /\ ownNote \in BOOLEAN
  BY DEF FlagsInv
<1>3. CASE target /\ ~st.streaming /\ overdue
  <2>1. CASE Mode = "trio" /\ ~ackedNote
    <3>1. SyncStep(st, overdue) = [out EXCEPT !.sendStale = TRUE]
      BY <1>3, <2>1 DEF SyncStep
    <3> HIDE DEF out
    <3> QED
      BY <1>1, <1>3, <3>1 DEF Decision
  <2>2. CASE ~(Mode = "trio" /\ ~ackedNote)
    <3>1. SyncStep(st, overdue) = [out EXCEPT !.wantSync = FALSE, !.markStale = TRUE]
      BY <1>3, <2>2 DEF SyncStep
    <3> HIDE DEF out
    <3> QED
      BY <1>1, <1>2, <1>3, <2>2, <3>1 DEF Decision
  <2> QED
    BY <2>1, <2>2
<1>4. CASE ~target /\ st.streaming /\ st.lag <= LagLimit
  <2>1. SyncStep(st, overdue) = [out EXCEPT !.wantSync = TRUE]
    BY <1>4 DEF SyncStep
  <2> HIDE DEF out
  <2> QED
    BY <1>1, <1>4, <2>1 DEF Decision
<1>5. CASE target /\ st.streaming /\ (ownNote \/ ackedNote)
  <2>1. SyncStep(st, overdue) \in {[out EXCEPT !.sendCurrent = TRUE], [out EXCEPT !.clearStale = TRUE]}
    BY <1>5 DEF SyncStep
  <2> HIDE DEF out
  <2> QED
    BY <1>1, <1>5, <2>1 DEF Decision
<1>6. CASE ~(target /\ ~st.streaming /\ overdue) /\ ~(~target /\ st.streaming /\ st.lag <= LagLimit)
           /\ ~(target /\ st.streaming /\ (ownNote \/ ackedNote))
  <2>1. SyncStep(st, overdue) = out
    BY <1>6 DEF SyncStep
  <2> HIDE DEF out
  <2> QED
    BY <1>1, <2>1
<1> QED
  BY <1>3, <1>4, <1>5, <1>6

LEMMA TypesInit == ReplInit => TypesInv
<1> SUFFICES ASSUME ReplInit PROVE TypesInv
  OBVIOUS
<1>1. LogInv
  BY ReplicationAssumption DEF ReplInit, LogInv
<1>2. FlagsInv
  BY DEF ReplInit, FlagsInv
<1>3. WiresInv
  BY ReplicationAssumption DEF ReplInit, WiresInv, Used
<1> QED
  BY <1>1, <1>2, <1>3 DEF TypesInv

\* A tick of the active server, as the other proofs use it.
LEMMA WhatTheTickDoes ==
  ASSUME TypesInv, SyncTick
  PROVE  \E out \in Decision, overdue \in BOOLEAN :
           /\ out = SyncStep(polled, overdue) /\ overdue = (long /\ ~polled.streaming)
           /\ long' = overdue /\ ownNote' \in BOOLEAN /\ target' = out.wantSync
           /\ out.wantSync = target => UNCHANGED <<conf, queued>>
           /\ out.wantSync # target /\ Prompt => conf' = out.wantSync /\ UNCHANGED queued
           /\ out.wantSync # target /\ ~Prompt => queued' = TRUE /\ UNCHANGED conf
           /\ \/ out.sendStale /\ toWitness = <<>> /\ toActive = <<>> /\ toWitness' = <<"stale">>
              \/ ~out.sendStale /\ out.sendCurrent
                 /\ toWitness = <<>> /\ toActive = <<>> /\ toWitness' = <<"current">>
              \/ ~out.sendStale /\ ~out.sendCurrent /\ toWitness' = toWitness
           /\ alive
           /\ Prompt => polled = [streaming |-> streaming, lag |-> Lag]
           /\ UNCHANGED <<log, links, polled, ackedNote, note, toActive, standby, budget>>
<1> DEFINE overdue == long /\ ~polled.streaming
           out == SyncStep(polled, overdue)
           say == IF out.sendStale THEN <<"stale">> ELSE IF out.sendCurrent THEN <<"current">> ELSE <<>>
<1>1. overdue \in BOOLEAN /\ out \in Decision
  BY WhatSyncStepSays DEF TypesInv, FlagsInv, WiresInv
<1>2. /\ alive
      /\ Prompt => polled = [streaming |-> streaming, lag |-> Lag]
      /\ long' = overdue
      /\ ownNote' = ((ownNote \/ out.markStale) /\ ~out.clearStale)
      /\ target' = out.wantSync
      /\ IF out.wantSync = target THEN UNCHANGED <<conf, queued>>
         ELSE IF Prompt THEN conf' = out.wantSync /\ UNCHANGED queued
         ELSE queued' = TRUE /\ UNCHANGED conf
      /\ say # <<>> => toWitness = <<>> /\ toActive = <<>>
      /\ toWitness' = toWitness \o say
      /\ UNCHANGED <<log, links, polled, ackedNote, note, toActive, standby, budget>>
  BY DEF SyncTick
<1>3. \/ out.sendStale /\ toWitness = <<>> /\ toActive = <<>> /\ toWitness' = <<"stale">>
      \/ ~out.sendStale /\ out.sendCurrent
         /\ toWitness = <<>> /\ toActive = <<>> /\ toWitness' = <<"current">>
      \/ ~out.sendStale /\ ~out.sendCurrent /\ toWitness' = toWitness
  <2> HIDE DEF out
  <2>1. toWitness \in Seq(Wire)
    BY DEF TypesInv, WiresInv
  <2>2. \A s \in Seq(Wire) : <<>> \o s = s /\ s \o <<>> = s
    BY ConcatEmptySeq
  <2>3. <<"stale">> \in Seq(Wire) /\ <<"current">> \in Seq(Wire) /\ <<"stale">> # <<>> /\ <<"current">> # <<>>
    BY DEF Wire
  <2> QED
    BY <1>2, <2>1, <2>2, <2>3
<1>4. ownNote' \in BOOLEAN
  BY <1>2
<1> HIDE DEF overdue, out
<1>5. out = SyncStep(polled, overdue) /\ overdue = (long /\ ~polled.streaming)
  BY DEF out, overdue
<1> QED
  BY <1>1, <1>2, <1>3, <1>4, <1>5

LEMMA TypesKept == TypesInv /\ [ReplNext]_replVars => TypesInv'
<1> SUFFICES ASSUME TypesInv, [ReplNext]_replVars PROVE TypesInv'
  OBVIOUS
<1> USE DEF log, links, notes, standby, wires
<1>0. LogInv /\ FlagsInv /\ WiresInv
  BY DEF TypesInv
<1>1. CASE WriteLog
  <2>1. LogInv'
    BY <1>0, <1>1, ReplicationAssumption DEF WriteLog, LogInv
  <2> QED
    BY <1>0, <1>1, <2>1 DEF WriteLog, FlagsInv, WiresInv, TypesInv
<1>2. CASE Stream
  <2>1. LogInv'
    BY <1>0, <1>2, ReplicationAssumption DEF Stream, LogInv
  <2> QED
    BY <1>0, <1>2, <2>1 DEF Stream, FlagsInv, WiresInv, TypesInv
<1>3. CASE ConfirmWrite
  <2>1. LogInv'
    BY <1>0, <1>3, ReplicationAssumption DEF ConfirmWrite, LogInv
  <2> QED
    BY <1>0, <1>3, <2>1 DEF ConfirmWrite, FlagsInv, WiresInv, TypesInv
<1>4. CASE Reconnect \/ Heal \/ ActiveDies \/ AsyncAfter \/ LoseSight
  <2>1. UNCHANGED <<log, polled, heard, receives, wires, budget>>
    BY <1>4 DEF Reconnect, Heal, ActiveDies, AsyncAfter, LoseSight
  <2>2. /\ UNCHANGED <<conf, target, queued, notes, dataCurrent>>
        /\ line' \in {line, TRUE} /\ streaming' \in {streaming, TRUE, FALSE}
        /\ long' \in {long, TRUE} /\ sees' \in {sees, FALSE} /\ alive' \in {alive, FALSE}
    BY <1>4, Zenon DEF Reconnect, Heal, ActiveDies, AsyncAfter, LoseSight
  <2>3. /\ line' \in BOOLEAN /\ streaming' \in BOOLEAN /\ long' \in BOOLEAN
        /\ sees' \in BOOLEAN /\ alive' \in BOOLEAN
    BY <1>0, <2>2, Zenon DEF FlagsInv
  <2>4. FlagsInv'
    BY <1>0, <2>1, <2>2, <2>3, Zenon DEF FlagsInv
  <2> QED
    BY <1>0, <2>1, <2>4 DEF LogInv, WiresInv, TypesInv
<1>5. CASE Break
  <2>1. budget' \in Used
    <3>1. budget' = [budget EXCEPT !.breaks = @ + 1] /\ budget \in Used
      BY <1>0, <1>5 DEF Break, WiresInv
    <3> QED
      BY <3>1 DEF Used
  <2>2. /\ line' = FALSE /\ streaming' = FALSE
        /\ UNCHANGED <<log, alive, conf, target, queued, polled, long, notes, wires, standby>>
    BY <1>5 DEF Break
  <2>3. FlagsInv'
    <3>1. line' \in BOOLEAN /\ streaming' \in BOOLEAN
      BY <1>0, <2>2 DEF FlagsInv
    <3>2. UNCHANGED <<conf, target, queued, long, ownNote, ackedNote, note, receives, sees,
                      dataCurrent, alive>>
      BY <2>2
    <3> QED
      BY <1>0, <3>1, <3>2, SMT DEF FlagsInv
  <2> QED
    BY <1>0, <2>1, <2>2, <2>3 DEF LogInv, WiresInv, TypesInv
<1>6. CASE Poll
  <2>1. polled' \in [streaming : BOOLEAN, lag : 0 .. MaxLog]
    <3>1. Lag \in 0 .. MaxLog
      BY <1>0, ReplicationAssumption DEF Lag, LogInv
    <3>2. polled' = [streaming |-> streaming, lag |-> Lag] /\ streaming \in BOOLEAN
      BY <1>0, <1>6 DEF Poll, FlagsInv
    <3> QED
      BY <3>1, <3>2
  <2>2. UNCHANGED <<log, links, conf, target, queued, long, notes, wires, standby, budget>>
    BY <1>6 DEF Poll
  <2>3. LogInv' /\ FlagsInv'
    BY <1>0, <2>2 DEF LogInv, FlagsInv
  <2> QED
    BY <1>0, <2>1, <2>2, <2>3 DEF WiresInv, TypesInv
<1>7. CASE SyncTick
  <2>1. PICK out \in Decision, overdue \in BOOLEAN :
          /\ long' = overdue /\ ownNote' \in BOOLEAN /\ target' = out.wantSync
          /\ out.wantSync = target => UNCHANGED <<conf, queued>>
          /\ out.wantSync # target /\ Prompt => conf' = out.wantSync /\ UNCHANGED queued
          /\ out.wantSync # target /\ ~Prompt => queued' = TRUE /\ UNCHANGED conf
          /\ toWitness' \in {<<"stale">>, <<"current">>, toWitness}
          /\ UNCHANGED <<log, links, polled, ackedNote, note, toActive, standby, budget>>
    BY <1>7, WhatTheTickDoes
  <2>2. FlagsInv'
    <3>1. out.wantSync \in BOOLEAN /\ Prompt \in BOOLEAN
      BY <2>1, ReplicationAssumption DEF Decision
    <3>2. target' \in BOOLEAN /\ conf' \in BOOLEAN /\ queued' \in BOOLEAN /\ long' \in BOOLEAN
      BY <1>0, <2>1, <3>1 DEF FlagsInv
    <3> QED
      BY <1>0, <2>1, <3>2 DEF FlagsInv
  <2>3. toWitness' \in Seq(Wire)
    <3>1. <<"stale">> \in Seq(Wire) /\ <<"current">> \in Seq(Wire)
      BY DEF Wire
    <3> QED
      BY <1>0, <2>1, <3>1 DEF WiresInv
  <2> QED
    BY <1>0, <2>1, <2>2, <2>3 DEF LogInv, WiresInv, TypesInv
<1>8. CASE ApplySync
  <2>1. /\ queued' = FALSE /\ conf' = target
        /\ UNCHANGED <<log, links, target, polled, long, notes, wires, standby, budget>>
    BY <1>8 DEF ApplySync
  <2>2. FlagsInv'
    <3>1. queued' \in BOOLEAN /\ conf' \in BOOLEAN
      BY <1>0, <2>1 DEF FlagsInv
    <3>2. UNCHANGED <<line, streaming, target, long, ownNote, ackedNote, note, receives, sees,
                      dataCurrent, alive>>
      BY <2>1
    <3> QED
      BY <1>0, <3>1, <3>2, SMT DEF FlagsInv
  <2> QED
    BY <1>0, <2>1, <2>2 DEF LogInv, WiresInv, TypesInv
<1>9. CASE HearWitness
  <2>1. toActive' \in Seq(Wire)
    <3>1. toActive' = Tail(toActive) /\ toActive # <<>> /\ toActive \in Seq(Wire)
      BY <1>0, <1>9 DEF HearWitness, WiresInv
    <3> QED
      BY <3>1
  <2>2. UNCHANGED <<log, links, conf, target, queued, polled, long, note, toWitness, standby, budget>>
    BY <1>9 DEF HearWitness
  <2>3. ackedNote' \in {TRUE, FALSE} /\ ownNote' \in {ownNote, FALSE}
    BY <1>9, Zenon DEF HearWitness
  <2>4. FlagsInv'
    <3>1. ackedNote' \in BOOLEAN /\ ownNote' \in BOOLEAN
      BY <1>0, <2>3 DEF FlagsInv
    <3>2. UNCHANGED <<line, streaming, conf, target, queued, long, note, receives, sees,
                      dataCurrent, alive>>
      BY <2>2
    <3> QED
      BY <1>0, <3>1, <3>2, SMT DEF FlagsInv
  <2> QED
    BY <1>0, <2>1, <2>2, <2>4 DEF LogInv, WiresInv, TypesInv
<1>10. CASE RestartActive
  <2>1. budget' \in Used
    <3>1. budget' = [budget EXCEPT !.restarts = @ + 1] /\ budget \in Used
      BY <1>0, <1>10 DEF RestartActive, WiresInv
    <3> QED
      BY <3>1 DEF Used
  <2>2. /\ ackedNote' = FALSE /\ target' = conf /\ queued' = FALSE /\ long' = FALSE
        /\ UNCHANGED <<log, links, conf, polled, ownNote, note, wires, standby>>
    BY <1>10 DEF RestartActive
  <2>3. FlagsInv'
    <3>1. ackedNote' \in BOOLEAN /\ target' \in BOOLEAN /\ queued' \in BOOLEAN /\ long' \in BOOLEAN
      BY <1>0, <2>2 DEF FlagsInv
    <3>2. UNCHANGED <<line, streaming, conf, ownNote, note, receives, sees, dataCurrent, alive>>
      BY <2>2
    <3> QED
      BY <1>0, <3>1, <3>2, SMT DEF FlagsInv
  <2> QED
    BY <1>0, <2>1, <2>2, <2>3 DEF LogInv, WiresInv, TypesInv
<1>11. CASE WitnessNotes
  <2>1. toActive' \in Seq(Wire) /\ toWitness' \in Seq(Wire)
    BY <1>0, <1>11 DEF WitnessNotes, WiresInv
  <2>2. /\ note' = (Head(toWitness) = "stale")
        /\ UNCHANGED <<log, links, conf, target, queued, polled, long, ownNote, ackedNote, standby, budget>>
    BY <1>11 DEF WitnessNotes
  <2>3. note' \in BOOLEAN
    BY <2>2
  <2>4. LogInv' /\ FlagsInv'
    BY <1>0, <2>2, <2>3 DEF LogInv, FlagsInv
  <2> QED
    BY <1>0, <2>1, <2>2, <2>4 DEF WiresInv, TypesInv
<1>12. CASE LoseMessage
  <2>1. toActive' \in Seq(Wire) /\ toWitness' \in Seq(Wire)
    <3>1. toWitness \in Seq(Wire) /\ toActive \in Seq(Wire)
      BY <1>0 DEF WiresInv
    <3>2. CASE toWitness # <<>> /\ toWitness' = Tail(toWitness) /\ UNCHANGED toActive
      BY <3>1, <3>2
    <3>3. CASE toActive # <<>> /\ toActive' = Tail(toActive) /\ UNCHANGED toWitness
      BY <3>1, <3>3
    <3> QED
      BY <1>12, <3>2, <3>3 DEF LoseMessage
  <2>2. budget' \in Used
    <3>1. budget' = [budget EXCEPT !.losses = @ + 1] /\ budget \in Used
      BY <1>0, <1>12 DEF LoseMessage, WiresInv
    <3> QED
      BY <3>1 DEF Used
  <2>3. UNCHANGED <<log, links, conf, target, queued, polled, long, notes, standby>>
    BY <1>12 DEF LoseMessage
  <2>4. LogInv' /\ FlagsInv'
    BY <1>0, <2>3 DEF LogInv, FlagsInv
  <2> QED
    BY <1>0, <2>1, <2>2, <2>3, <2>4 DEF WiresInv, TypesInv
<1>13. CASE HeartbeatIn
  <2>1. /\ heard' = [sync |-> target, stale |-> ownNote,
                     lag |-> IF polled.streaming THEN polled.lag ELSE 0]
        /\ sees' \in {sees, TRUE}
        /\ UNCHANGED <<log, links, conf, target, queued, polled, long, notes, wires, receives, dataCurrent, budget>>
    BY <1>13 DEF HeartbeatIn
  <2>2. LogInv' /\ FlagsInv'
    <3>1. sees' \in BOOLEAN
      BY <1>0, <2>1 DEF FlagsInv
    <3> QED
      BY <1>0, <2>1, <3>1 DEF LogInv, FlagsInv
  <2>3. heard' \in [sync : BOOLEAN, stale : BOOLEAN, lag : 0 .. MaxLog]
    <3>1. target \in BOOLEAN /\ ownNote \in BOOLEAN
      BY <1>0 DEF FlagsInv
    <3>2. polled.lag \in 0 .. MaxLog /\ 0 \in 0 .. MaxLog
      BY <1>0, ReplicationAssumption DEF WiresInv
    <3> QED
      BY <2>1, <3>1, <3>2
  <2>4. WiresInv'
    BY <1>0, <2>1, <2>3 DEF WiresInv
  <2> QED
    BY <2>2, <2>4 DEF TypesInv
<1>14. CASE JudgeData
  <2>1. dataCurrent' \in BOOLEAN
    BY <1>14 DEF JudgeData
  <2> QED
    BY <1>0, <1>14, <2>1 DEF JudgeData, LogInv, FlagsInv, WiresInv, TypesInv
<1>15. CASE OwnPoll
  BY <1>0, <1>15 DEF OwnPoll, LogInv, FlagsInv, WiresInv, TypesInv
<1>16. CASE UNCHANGED replVars
  BY <1>0, <1>16 DEF replVars, LogInv, FlagsInv, WiresInv, TypesInv
<1> QED
  BY <1>1, <1>2, <1>3, <1>4, <1>5, <1>6, <1>7, <1>8, <1>9, <1>10, <1>11, <1>12, <1>13,
     <1>14, <1>15, <1>16 DEF ReplNext

\* The variables of the replication keep their types, whatever is delayed or lost
\* (sync.go, repl.go).
THEOREM ReplTypes == ReplSpec => []ReplTypeOK
<1>1. TypesInv => ReplTypeOK
  <2> SUFFICES ASSUME TypesInv PROVE ReplTypeOK
    OBVIOUS
  <2>1. {line, streaming, conf, target, queued, long, ownNote, ackedNote, note,
         receives, sees, dataCurrent, alive} \subseteq BOOLEAN
    BY DEF TypesInv, FlagsInv
  <2> QED
    BY <2>1 DEF TypesInv, LogInv, WiresInv, Wire, ReplTypeOK
<1> QED
  BY <1>1, TypesInit, TypesKept, PTL DEF ReplSpec

-----------------------------------------------------------------------------
(* Confirmed writes, with a witness and an active server that ticks on the *)
(* status of the moment (Prompt).                                          *)

\* The database waits as the target says: a setting applies at once.
Settled == ~queued /\ conf = target

\* One question at a time is under way between the active server and the witness.
OneQuestion ==
  \/ toWitness = <<>> /\ toActive = <<>>
  \/ toWitness = <<"stale">> /\ toActive = <<>>
  \/ toWitness = <<"current">> /\ toActive = <<>>
  \/ toWitness = <<>> /\ toActive = <<"stale">>
  \/ toWitness = <<>> /\ toActive = <<"current">>

TakingBack == toWitness = <<"current">> \/ toActive = <<"current">>

\* While the note is being taken back the database waits, and AsyncAfter begins
\* anew: it cannot pass before the answer.  Hence the server never goes on alone
\* on the strength of a note the witness no longer has.
NoteInv ==
  /\ toActive = <<"stale">> => note
  /\ TakingBack => conf /\ ~long
  /\ budget.losses = 0 /\ ackedNote => note \/ toActive = <<"current">>
  /\ budget.losses = 0 /\ ~conf => note

\* Whoever waits for the standby has confirmed no more than LagLimit beyond what
\* the standby has: so far behind it may be when the waiting begins, and while it
\* is behind nothing is confirmed.
WaitInv == conf => confirmed <= flushed + LagLimit

MirrorInv == TypesInv /\ Settled /\ OneQuestion /\ NoteInv /\ WaitInv

LEMMA MirrorInit == ReplInit => MirrorInv
<1> SUFFICES ASSUME ReplInit PROVE MirrorInv
  OBVIOUS
<1>1. TypesInv
  BY TypesInit
<1>2. Settled /\ OneQuestion /\ WaitInv
  BY ReplicationAssumption DEF ReplInit, Settled, OneQuestion, WaitInv
<1>3. NoteInv
  <2>1. ~TakingBack /\ toActive # <<"stale">>
    BY DEF ReplInit, TakingBack
  <2> QED
    BY <2>1 DEF ReplInit, NoteInv
<1> QED
  BY <1>1, <1>2, <1>3 DEF MirrorInv

LEMMA OneMessage ==
  /\ Head(<<"stale">>) = "stale" /\ Tail(<<"stale">>) = <<>> /\ <<"stale">> # <<>>
  /\ Head(<<"current">>) = "current" /\ Tail(<<"current">>) = <<>> /\ <<"current">> # <<>>
  /\ Append(<<>>, "stale") = <<"stale">> /\ Append(<<>>, "current") = <<"current">>
  /\ <<"stale">> # <<"current">>
OBVIOUS

\* What concerns neither the notes nor the setting.
LEMMA NotesRest ==
  ASSUME Settled, OneQuestion, NoteInv, budget.losses \in Nat, budget'.losses \in Nat,
         UNCHANGED <<wires, notes, conf, target>>, queued' = queued,
         budget'.losses >= budget.losses, long' => long
  PROVE  Settled' /\ OneQuestion' /\ NoteInv'
<1>1. UNCHANGED <<toWitness, toActive, ackedNote, note>>
  BY DEF wires, notes
<1>2. Settled' /\ OneQuestion' /\ (TakingBack' <=> TakingBack)
  BY <1>1 DEF Settled, OneQuestion, TakingBack
<1>3. budget'.losses = 0 => budget.losses = 0
  OBVIOUS
<1> QED
  BY <1>1, <1>2, <1>3 DEF NoteInv

LEMMA MirrorKept ==
  ASSUME Mode = "trio", Prompt, MirrorInv, [ReplNext]_replVars
  PROVE  MirrorInv'
<1> USE DEF log, links, notes, standby, wires
<1>0. /\ TypesInv /\ Settled /\ OneQuestion /\ NoteInv /\ WaitInv
      /\ LogInv /\ FlagsInv /\ WiresInv
  BY DEF MirrorInv, TypesInv
<1>a. TypesInv'
  BY <1>0, TypesKept
<1>b. budget.losses \in Nat /\ budget'.losses \in Nat
  BY <1>0, <1>a DEF TypesInv, WiresInv, Used
<1>1. CASE WriteLog \/ Stream \/ ConfirmWrite \/ Reconnect \/ Heal \/ Poll
           \/ HeartbeatIn \/ LoseSight \/ OwnPoll \/ JudgeData \/ ActiveDies
  <2>1. UNCHANGED <<wires, notes, conf, target, queued, budget, long>>
    BY <1>1 DEF WriteLog, Stream, ConfirmWrite, Reconnect, Heal, Poll, HeartbeatIn, LoseSight,
                OwnPoll, JudgeData, ActiveDies
  <2>2. \/ flushed' = flushed + 1 /\ UNCHANGED confirmed
        \/ UNCHANGED <<flushed, confirmed>>
        \/ (conf => flushed > confirmed) /\ confirmed' = confirmed + 1 /\ UNCHANGED flushed
    BY <1>1 DEF WriteLog, Stream, ConfirmWrite, Reconnect, Heal, Poll, HeartbeatIn, LoseSight,
                OwnPoll, JudgeData, ActiveDies
  <2>3. WaitInv'
    <3>1. flushed \in Nat /\ confirmed \in Nat /\ LagLimit \in Nat /\ conf' = conf
      BY <1>0, <2>1, ReplicationAssumption DEF LogInv
    <3> QED
      BY <1>0, <2>2, <3>1 DEF WaitInv
  <2> QED
    BY <1>0, <1>a, <1>b, <2>1, <2>3, NotesRest DEF MirrorInv
<1>2. CASE Break
  <2>1. /\ UNCHANGED <<wires, notes, conf, target, queued, long, log>>
        /\ budget'.losses = budget.losses
    BY <1>0, <1>2 DEF Break, WiresInv, Used
  <2> QED
    BY <1>0, <1>a, <1>b, <2>1, NotesRest DEF MirrorInv, WaitInv
<1>3. CASE AsyncAfter
  <2>1. /\ UNCHANGED <<wires, notes, conf, target, queued, log, budget>>
        /\ toWitness = <<>> /\ toActive = <<>>
    BY <1>3 DEF AsyncAfter
  <2>2. ~TakingBack' /\ toActive' # <<"stale">>
    BY <2>1 DEF TakingBack
  <2> QED
    BY <1>0, <1>a, <2>1, <2>2 DEF MirrorInv, WaitInv, Settled, OneQuestion, NoteInv
<1>4. CASE SyncTick
  <2>1. PICK out \in Decision, overdue \in BOOLEAN :
           /\ out = SyncStep(polled, overdue) /\ overdue = (long /\ ~polled.streaming)
           /\ long' = overdue /\ ownNote' \in BOOLEAN /\ target' = out.wantSync
           /\ out.wantSync = target => UNCHANGED <<conf, queued>>
           /\ out.wantSync # target /\ Prompt => conf' = out.wantSync /\ UNCHANGED queued
           /\ out.wantSync # target /\ ~Prompt => queued' = TRUE /\ UNCHANGED conf
           /\ \/ out.sendStale /\ toWitness = <<>> /\ toActive = <<>> /\ toWitness' = <<"stale">>
              \/ ~out.sendStale /\ out.sendCurrent
                 /\ toWitness = <<>> /\ toActive = <<>> /\ toWitness' = <<"current">>
              \/ ~out.sendStale /\ ~out.sendCurrent /\ toWitness' = toWitness
           /\ alive
           /\ Prompt => polled = [streaming |-> streaming, lag |-> Lag]
           /\ UNCHANGED <<log, links, polled, ackedNote, note, toActive, standby, budget>>
    BY <1>0, <1>4, WhatTheTickDoes
  <2>2. /\ out.sendStale => out.wantSync /\ target
        /\ out.sendCurrent => target /\ polled.streaming /\ out.wantSync
        /\ target /\ ~out.wantSync => overdue /\ ackedNote /\ ~out.sendCurrent
        /\ ~target /\ out.wantSync => polled.lag <= LagLimit
    BY <1>0, <2>1, WhatSyncStepSays DEF WiresInv
  <2>3. Settled' /\ OneQuestion'
    BY <1>0, <2>1 DEF Settled, OneQuestion
  <2>4. conf' = out.wantSync /\ conf = target /\ target \in BOOLEAN /\ out.wantSync \in BOOLEAN
    BY <1>0, <2>1 DEF Settled, FlagsInv, Decision
  <2>5. WaitInv'
    <3>1. CASE conf
      BY <1>0, <2>1, <3>1 DEF WaitInv
    <3>2. CASE ~conf /\ out.wantSync
      <4>1. Lag <= LagLimit
        BY <2>1, <2>2, <2>4, <3>2
      <4> QED
        BY <1>0, <2>1, <4>1, ReplicationAssumption DEF LogInv, Lag, WaitInv
    <3>3. CASE ~out.wantSync
      BY <2>4, <3>3 DEF WaitInv
    <3> QED
      BY <3>1, <3>2, <3>3
  <2>6. TakingBack' => conf' /\ ~long'
    <3>1. CASE out.sendStale
      <4>1. toWitness' = <<"stale">> /\ toActive' = <<>>
        BY <2>1, <3>1
      <4> QED
        BY <4>1 DEF TakingBack
    <3>2. CASE ~out.sendStale /\ out.sendCurrent
      BY <2>1, <2>2, <2>4, <3>2
    <3>3. CASE ~out.sendStale /\ ~out.sendCurrent
      <4>1. UNCHANGED <<toWitness, toActive>>
        BY <2>1, <3>3
      <4>2. TakingBack' <=> TakingBack
        BY <4>1 DEF TakingBack
      <4>3. TakingBack => ~overdue /\ conf
        BY <1>0, <2>1 DEF NoteInv
      <4> QED
        BY <2>1, <2>2, <2>4, <4>2, <4>3
    <3> QED
      BY <3>1, <3>2, <3>3
  <2>7. budget'.losses = 0 /\ ~conf' => note'
    <3> SUFFICES ASSUME budget'.losses = 0, ~conf' PROVE note'
      OBVIOUS
    <3>1. CASE ~conf
      BY <1>0, <2>1, <3>1 DEF NoteInv
    <3>2. CASE conf
      <4>1. overdue /\ ackedNote
        BY <2>2, <2>4, <3>2
      <4>2. ~TakingBack
        BY <1>0, <2>1, <4>1 DEF NoteInv
      <4> QED
        BY <1>0, <2>1, <4>1, <4>2 DEF NoteInv, TakingBack
    <3> QED
      BY <3>1, <3>2
  <2>8. NoteInv'
    BY <1>0, <2>1, <2>6, <2>7 DEF NoteInv
  <2> QED
    BY <1>a, <2>3, <2>5, <2>8 DEF MirrorInv
<1>5. CASE ApplySync
  BY <1>0, <1>5 DEF ApplySync, Settled
<1>6. CASE HearWitness
  <2>1. /\ toActive # <<>> /\ toActive' = Tail(toActive)
        /\ UNCHANGED <<log, conf, target, queued, long, note, toWitness, budget>>
        /\ Head(toActive) = "stale" => ackedNote' = TRUE
        /\ Head(toActive) # "stale" => ackedNote' = FALSE
    BY <1>6 DEF HearWitness
  <2>2. /\ toWitness = <<>> /\ toWitness' = <<>> /\ toActive' = <<>>
        /\ toActive = <<"stale">> \/ toActive = <<"current">>
        /\ Head(toActive) = "stale" => toActive = <<"stale">>
    <3>1. toWitness = <<>> /\ (toActive = <<"stale">> \/ toActive = <<"current">>)
      BY <1>0, <2>1, OneMessage DEF OneQuestion
    <3> QED
      BY <2>1, <3>1, OneMessage
  <2>3. ~TakingBack' /\ toActive' # <<"stale">>
    BY <2>2 DEF TakingBack
  <2>4. Settled' /\ OneQuestion' /\ WaitInv'
    BY <1>0, <2>1, <2>2 DEF Settled, OneQuestion, WaitInv
  <2>5. ackedNote' => note'
    BY <1>0, <2>1, <2>2 DEF NoteInv
  <2>6. NoteInv'
    BY <1>0, <2>1, <2>3, <2>5 DEF NoteInv
  <2> QED
    BY <1>a, <2>4, <2>6 DEF MirrorInv
<1>7. CASE RestartActive
  <2>1. /\ UNCHANGED <<log, conf, note, wires>> /\ budget'.losses = budget.losses
        /\ ackedNote' = FALSE /\ target' = conf /\ queued' = FALSE /\ long' = FALSE
    BY <1>0, <1>7 DEF RestartActive, WiresInv, Used
  <2>2. TakingBack' <=> TakingBack
    BY <2>1 DEF TakingBack
  <2>3. Settled' /\ OneQuestion' /\ WaitInv'
    BY <1>0, <2>1 DEF Settled, OneQuestion, WaitInv
  <2>4. NoteInv'
    BY <1>0, <2>1, <2>2 DEF NoteInv
  <2> QED
    BY <1>a, <2>3, <2>4 DEF MirrorInv
<1>8. CASE WitnessNotes
  <2>1. /\ toWitness # <<>> /\ note' = (Head(toWitness) = "stale")
        /\ toActive' = Append(toActive, Head(toWitness)) /\ toWitness' = Tail(toWitness)
        /\ UNCHANGED <<log, conf, target, queued, long, ackedNote, budget>>
    BY <1>8 DEF WitnessNotes
  <2>2. /\ toWitness' = <<>>
        /\ \/ toWitness = <<"stale">> /\ toActive' = <<"stale">> /\ note'
           \/ toWitness = <<"current">> /\ toActive' = <<"current">> /\ ~note'
    <3>1. toActive = <<>> /\ (toWitness = <<"stale">> \/ toWitness = <<"current">>)
      BY <1>0, <2>1, OneMessage DEF OneQuestion
    <3>2. CASE toWitness = <<"stale">>
      BY <2>1, <3>1, <3>2, OneMessage
    <3>3. CASE toWitness = <<"current">>
      BY <2>1, <3>1, <3>3, OneMessage
    <3> QED
      BY <3>1, <3>2, <3>3
  <2>3. TakingBack' => TakingBack
    BY <2>2 DEF TakingBack
  <2>4. Settled' /\ OneQuestion' /\ WaitInv'
    BY <1>0, <2>1, <2>2 DEF Settled, OneQuestion, WaitInv
  <2>5. toWitness = <<"current">> => conf
    BY <1>0 DEF NoteInv, TakingBack
  <2>6. (toActive' = <<"stale">> => note') /\ (~conf' => note')
    BY <2>1, <2>2, <2>5
  <2>7. NoteInv'
    BY <1>0, <2>1, <2>2, <2>3, <2>6 DEF NoteInv
  <2> QED
    BY <1>a, <2>4, <2>7 DEF MirrorInv
<1>9. CASE LoseMessage
  <2>1. /\ budget'.losses = budget.losses + 1
        /\ UNCHANGED <<log, conf, target, queued, long, notes>>
        /\ \/ toWitness # <<>> /\ toWitness' = Tail(toWitness) /\ UNCHANGED toActive
           \/ toActive # <<>> /\ toActive' = Tail(toActive) /\ UNCHANGED toWitness
    BY <1>0, <1>9 DEF LoseMessage, WiresInv, Used
  <2>2. toWitness' = <<>> /\ toActive' = <<>>
    <3>1. CASE toWitness # <<>>
      <4>1. toActive = <<>> /\ (toWitness = <<"stale">> \/ toWitness = <<"current">>)
        BY <1>0, <3>1 DEF OneQuestion
      <4> QED
        BY <2>1, <4>1, OneMessage
    <3>2. CASE toWitness = <<>>
      <4>1. toActive = <<"stale">> \/ toActive = <<"current">>
        BY <1>0, <2>1, <3>2 DEF OneQuestion
      <4> QED
        BY <2>1, <3>2, <4>1, OneMessage
    <3> QED
      BY <3>1, <3>2
  <2>3. ~TakingBack' /\ toActive' # <<"stale">> /\ budget'.losses # 0
    BY <1>b, <2>1, <2>2 DEF TakingBack
  <2>4. Settled' /\ OneQuestion' /\ WaitInv'
    BY <1>0, <2>1, <2>2 DEF Settled, OneQuestion, WaitInv
  <2> QED
    BY <1>a, <2>3, <2>4 DEF MirrorInv, NoteInv
<1>10. CASE UNCHANGED replVars
  BY <1>0, <1>a, <1>10 DEF replVars, MirrorInv, Settled, OneQuestion, NoteInv, WaitInv, TakingBack
<1> QED
  BY <1>1, <1>2, <1>3, <1>4, <1>5, <1>6, <1>7, <1>8, <1>9, <1>10 DEF ReplNext

\* With a witness, and as long as none of the messages between the active server
\* and the witness was lost: however often the line breaks and pdh-ha restarts, and
\* however far the standby lags, one that may take over lacks at most LagLimit of
\* the writes confirmed to users.  It takes that the active server decides on the
\* status of the moment and that PostgreSQL has its setting at once (Prompt): on
\* an older status it may begin to wait for a standby that is further behind.  (A
\* lost confirmation that the note was taken back breaks it: the run LostMirror.)
THEOREM ConfirmedStays ==
  ASSUME Mode = "trio", Prompt
  PROVE  ReplSpec => [](budget.losses = 0 => ConfirmedSurvives)
<1>1. MirrorInv => (budget.losses = 0 => ConfirmedSurvives)
  BY DEF MirrorInv, NoteInv, WaitInv, ConfirmedSurvives, MayTakeOver
<1>2. MirrorInv /\ [ReplNext]_replVars => MirrorInv'
  BY MirrorKept
<1> QED
  BY <1>1, <1>2, MirrorInit, PTL DEF ReplSpec

-----------------------------------------------------------------------------
(*                             DataDirectory                               *)
-----------------------------------------------------------------------------
(* The inductive invariant                                                 *)

DirRecord == [holds : {"nothing", "part", "own", "rewound", "copy"},
              turn : 0..MaxTurns, signal : BOOLEAN]

\* What is set aside is of a turn, and a standby if it is a copy.
KeptRecord == {d \in DirRecord : /\ d.holds = "own" => d.turn # 0
                                 /\ d.holds = "copy" => d.signal}

Steps == {"active", "rejoin", "dump", "dumpAndCopy", "rewind", "mark", "aside", "copy",
          "copying", "signal", "unmark", "drop", "standbySignal", "standby", "restore",
          "boot", "failed"}

Shape ==
  /\ dir \in DirRecord /\ (dir.holds = "own" => dir.turn # 0)
  /\ aside \in Seq(KeptRecord)
  /\ marker \in BOOLEAN /\ diverged \in BOOLEAN
  /\ turn \in 1..MaxTurns /\ dumped \subseteq 1..MaxTurns
  /\ pg \in {"stopped", "standby", "primary"} /\ at \in Steps

\* The marker, the directory set aside and the step agree: where recoverDataDir
\* would discard the directory, a copy runs.
Marked ==
  /\ at = "aside" => marker
  /\ at \in {"copy", "copying", "signal", "unmark", "restore"} => marker /\ aside # <<>>
  /\ at = "drop" => ~marker /\ aside # <<>>
  /\ marker /\ aside # <<>> =>
       at \in {"aside", "copy", "copying", "signal", "unmark", "restore", "boot"}

\* A copy without standby.signal is one recoverDataDir discards.
Unfinished ==
  dir.holds = "copy" /\ ~dir.signal =>
    marker /\ aside # <<>> /\ at \in {"signal", "restore", "boot"}

Writable0 ==
  pg = "primary" => at \in {"active", "rejoin", "failed"} /\ dir.holds \in {"own", "rewound"}

Active0 == at = "active" => dir.holds = "own" /\ dir.turn = turn /\ ~dir.signal /\ ~diverged

\* Rows that are not yet dumped lie in the directory itself, and no step that
\* overwrites it has begun.
RowsHere ==
  diverged /\ turn \notin dumped =>
    /\ dir.holds = "own" /\ dir.turn = turn /\ ~dir.signal
    /\ at \in {"rejoin", "dump", "dumpAndCopy", "failed", "boot"}
    /\ ~(marker /\ aside # <<>>)

DirInv == Shape /\ Marked /\ Unfinished /\ Writable0 /\ Active0 /\ RowsHere

-----------------------------------------------------------------------------
(* Directories set aside                                                   *)

LEMMA AsideGrows ==
  ASSUME aside \in Seq(KeptRecord), dir \in KeptRecord, aside' = Append(aside, dir)
  PROVE  aside' \in Seq(KeptRecord) /\ aside' # <<>>
<1>1. aside' \in Seq(KeptRecord) /\ Len(aside') = Len(aside) + 1 /\ Len(aside) \in Nat
  BY AppendProperties, LenProperties
<1> QED BY <1>1

LEMMA AsideNewest ==
  ASSUME aside \in Seq(KeptRecord), aside # <<>>
  PROVE  /\ aside[Len(aside)] \in KeptRecord
         /\ SubSeq(aside, 1, Len(aside) - 1) \in Seq(KeptRecord)
<1>1. Len(aside) \in Nat /\ Len(aside) # 0 BY LenProperties, EmptySeq
<1>2. aside[Len(aside)] \in KeptRecord BY <1>1, ElementOfSeq
<1>3. \A i \in 1..(Len(aside) - 1) : aside[i] \in KeptRecord BY <1>1, ElementOfSeq
<1>4. SubSeq(aside, 1, Len(aside) - 1) \in Seq(KeptRecord)
  BY <1>1, <1>3, SubSeqProperties
<1> QED BY <1>2, <1>4

LEMMA DirKinds ==
  /\ None0 \in DirRecord /\ None0.holds = "nothing" /\ ~None0.signal
  /\ Part \in DirRecord /\ Part.holds = "part" /\ ~Part.signal
  /\ Copy \in DirRecord /\ Copy.holds = "copy" /\ ~Copy.signal
<1>1. 0 \in 0..MaxTurns BY DirectoryAssumption
<1>2. None0 \in DirRecord /\ None0.holds = "nothing" /\ ~None0.signal
  BY <1>1 DEF None0, DirRecord
<1>3. Part \in DirRecord /\ Part.holds = "part" /\ ~Part.signal
  BY <1>2 DEF Part, DirRecord
<1>4. Copy \in DirRecord /\ Copy.holds = "copy" /\ ~Copy.signal
  BY <1>2 DEF Copy, DirRecord
<1> QED BY <1>2, <1>3, <1>4

-----------------------------------------------------------------------------
(* Steps                                                                   *)

LEMMA DirStart == DirInit => DirInv
<1> SUFFICES ASSUME DirInit PROVE DirInv OBVIOUS
<1> USE DEF DirInit
<1>1. 1 \in 1..MaxTurns /\ 1 \in 0..MaxTurns BY DirectoryAssumption
<1>2. dir \in DirRecord /\ dir.holds = "own" /\ dir.turn = 1 /\ ~dir.signal
  BY <1>1 DEF DirRecord
<1>3. Shape
  <2>1. aside \in Seq(KeptRecord) OBVIOUS
  <2>2. dumped \subseteq 1..MaxTurns /\ at \in Steps BY DEF Steps
  <2>3. marker \in BOOLEAN /\ diverged \in BOOLEAN OBVIOUS
  <2>4. turn \in 1..MaxTurns /\ pg \in {"stopped", "standby", "primary"} BY <1>1
  <2>5. dir \in DirRecord /\ (dir.holds = "own" => dir.turn # 0) BY <1>2
  <2> QED BY <2>1, <2>2, <2>3, <2>4, <2>5, Zenon DEF Shape
<1>4. Marked /\ Unfinished /\ Writable0 /\ Active0 /\ RowsHere
  BY <1>2 DEF Marked, Unfinished, Writable0, Active0, RowsHere
<1> QED BY <1>3, <1>4 DEF DirInv

LEMMA DirStep == DirInv /\ [DirNext]_dirVars => DirInv'
<1> SUFFICES ASSUME DirInv, [DirNext]_dirVars PROVE DirInv' OBVIOUS
<1> USE DEF DirInv, Shape, Marked, Unfinished, Writable0, Active0, RowsHere, Steps
<1>1. CASE PromoteAgain
  <2>1. turn + 1 \in 1..MaxTurns BY <1>1, DirectoryAssumption DEF PromoteAgain
  <2>2. dir' \in DirRecord /\ dir'.holds = "own" /\ dir'.turn = turn' /\ ~dir'.signal
    <3> DEFINE d == [holds |-> "own", turn |-> turn + 1, signal |-> FALSE]
    <3>1. dir' = d /\ turn' = turn + 1 BY <1>1 DEF PromoteAgain
    <3>2. turn + 1 \in 0..MaxTurns BY <2>1, DirectoryAssumption
    <3> QED BY <3>1, <3>2 DEF DirRecord
  <2>3. at' = "active" /\ ~diverged' /\ UNCHANGED <<aside, marker, dumped>> /\ pg' = "primary"
    BY <1>1 DEF PromoteAgain
  <2>4. ~(marker /\ aside # <<>>) BY <1>1 DEF PromoteAgain
  <2>5. Shape'
    <3>1. diverged' \in BOOLEAN /\ turn' \in 1..MaxTurns BY <1>1, <2>1 DEF PromoteAgain
    <3>2. dir'.turn # 0 BY <2>2, <3>1
    <3>3. at' \in Steps /\ pg' \in {"stopped", "standby", "primary"} BY <2>3
    <3> QED BY <2>2, <2>3, <3>1, <3>2, <3>3, Zenon
  <2> QED BY <2>2, <2>3, <2>4, <2>5
<1>2. CASE Replaced BY <1>2 DEF Replaced
<1>3. CASE DryRun BY <1>3 DEF DryRun
<1>4. CASE SaveDiverged
  <2>1. dir.holds = "own" => dir.turn \in 1..MaxTurns BY DirectoryAssumption DEF DirRecord
  <2>2. dumped' \subseteq 1..MaxTurns BY <1>4, <2>1 DEF SaveDiverged
  <2> QED BY <1>4, <2>1, <2>2 DEF SaveDiverged
<1>5. CASE Rewind
  <2>1. dir' \in DirRecord /\ (dir' = dir \/ dir'.holds \in {"rewound", "part"})
    BY <1>5 DEF Rewind, DirRecord
  <2> QED BY <1>5, <2>1 DEF Rewind
<1>6. CASE Recopy BY <1>6 DEF Recopy
<1>7. CASE MarkCopy
  <2>1. /\ at = "mark" /\ UNCHANGED <<dir, aside, turn, diverged, dumped, pg>>
        /\ \/ marker' = TRUE /\ at' = "aside"
           \/ marker' = marker /\ at' = "failed"
    BY <1>7 DEF MarkCopy
  <2>2. Shape' BY <2>1, Zenon
  <2>3. Marked' /\ Unfinished' /\ Writable0' /\ Active0' /\ RowsHere' BY <2>1
  <2> QED BY <2>2, <2>3
<1>8. CASE SetAside
  <2>1. CASE aside' = Append(aside, dir) /\ dir' = None0 /\ at' = "copy" /\ UNCHANGED marker
    <3>1. dir \in KeptRecord BY <1>8 DEF SetAside, KeptRecord
    <3>2. aside' \in Seq(KeptRecord) /\ aside' # <<>> BY <2>1, <3>1, AsideGrows
    <3> QED BY <1>8, <2>1, <3>2, DirKinds DEF SetAside
  <2>2. CASE marker' = FALSE /\ at' = "failed" /\ UNCHANGED <<aside, dir>>
    BY <1>8, <2>2 DEF SetAside
  <2> QED BY <1>8, <2>1, <2>2 DEF SetAside
<1>9. CASE BaseBackup BY <1>9, DirKinds DEF BaseBackup
<1>10. CASE BackupEnds BY <1>10, DirKinds DEF BackupEnds
<1>11. CASE CopySignal
  <2>1. dir' \in DirRecord /\ dir'.holds = dir.holds /\ dir'.turn = dir.turn /\ (dir' = dir \/ dir'.signal)
    BY <1>11 DEF CopySignal, DirRecord
  <2>2. CASE dir' = dir /\ at' = "restore" BY <1>11, <2>2 DEF CopySignal
  <2>3. CASE dir'.signal /\ at' = "unmark" BY <1>11, <2>1, <2>3 DEF CopySignal
  <2>4. (dir' = dir /\ at' = "restore") \/ (dir'.signal /\ at' = "unmark")
    BY <1>11 DEF CopySignal, DirRecord
  <2> QED BY <2>2, <2>3, <2>4
<1>12. CASE Unmark BY <1>12 DEF Unmark
<1>13. CASE DropAside
  <2>1. aside' \in Seq(KeptRecord) BY <1>13, AsideNewest DEF DropAside
  <2> QED BY <1>13, <2>1 DEF DropAside
<1>14. CASE Restore
  <2>1. aside' \in Seq(KeptRecord) /\ dir' \in KeptRecord BY <1>14, AsideNewest DEF Restore
  <2> QED BY <1>14, <2>1 DEF Restore, KeptRecord
<1>15. CASE BecomeStandby
  <2>1. dir' \in DirRecord /\ dir'.holds = dir.holds /\ dir'.turn = dir.turn /\ dir'.signal
    BY <1>15 DEF BecomeStandby, DirRecord
  <2>2. pg' = "standby" BY <1>15, <2>1 DEF BecomeStandby, Start
  <2> QED BY <1>15, <2>1, <2>2 DEF BecomeStandby
<1>16. CASE Crash
  <2>1. dir' = dir \/ (at = "restore" /\ dir' = None0) BY <1>16 DEF Crash
  <2> QED BY <1>16, <2>1, DirKinds DEF Crash
<1>17. CASE RecoverDataDir
  <2>1. CASE (dir.holds = "nothing" \/ marker) /\ aside # <<>>
    <3>1. aside' \in Seq(KeptRecord) /\ dir' \in KeptRecord /\ marker' = FALSE
      BY <1>17, <2>1, AsideNewest DEF RecoverDataDir
    <3>2. ~(diverged /\ turn \notin dumped) BY <1>17, <2>1 DEF RecoverDataDir
    <3> QED BY <1>17, <3>1, <3>2 DEF RecoverDataDir, Start, Complete, KeptRecord
  <2>2. CASE ~((dir.holds = "nothing" \/ marker) /\ aside # <<>>)
    <3>1. UNCHANGED <<dir, aside, marker>> BY <1>17, <2>2 DEF RecoverDataDir
    <3> QED BY <1>17, <2>2, <3>1 DEF RecoverDataDir, Start, Complete
  <2> QED BY <2>1, <2>2
<1>18. CASE TryAgain BY <1>18 DEF TryAgain
<1>19. CASE UNCHANGED dirVars BY <1>19 DEF dirVars
<1> QED BY <1>1, <1>2, <1>3, <1>4, <1>5, <1>6, <1>7, <1>8, <1>9, <1>10, <1>11, <1>12, <1>13,
           <1>14, <1>15, <1>16, <1>17, <1>18, <1>19 DEF DirNext

-----------------------------------------------------------------------------
(* Theorems                                                                *)

(* The procedure keeps to its kinds, whatever fails and wherever it        *)
(* crashes; what was dumped are turns this server had.                     *)
THEOREM DirTypes == DirSpec => []DirTypeOK
<1>1. DirInv => DirTypeOK BY DEF DirInv, Shape, DirTypeOK, DirRecord
<1> QED BY <1>1, DirStart, DirStep, PTL DEF DirSpec

(* Rows that only the replaced server has are dumped before its directory  *)
(* is rewound, copied over or discarded: after every failed step, and      *)
(* after crashes at any moments followed by recoverDataDir.                *)
THEOREM DivergedStays == DirSpec => []DivergedKept
<1>1. DirInv => DivergedKept BY DEF DirInv, RowsHere, DivergedKept
<1> QED BY <1>1, DirStart, DirStep, PTL DEF DirSpec

(* A copy of the active server never runs writable beside it: fullCopy     *)
(* removes its marker only when standby.signal is there, and what lies in  *)
(* the directories set aside is safe to bring back.                        *)
THEOREM CopyStaysStandby == DirSpec => []CopyNeverWritable
<1>1. DirInv => CopyNeverWritable BY DEF DirInv, Unfinished, Writable0, CopyNeverWritable
<1> QED BY <1>1, DirStart, DirStep, PTL DEF DirSpec
=============================================================================
