--------------------------- MODULE DataDirectory ---------------------------
(***************************************************************************)
(* Bringing a replaced server back as a standby: its data directory is     *)
(* rewound or copied anew from the active server                           *)
(* (cmd/pdh-ha/rejoin.go, recopy in pgactor.go).                           *)
(*                                                                         *)
(* The server may crash between any two steps and comes up again with      *)
(* recoverDataDir.  A directory holds the server's own rows of some turn,  *)
(* in which it was active, or a copy of the active server's.               *)
(***************************************************************************)
EXTENDS Naturals, Sequences, FiniteSets

CONSTANTS MaxTurns,      \* bound: times the server is active
          MaxCrashes,    \* bound: crashes
          MaxAside       \* bound: directories set aside and never removed

ASSUME DirectoryAssumption ==
  MaxTurns \in Nat \ {0} /\ MaxCrashes \in Nat /\ MaxAside \in Nat

VARIABLES
  dir,        \* the data directory: what is in it, standby.signal
  aside,      \* directories set aside (<dir>.alt-<time>), oldest first
  marker,     \* the file saying that a copy is running
  turn,       \* times this server was active
  diverged,   \* its rows of this turn differ from the active server's
  dumped,     \* turns whose rows lie in the directory of diverged data
  pg,         \* PostgreSQL: stopped, standby, primary
  at,         \* the step the procedure has come to
  crashes

dirVars == <<dir, aside, marker, turn, diverged, dumped, pg, at, crashes>>

None0 == [holds |-> "nothing", turn |-> 0, signal |-> FALSE]
Part == [None0 EXCEPT !.holds = "part"]
Copy == [None0 EXCEPT !.holds = "copy"]

Complete(d) == d.holds \in {"own", "rewound", "copy"}

DirInit ==
  /\ dir = [holds |-> "own", turn |-> 1, signal |-> FALSE] /\ aside = <<>> /\ marker = FALSE
  /\ turn = 1 /\ diverged = FALSE /\ dumped = {} /\ pg = "primary"
  /\ at = "active" /\ crashes = 0

Start == IF dir'.signal THEN "standby" ELSE "primary"

\* The server is active for another turn, and is replaced while it is away; the
\* last writes may never have reached the other server.
PromoteAgain ==
  /\ at = "standby" /\ pg = "standby" /\ turn < MaxTurns
  /\ turn' = turn + 1 /\ dir' = [holds |-> "own", turn |-> turn + 1, signal |-> FALSE]
  /\ pg' = "primary" /\ at' = "active" /\ diverged' = FALSE
  /\ UNCHANGED <<aside, marker, dumped, crashes>>

Replaced ==
  /\ at = "active" /\ diverged' \in BOOLEAN /\ at' = "rejoin"
  /\ UNCHANGED <<dir, aside, marker, turn, dumped, pg, crashes>>

\* Mutant: a dry run that fails is taken for equal data.
DryRun_Trusting ==
  /\ at = "rejoin" /\ pg' = "stopped"
  /\ \E ok \in BOOLEAN : at' = IF ok /\ diverged THEN "dump" ELSE "rewind"
  /\ UNCHANGED <<dir, aside, marker, turn, diverged, dumped, crashes>>

\* rejoin: stop, then the dry run of pg_rewind says whether rows differ; if it
\* fails, they count as different.
DryRun ==
  /\ at = "rejoin" /\ pg' = "stopped"
  /\ \E ok \in BOOLEAN :
       at' = CASE ok /\ ~diverged -> "rewind"
               [] ok /\ diverged -> "dump"
               [] ~ok -> "dumpAndCopy"
  /\ UNCHANGED <<dir, aside, marker, turn, diverged, dumped, crashes>>

\* saveDiverged; without it nothing is overwritten.
SaveDiverged ==
  /\ at \in {"dump", "dumpAndCopy"}
  /\ \/ /\ dir.holds = "own" /\ dumped' = dumped \cup {dir.turn}
        /\ at' = IF at = "dump" THEN "rewind" ELSE "mark"
     \/ at' = "failed" /\ UNCHANGED dumped
  /\ UNCHANGED <<dir, aside, marker, turn, diverged, pg, crashes>>

Rewind ==
  /\ at = "rewind"
  /\ \/ dir' = [dir EXCEPT !.holds = "rewound"] /\ at' = "standbySignal"
     \/ dir' = [dir EXCEPT !.holds = "part"] /\ at' = "mark"
     \/ dir' = dir /\ at' = "mark"
  /\ UNCHANGED <<aside, marker, turn, diverged, dumped, pg, crashes>>

\* recopy: the active server has dropped the log this standby needs.
Recopy ==
  /\ at = "standby" /\ pg = "standby" /\ pg' = "stopped" /\ at' = "mark"
  /\ UNCHANGED <<dir, aside, marker, turn, diverged, dumped, crashes>>

(* fullCopy *)

MarkCopy ==
  /\ at = "mark" /\ Len(aside) < MaxAside
  /\ \/ marker' = TRUE /\ at' = "aside"
     \/ marker' = marker /\ at' = "failed"
  /\ UNCHANGED <<dir, aside, turn, diverged, dumped, pg, crashes>>

SetAside ==
  /\ at = "aside"
  /\ \/ aside' = Append(aside, dir) /\ dir' = None0 /\ at' = "copy" /\ UNCHANGED marker
     \/ marker' = FALSE /\ at' = "failed" /\ UNCHANGED <<aside, dir>>
  /\ UNCHANGED <<turn, diverged, dumped, pg, crashes>>

BaseBackup ==
  /\ at = "copy"
  /\ \/ dir' = Part /\ at' = "copying"
     \/ dir' = dir /\ at' = "restore"
  /\ UNCHANGED <<aside, marker, turn, diverged, dumped, pg, crashes>>

\* Mutant: the marker goes before standby.signal is there.
BackupEnds_Unsigned ==
  /\ at = "copying" /\ dir' = Copy /\ at' = "unmark"
  /\ UNCHANGED <<aside, marker, turn, diverged, dumped, pg, crashes>>

BackupEnds ==
  /\ at = "copying"
  /\ \/ dir' = Copy /\ at' = "signal"
     \/ dir' = dir /\ at' = "restore"
  /\ UNCHANGED <<aside, marker, turn, diverged, dumped, pg, crashes>>

\* A copy is a standby from the first moment.
CopySignal ==
  /\ at = "signal"
  /\ \/ dir' = [dir EXCEPT !.signal = TRUE] /\ at' = "unmark"
     \/ dir' = dir /\ at' = "restore"
  /\ UNCHANGED <<aside, marker, turn, diverged, dumped, pg, crashes>>

Unmark ==
  /\ at = "unmark" /\ marker' = FALSE /\ at' = "drop"
  /\ UNCHANGED <<dir, aside, turn, diverged, dumped, pg, crashes>>

\* The old directory goes; if it cannot be removed, that is only reported.
DropAside ==
  /\ at = "drop"
  /\ aside' \in {aside, SubSeq(aside, 1, Len(aside) - 1)}
  /\ at' = "standbySignal"
  /\ UNCHANGED <<dir, marker, turn, diverged, dumped, pg, crashes>>

\* The copy failed: the directory set aside comes back.
Restore ==
  /\ at = "restore"
  /\ dir' = aside[Len(aside)] /\ aside' = SubSeq(aside, 1, Len(aside) - 1)
  /\ marker' = FALSE /\ at' = "failed"
  /\ UNCHANGED <<turn, diverged, dumped, pg, crashes>>

BecomeStandby ==
  /\ at = "standbySignal"
  /\ dir' = [dir EXCEPT !.signal = TRUE]
  /\ pg' = Start /\ at' = "standby"
  /\ UNCHANGED <<aside, marker, turn, diverged, dumped, crashes>>

\* A crash; the system starts PostgreSQL on what it finds, then recoverDataDir
\* comes before any other action: an interrupted copy gives way to the newest
\* directory set aside.
Crash ==
  /\ at \notin {"active", "boot"} /\ crashes < MaxCrashes /\ crashes' = crashes + 1
  /\ at' = "boot" /\ pg' = "stopped"
  /\ dir' \in IF at = "restore" THEN {dir, None0} ELSE {dir}
  /\ UNCHANGED <<aside, marker, turn, diverged, dumped>>

RecoverDataDir ==
  /\ at = "boot"
  /\ IF (dir.holds = "nothing" \/ marker) /\ aside # <<>>
     THEN /\ dir' = aside[Len(aside)] /\ aside' = SubSeq(aside, 1, Len(aside) - 1)
          /\ marker' = FALSE
     ELSE UNCHANGED <<dir, aside, marker>>
  /\ pg' = IF Complete(dir') THEN Start ELSE "stopped"
  /\ at' = IF pg' = "standby" THEN "standby" ELSE "failed"
  /\ UNCHANGED <<turn, diverged, dumped, crashes>>

\* After a failure the way back is given again: by the operator's replica-init,
\* by the update, by the next change of the term.
TryAgain ==
  /\ at = "failed" /\ at' = "rejoin"
  /\ UNCHANGED <<dir, aside, marker, turn, diverged, dumped, pg, crashes>>

DirNext ==
  \/ PromoteAgain \/ Replaced \/ DryRun \/ SaveDiverged \/ Rewind \/ Recopy
  \/ MarkCopy \/ SetAside \/ BaseBackup \/ BackupEnds \/ CopySignal \/ Unmark
  \/ DropAside \/ Restore \/ BecomeStandby \/ Crash \/ RecoverDataDir \/ TryAgain

DirSpec == DirInit /\ [][DirNext]_dirVars

-----------------------------------------------------------------------------
(* Properties. *)

DirTypeOK ==
  /\ dir.holds \in {"nothing", "part", "own", "rewound", "copy"} /\ dir.turn \in 0 .. MaxTurns
  /\ marker \in BOOLEAN /\ diverged \in BOOLEAN /\ dumped \subseteq 1 .. MaxTurns
  /\ pg \in {"stopped", "standby", "primary"}

\* Rows only this server has are never overwritten before they are dumped,
\* whatever fails and whenever the server crashes.
DivergedKept ==
  diverged /\ turn \notin dumped =>
    \E d \in {dir} \cup {aside[i] : i \in DOMAIN aside} : d.holds = "own" /\ d.turn = turn

\* A copy never comes up writable: without standby.signal it exists only as long
\* as the marker lets recoverDataDir discard it, and pdh-ha never starts it.
CopyNeverWritable ==
  /\ dir.holds = "copy" /\ ~dir.signal => marker
  /\ pg = "primary" => dir.holds \in {"own", "rewound"}
=============================================================================
