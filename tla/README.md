# Formal models of pdh-server

pdh-server is a maintenance-department application (Go, PostgreSQL) with an
optional high-availability cluster of its own: two database servers and, if
there is one, a witness. This directory holds TLA+ modules that model the parts of
the code whose correctness depends on interleavings, crashes and lost messages,
TLC configurations that check them, and TLAPS proofs about them.

| file | what it is |
|---|---|
| `Failover.tla`, `MCFailover.tla` | the failover protocol; orders of ticks and sets of links for its configurations |
| `Elections.tla` | what the votes promise; `Failover` implements it |
| `Failover_proofs.tla` | theorems about `Failover` |
| `Replication.tla` | the mirror of the database within one term, the notes at the witness |
| `ActionQueue.tla`, `ActionQueue_proofs.tla` | the queue of actions and what its worker does to PostgreSQL and the services; theorems about it |
| `DataDirectory.tla` | bringing a replaced server back: rewind, new copy, crash recovery |
| `Database_proofs.tla` | theorems about `Replication` and `DataDirectory` |
| `MovingAddress.tla` | the address that follows the active server |
| `UpdateJob.tla`, `UpdateJob_proofs.tla` | the update of the pair while it is in use; theorems about it |
| `SingleUpdate.tla`, `SingleUpdate_proofs.tla` | the update of a server without a partner, and the lock of the application; theorems about it |
| `Stock.tla`, `Stock_proofs.tla` | bookings, reservations, stocktaking; theorems about it |
| `Maintenance.tla`, `Maintenance_proofs.tla` | a maintenance plan and its tasks; theorems about it |
| `Backup.tla`, `Backup_proofs.tla` | backups of the application and their restoration; a theorem about them |
| `System.tla`, `Faults.tla`, `Application.tla`, `MCApplication.tla` | parts checked side by side (section 3) |
| `MC*.cfg` | one configuration per question asked of the models |
| `PROJECT.json` | components, runs, mutants, source map, findings, hazards, theorems |

Everything is run from this directory, for example `tlc -config MCTrio.cfg MCFailover`,
`tlc -config MCSystem.cfg System`, `tlc -config MCApplication.cfg MCApplication`,
`tlapm Failover_proofs.tla`.

## 1. Inventory

Paths are relative to `src/`. "Hard" names what a unit test hardly reaches.

### 1.1 The cluster daemon (`internal/ha`, `cmd/pdh-ha`)

**Failover kernel** (`internal/ha/step.go`, `types.go`). A pure function: one
`Input` (persisted state, what is seen of partner and witness, gateway ping,
database, messages and commands of this tick) gives one `Output` (new persisted
state, messages, actions, alarms).
*State:* role (active, passive, fenced, rejoin), term, maintenance flag with
sequence number, takeovers of the day, saved vote; per-process memory for the
hold-off, the pending vote, the pending handover.
*Operations:* adopt a term, lose a conflict, boot, active/passive tick with and
without witness, fence, promote, hand over, receive a handover, merge maintenance,
operator commands.
*Correct when:* at most one server is active; a term has one owner; no automatic
takeover without the vote; maintenance stops automatics; a swap ends; a
survivor takes over.
*Hard:* asymmetric links, three unsynchronised clocks, crash in the middle of a
swap, thresholds that only just suffice.

**Witness vote** (`witness.go`). One vote per term, refused while the holder of
the current term may be active. *State:* voted term and candidate, on disk, and
what it has last heard. *Correct when:* one vote per term across crashes;
no vote while the old holder may still run. *Hard:* what it has heard is old by
nature; save and answer are two steps.

**Daemon** (`daemon.go`, `messages.go`, `observe.go`, `api.go`, `store.go`).
Collects the input of a tick under one mutex, calls the kernel, saves, then sends
and queues the actions; message handlers, HTTP commands and the action worker run
in other goroutines between ticks. *Correct when:* nothing is sent before it is
saved; a failed save demotes in effect; answers are matched to what was asked.
*Hard:* handlers between read and use, actions that end late, a save that
fails after it took effect.

**Transport** (`transport.go`). Mutually authenticated connections, heartbeats
every tick, duplicate filter by sequence number, a queue per direction.
*Hard:* a path is "seen" for some ticks after the last receipt, per direction.

**Replication control** (`sync.go`, `repl.go`). Chooses synchronous or asynchronous
replication, marks the standby as stale at the witness before continuing without
it, and clears the mark when it has caught up; a stale standby must not be
promoted. *Hard:* status fetched in the background, marks and clearances that
overtake each other, the last report of a server no longer seen.

**PostgreSQL actor** (`pgactor.go`, `primary.go`, `replica.go`, `rejoin.go`, …).
Carries out promote, demote, fence, rejoin in a queue of 16. *Hard:* multi-step
operations that fail in the middle, a queue at its limit.

**Update job of the cluster** (`internal/ha/update.go`, `cmd/pdh-ha/update_job.go`,
…). A job of ten phases, driven by the conductor and mirrored to the partner:
freeze one server, update the other, swap, verify, commit or roll back. *Correct
when:* there is always a server with the old or the new version that holds
the data; a roll-back loses nothing confirmed; the job survives a change of
conductor. *Hard:* crash between saving and acting, results lost in the restart
they cause, two jobs after two role changes.

**Maintenance window** (`internal/ha/window.go`, `cmd/update-agent/window.go`).
Pure decision when an automatic update may begin. *Hard:* midnight, clock changes.

**Moving address** (`access*.go`, `vip*.go`, `addrs.go`) and **hooks** (`hooks.go`).
A worker follows the wanted state and takes or releases the address.
*Hard:* the wanted state changes while an operation runs.

**Join, keys, renewal** (`joincode.go`, `pki.go`, `renew.go`, `setup.go`): a code
used once, certificates, their renewal. **Witness self-update**
(`witness_update.go`). **Tunnel, firewall, platform parts**: I/O.

### 1.2 Update agent (`cmd/update-agent`)

**Single-server update** (`job.go`, `job_host.go`, `install_update.sh`). One job, in
memory and in `update-job.json`: build the new version, count down, lock pdh, stop
it, dump the database, start the new version, ask `/health`, release, or roll back.
The scripts it runs restart the agent itself. *Correct when:* nothing a user entered
is lost; the old program never works on a migrated database; the job ends and
pdh runs, or the result asks for a human. *Hard:* death of the agent between any two
commands, a job file that cannot be written, any command failing.

**Older update without a job, disaster recovery, cluster access**: entry points,
command lines and configuration files of external tools.

### 1.3 Application (`internal/modules`, `internal/core`, `internal/web`)

**Spare parts** (`inventory.go`, `reservations.go`): stock per shelf, a ledger of
movements, reservations with a trigger. *Correct when:* the stock of a shelf equals the
sum of its movements, a reservation's pieces go one way, nothing is overdrawn.
*Hard:* requests beside each other at READ COMMITTED, first bookings of a shelf,
the lock by a stocktaking read before the transaction, a booking that breaks off.
**Stocktaking** (`stocktake.go`): sessions, counts, booking position by position. *Hard:*
failure between two positions, two bookings of one session.
**Maintenance plans** (`internal/modules/maintenance`): an active plan has one open
task; finishing it sets the next date and creates the next task; an hourly run
repairs. *Correct when:* one open task; a task is closed once; a plan never stays
without a task; dates move on. *Hard:* each statement commits on its own.
**Backups** (`internal/web/backup.go`): files, the log `backup_runs`, one mutex, pruning,
restoration with a safety copy. *Correct when:* the newest backups are there and
whole; a restoration can be undone. *Hard:* pruning outside the mutex, names made of
a second, a program that ends at any step.
**Maintenance lock** (`internal/web/maint_lock.go`): pdh asks the agent every two seconds
whether it is locked; locked until the first answer.
**Schedulers** (`core/scheduler`): one gate that stops background work while the
server is not active.
**Read-only mirror**, **MQTT import**, **trainings, purchases, suggestions, repeated
requests**, **work items** (faults, tickets, tasks, projects), **users, rights,
shifts, storage, time tracking**, **web interface**: mostly one row per request,
guarded by the database.

### 1.4 How the parts interact

Two servers and the witness exchange heartbeats each tick and the messages
`vote_req`, `vote_resp`, `handover`, `stale`, `current`, update messages. Within a
server the tick, the message handlers, the HTTP handlers and the action worker
share the daemon's mutex. The worker tells the tick through `demoteDone` and the
like what it has finished. The update job speaks to the kernel through the same
command slot as the operator. The application asks the daemon which role its
server has and closes its schedulers and writes accordingly.

The hazards of `PROJECT.json` name the line of each of these where it can go wrong.

## 2. Module `Failover`

### 2.1 State and code

| variables | code |
|---|---|
| `p`, `disk` | `Persisted` in memory (`daemon.p`) and in the state file; the witness has one too (`WitnessPersist` with the heartbeat's fields) |
| `unsaved`, `booting`, `up` | `daemon.unsaved`, `daemon.booting`, whether the process runs |
| `carry` | the `Output` fields that go back into the next `Input`: hold-off, pending vote, pending handover, ages |
| `view`, `beat`, `air`, `cut` | peers as the transport reports them, the last heartbeat of each, heartbeats under way, broken directions of links |
| `request`, `response`, `granted`, `probed` | `vote_req`/`vote_resp` in flight, `daemon.voteGranted`, `daemon.probeGranted` |
| `offer`, `handIn`, `demotes`, `demoteDone`, `demoteFailed` | handover in flight and received, queue of the action worker, its last results |
| `command`, `real` | the waiting operator command, `Settings.Real()` |
| `gateway` | the last successful gateway ping |
| `ticked`, `phase` | time (below) |
| `ledger`, `faults` | history of saved votes; number of failures so far (bound) |

| action | code |
|---|---|
| `NodeTick` | the whole tick of a server: collect, `Step`, save, send, queue |
| `WitnessTick` | the witness' tick: merge maintenance, heartbeat |
| `AnswerVote`, `ReceiveVote` | the handlers of `vote_req` (with `Vote` and its save) and `vote_resp` |
| `DeliverHandover` | the handler of `handover` |
| `GiveCommand`, `SetMaintenance`, `SetAutoMode` | the HTTP commands |
| `DemoteSucceeds`, `DemoteFails` | the action worker at the end of a demote (`actionFailed`) |
| `Crash`, `Restart` | a process dies, losing all but its file, and starts again |
| `Breaks`, `Heals` | a set of directed links |
| `NewDay` | `switchesToday` starts again |
| `TickPasses` | one tick of time |

`Step` is modelled by `Decide` and below it one operator per function of
`step.go` (`Boot`, `RoleTick`, `PassiveTick`, `TrioWon`, `TrioAsk`, `DuoTakeover`,
`GiveHandover`, `ReceiveHandover`, `Automatic`, …). Each says with `Save` what
is persisted, carried over and sent; `Save` also covers the failed write, which
leaves the old or the new file and sends nothing.

### 2.2 The abstract elections

`Elections` says what the votes are for, without messages, files, crashes and
time: votes are given in rising terms, each to one server; a server that takes
over by itself uses a vote of its own for a term newer than any it was in, so no
vote is used twice. `ElectionsInOrder` maps it to `Failover` (votes to the ledger
of saved votes, terms and counts to the memory of the servers) and is both
checked (`Crash`) and proved. It does not say that one server is active at a
time: that rests on time, `AtMostOneActive` says it, and `OneActive` proves it (5.1).

### 2.3 Time

All of the kernel's thresholds are multiples of the tick, and a process looks at
the clock once per tick. `TickPasses` ages everything by one tick when every
running process has had its turn, so clocks have the same rate and an arbitrary
offset below one tick; within a round the order of ticks is given by `phase`: one
of the fixed orders, or any order in each round (drift). A heartbeat is
received by the receiver's next tick or never; it belongs to a direction, which
may be broken alone. Every other message is delivered at any moment before the
second `TickPasses`, or lost. Ages stop at the largest threshold they are compared
with, which makes the time of a run unbounded and the state space finite.

### 2.4 What is abstracted

* The cool-down, the version comparison and the data state together are one
  nondeterministic answer (`Brakes`). `Replication` models how the data state comes about.
* The gateway ping runs beside the tick; its answer is chosen by whether the way
  to the gateway is cut when it arrives.
* `actionFailed` takes the lock twice; both sections are one step.
* `command()` reads the view of the last tick; the model reads `beat` and `view`.
* The takeover count of the day is kept by each server for itself. The design
  document (`docs/superpowers/specs/2026-10-24-ausfallschutz-design.md:110`)
  speaks of at most N switches per day; the code counts the takeovers of one
  server. `NewDay` changes the day everywhere at once.
* Not modelled here: Single mode, Stale marks (in `Replication`), alarms (such as the one that no server
  is active), join and renewal, the commands `CmdSwapFreeze` and `CmdSwapAbandon`
  of the update job (in `UpdateJob`) and its lock on commands, the address (in
  `MovingAddress`) and the hooks, the
  reconnection delay of TLS, a full inbound queue. `CmdMaintOn` and `CmdMaintOff`
  exist in `Step` but the daemon switches maintenance directly, and so does the
  model.

## 3. The other modules

Each of these is one component reduced to what the others show it; what they show is
said in the module's header. They share no state in the models.

### 3.1 `Replication`

| variables | code |
|---|---|
| `lsn`, `flushed`, `confirmed`, `line`, `streaming`, `conf` | PostgreSQL: the log of both servers, commits returned to users, the connection, `synchronous_standby_names` |
| `target`, `queued` | `pgActor.syncNames`, the `applySync` in the queue of actions |
| `polled`, `long` | the status fetched in the background, `AsyncAfter` |
| `ownNote`, `ackedNote`, `note` | `Persisted.Stale` of the active server, `staleAckTerm`, `Stale` of the witness |
| `toWitness`, `toActive` | `stale`, `current` and their answers under way |
| `heard`, `receives` | the last heartbeat of the active server (`sync`, `stale`, lag), the standby's own status |
| `sees`, `dataCurrent`, `alive` | the standby's view and judgement, `replInputLocked` |

`SyncTick` is a tick's decision (`SyncStep`) with its save, its switch and its
message; `HearWitness`, `WitnessNotes` are the handlers; `JudgeData` is the standby's
judgement, on the lag of the last heartbeat and the status the standby fetched itself
(`OwnPoll`); `RestartActive` loses `staleAckTerm`; the rest is PostgreSQL and the
network. `MayTakeOver` collects what `Allowed` and `Vote` ask of the data.
`ConfirmedSurvives`: a standby that may take over lacks at most `LagLimit` of the confirmed writes, none if
the limit is 0.
`MirrorReturns`: once the line holds, commits wait for the standby again and no note remains.
`ForceAsync`, set while the maintenance lock of an update holds, is left out.

### 3.2 `ActionQueue`

The kernel's decisions without its clocks (`Kernel0`), the tick's actions (`outbox`), the
queue and the worker (`task`) of one server. The worker carries an action out step by
step (`Steps`, `Effect`, `Possible`); any step may fail, which skips the rest of its batch
(`failedBatch`); a failed demotion reports `demoteFailed`. `Reconcile` runs in the same queue.
`IdleAgrees`: with nothing left to do the server does what its role says.
`OthersStop`: a server that is not active stops being writable and reachable.
`TickGoesOn`: a tick that waits for room goes on. The queue holds 2 instead of 16, so that three
decisions of two actions and a reconcile fill it.

### 3.3 `DataDirectory`

One server that is active, replaced, and brought back several times: dry run of
`pg_rewind`, dump of the diverged rows, rewind or full copy with the old directory set
aside and a marker file, each step failing or followed by a crash, `recoverDataDir` at
the next start. `DivergedKept`: rows only this server has are not overwritten before
they are dumped. `CopyNeverWritable`: a copy never comes up writable.

### 3.4 `MovingAddress`

The roles of both servers (at most one active, as `Failover` shows), the setting, the
workers of a server (`crew`: a changed setting starts a successor while the old worker
still leaves), the network cards, and whom the devices in the network reach (`entry`).
`Take` is probe, add, announce; a second announcement follows after five seconds.
`AddressSettles` and `DevicesFollow` say that in the end the address lies on the active
server's card only, and that it is this server the devices reach.

### 3.5 `UpdateJob`

| variables | code |
|---|---|
| `job` | `update-job.json` of each server (`UpdateJob`) |
| `acks`, `running`, `done`, `flags` | memory of `update_job.go`: results queued, operation carried out, last result, abort/confirm/restart flags |
| `cmd`, `mail` | the kernel's command slot, the newest `update_job`/`update_node` under way |
| `active`, `db`, `data`, `commit`, `seen`, `acked` | the two servers: role, database, users' writes, program, program reported, writes confirmed |

`UpdateStep` is `ha.UpdateStep`: one operator per phase with the code's helpers
(`Rollback`, `UndoPrep`, `Unprotected`, `SwapCommand`). `Conduct` is a tick of the
conductor: step, save, mirror, send. `Receive` is the partner's handler with
the precedence of mirrors (`MirrorWins`) and the answer from memory. `Run` carries an operation
out, with failure, refusal, or its result lost in the restart it causes. `Swap`, `Abandon`,
`PromoteLate`, `TakeOver`, `Rejoin` are the kernel as the job sees it. A take-over drops the messages
on their way: the time to it (`types.go:104`, at least 2 ticks and 8 s) is longer than the 3 ticks after
which a silent connection is closed (`transport.go:537`), and nothing is kept for a new one. The kinds
are rolling, sequential and plain swap. Users write while the job does not lock (`Locked` of the job as pdh-ha has it):
pdh's own way out, which lifts its lock after 30 s without an answer of pdh-ha (`maint_lock.go:46`), is outside
this guard, and so outside of what `NothingLost` says. `NothingLost`, `FallbackKept`, `EndsWhole` (an
action property at the end of a job) and `LockEnds` are its promises.

### 3.6 `SingleUpdate`

The agent's job in memory and in its file (`update`, `saved`), the running plan of
host commands (`plan`, `todo`), and the host: checkout, build and stamp, running program,
schema, users' work, dump. `RunCommand`/`CommandFails` are one command; what follows a failure is in
`PrepareFails`, `LockedFails` and `RollbackFails`. `AgentDies` is death or the restart a script orders,
`AgentStarts` comes any time later, and the job goes on from the file. In between nothing answers.

pdh asks the agent over HTTP: `MaintTick` is an answer (`locks`), `Starts` the provisional lock of a pdh that
has just begun, `LockLapses` the 30 s without an answer (`silent`), after which pdh is open whatever it heard
last. Not modelled: `maintUnavailable`, since an agent that carries a job has the interface and has loaded the job
before it answers; and `errUpdateBusy` at `--finish`, which needs another `install_update.sh` beside an
open job (`updateHandler` refuses one).

`WritesKept`: a restored dump holds every change users made. What pdh lets in while it is `silent` and the job
still locks is counted apart (`late`) and is not kept (4.3). `OldOnOld`: the old program
never works on a migrated database, unless the result says so. `SingleEnds`: the job
ends and pdh runs, or the result asks for a human.

### 3.7 `Stock`

Statement by statement at READ COMMITTED: a statement sees what is committed when it
starts, row locks (`rowLock`, `partLock`, `resLock`) are held to the end of the transaction, what a
request has written (`put`, `delta`) shows at `CommitCall`; `BreakOff` rolls back. A request
(`Order`) is a booking, two bookings, a reservation, a return (the trigger books back), a
consumption in the two orders of the code, or a step of a stocktaking. `LedgerAdds`,
`PiecesAccounted` and `NeverOverdrawn` are checked for shelves that have their row.

### 3.8 `Maintenance` and `Backup`

`Maintenance` is one plan (`mplan`), its tasks and the advisory lock (`planLock`). Only
`ensureTaskForPlan` (`Look`, `Insert`, `CommitTask`) is a transaction; in every other operation each
statement is a step, and `GiveUp` ends a request between two of them. `OneOpenTask`,
`ClosedByOne`, `PlanServed` hold; `DueOnce` does not (finding 3).

`Backup` has the directory (`disk`, `parts`), the log (`runs`), the mutex and the goroutines
(`worker`). A version number stands for what database and files hold. `Restart` ends the
program at any step and tidies up, unless the maintenance lock holds, or begins with
the backup before an update. `KeptOnDisk`: the newest backups of schedule and
updates are on disk and whole. `SafetyCopyKept`: once a restoration has replaced
anything, a whole backup holds the database as of its snapshot (`held`) and at least the files there were. Users
write at any time, and any run of the list may be asked for, also a failed one.

### 3.9 Side by side

`System`, `Faults` and `Application` extend several of these modules and choose with
`focus` which one moves; the others rest in one of their initial states. They check
parts next to each other, not their interaction: what one component relies on in
another is written into its module (`MovingAddress` on at most one active server,
`UpdateJob` on a swap that loses nothing, which is `ActionQueue`'s demotion). One run then
answers the same question for all parts: `System` what must come to an end,
`Faults` what must not be lost under more faults, `Application` what requests beside each other may break.

## 4. Runs

The code's tick is configurable; its tests use a sight of three ticks
(`< 3*Tick` in the simulation, `<=` in `transport.go`). Most runs of `Failover` scale the
thresholds down: sight 1 tick, fencing 1, takeover 5, demote wait 1. What
has to be kept is the relation the protocol rests on, takeover time greater than
or equal to fencing time plus twice the sight plus the two ticks that three
unsynchronised clocks may cost. `Trio` uses the code's own sight of 3 ticks, with
takeover 9 (the vote is repeated every 2 ticks, not every 5, to keep the wait short),
and `ShortTakeover` shows that below this relation the protocol
fails. Terms go up to 2 or 3: an old holder, its successor and one more election.
In `Crash` and `Live` a demote ends, or fails, within the tick in which the swap begins or the next;
`Duo` lets it take longer.

| run | question | result |
|---|---|---|
| `Trio` | any two breakdowns of directed links, all fixed orders of ticks, unscaled sight | one active server, one owner per term |
| `Crash` | crashes of servers and witness, failed or unconfirmed saves, direct line broken, swap; two failures | types, one active, one vote per term, terms never fall, implements `Elections` |
| `Duo` | no witness, any order of ticks, swap, maintenance, one isolation, crash or failed save | one active, one owner per term |
| `Maint` | maintenance at both servers, daily maximum, midnight, isolation, fair | one active; everything settles after healing |
| `Operator` | automatic mode changed per server, forced takeover | counted takeover only with the saved vote |
| `Live` | fair: crash, failed save, failed demote, demote that ends after the swap began, late or lost handover | survivor takes over and stays; swap ends |
| `System` | seven parts, fair: do locks, mirror, address, queue, jobs and plans come to an end? | they do, and nothing is overwritten or left writable on the way |
| `Faults` | updates and replication with lost messages, restarts, crashes, unsaved files and users at work | no confirmed write lost, the way back kept, a job that ends leaves the pair whole |
| `Application` | two requests each at stock, plan and backups, breaking off anywhere | ledger, reservation, open task, backups hold |
| `ShortTakeover` | the shortest takeover `Settings.Validate` accepts | violated: two active servers |
| `LostMirror` | the answer to `current` is lost | violated: a confirmed write missing after a takeover |
| `DueTwice` | skip beside the hourly run | violated: one date twice |

**Bounds of `Failover`.** `MaxTerm` stops elections, commands and handovers, `MaxSeq` changes of
maintenance, `MaxDemotes` the worker's queue, `MaxFaults` counts breakdowns,
crashes and failed saves together. Healing is free. One failure may be a set of links
(`Breakdowns`): everything of one node, the direct line, or a single direction.
Two failures suffice for the patterns that matter: isolation and return, the loss
of one direction and then of another one, crash of a server and then of the witness, a failed
save and then a crash. `Duo` allows one: without a witness two failures are the
remaining risk which the design names itself (`ausfallschutz-design.md:97-98`).

**Bounds of the other parts.** Two of everything that meets: two requests, two
goroutines, two workers of an address, two turns of a data directory, two writes, two
breaks of the line, two days' dates. One failure of each kind at a moment the checker chooses: the hazards are
each a single failure in the wrong place; what needs two is named below. In
`Application` the requests are interchangeable (symmetry). `Stock` starts with a shelf that has
a row and one that has none, with and without a reservation and an open stocktaking,
which saves the requests that would lead there. `System` leaves `wait` and `edit` of a plan to `Application`, and a second
write to `Faults`.

Some bounds are zero, or exclude a case, because the property is known not to hold in it. They are
choices, not results:

* `MaxLosses = 0` in `System` and `Faults`: a lost answer breaks `ConfirmedSurvives` (finding 2) and
  `MirrorReturns`. `MaxRestarts = 0` in `System`: after a restart of pdh-ha while the witness has the
  note and the own one is not yet set, nothing has the note removed (`MirrorReturns`).
* `Prompt = TRUE`: between two ticks the status is fetched, the standby has what was written and
  messages have arrived. With a tick of seconds this is the normal case; a status older than
  that lets the active server decide on a past state, and then a standby may lack more than `LagLimit` when it takes over.
  The standby always judges by its last heartbeat and its own last status.
* `MaxUnsaved`, `MaxRelaunches = 0` in `System`: with an unwritable job file, or pdh started again
  by itself between build and backup, `OldOnOld` fails: whatever was built last is what
  starts. `Faults`, which does not check it, has both at 1.
* `Kinds` in `System` has no sequential job: `LockEnds` for it takes a larger state space and was
  checked by hand. `Faults` has all kinds.
* `Ops` without `"create"`: `CreateTask` with the id of a plan (`service.go:163`) takes no lock and makes a
  second open task.
* `Slow = TRUE`: two backups of one kind within one second share their name.
  `Deletable = {"manual"}`: the administrator may delete what pruning keeps, and the safety copy.

Symmetry between the servers is used where no set of orders or links names one.
`CHECK_DEADLOCK FALSE` stands where the bounds end a behaviour: all requests made, all decisions taken.

A definition named `X_Y` next to `X` is a plausible bug of `X`; every property of
a passing run is violated when the one `PROJECT.json` names for it stands in the
place of `X`.

**By hand.** `MCSwap` (swap with an isolation or a failed save, demote of any length) passes;
`MCHopeless`, `MCStaleDemote`, `MCTermTwice` and `MCLateWrites` (module `SingleUpdate`) are violated and belong to section 4.3.

### 4.1 Fairness

Liveness only is checked under fairness. `FairSpec` of `Failover`:

* Time goes on while any process is up: the ticker of a running daemon always
  fires again. `TickPasses` waits for every running process, so each has its tick.
* `WF(DemoteSucceeds)`: the worker runs its queue as long as the process is up.
* `SF(AnswerVote)`, `SF(ReceiveVote)`: a request that is repeated for ever is at
  last delivered. A message may be lost each time it is sent, so weak
  fairness would not be enough, and nothing of this kind is assumed of handovers:
  `SwapEnds` holds even if all of them are lost.

Links need not heal and processes need not restart; the properties name in their
hypotheses what has to hold for good.

`SystemFair` gives each part what its own loop justifies, all weak:

* `UpdateJob`: the conductor ticks and a deadline passes (`ConductOverdue`: a step with the longest time
  of the lock over, whatever the programs answer); operations and swaps end (`UpdateGoesOn`), well or badly. No
  fairness says that they succeed.
* `Replication`: ticks, polls, the queue and the messages go on, PostgreSQL reconnects and
  streams, and the line heals (`Heal`). The last is an assumption on the network and the
  hypothesis of `MirrorReturns`.
* `MovingAddress`: ticks tell the workers, the workers go on, a vacant role is taken.
* `ActionQueue`: the waiting tick, the worker and the reconciliation every 30 s go on; a pending
  demotion is looked at (`SwapBack0` when it takes too long).
* `SingleUpdate`: the agent's loop (three seconds), pdh's question (two seconds), and systemd, which starts an
  agent that ended again (`Restart=on-failure`, `install-update-agent.sh:80`).
* `Maintenance`: a running request goes on (or gives up), the hourly run comes again.

### 4.2 Findings of the runs

1. **The minimum takeover time is too short** (`ShortTakeover`). `Validate` asks for
   `FenceAfter + 2*Tick + 5s`; with a tick of 5 s the three ticks of sight before
   fencing begins are not covered.
2. **A removed note still counts as confirmed** (`LostMirror`, `repl.go:136`). The mirror is back and the witness
   removes its note; its `current_ack` is lost. At the next break the
   active server still finds `staleAckTerm` set, goes asynchronous at once, and confirms writes while
   the witness would vote for the standby that lacks them. The comment at `sync.go:28` says why this must not be.
3. **A date comes twice** (`DueTwice`, `schedule.go:153`). A task is closed first and the plan's next date set
   afterwards; the hourly run in between creates the next task for the date just finished.

### 4.3 Disagreements found by hand

These do not have a run of their own in `PROJECT.json`; a changed bound shows each.

* **A finished demote is taken for that of a later swap** (`MCStaleDemote.cfg`, `daemon.go:700`). Nothing
  clears `demoteDone`; a second swap in the same term sends its handover at once.
* **Giving up a swap returns to active without looking** (`MCHopeless.cfg`, `step.go:312`). The partner
  may have taken over by the vote in the meantime.
* **A term given away is forgotten in a crash** (`MCTermTwice.cfg`, `step.go:279`). The pending handover
  is not saved; the giver later asks for the very term it gave away.
* **A take-over noted in memory only is forgotten** (`update_job.go:348`). The new role is saved first; that it was
  a take-over and no swap of the job stands in `u.takeover` until the next saved step of the job. A restart in
  between forgets it, and the job goes on, although a take-over is to end it
  (`docs/superpowers/specs/2026-10-30-verbund-update-design.md:252`: "Auftrag abbrechen, Meldung, kein
  weiterer automatischer Schritt"). `MaxFaults = 2` in `MCFaults.cfg` shows it: after a take-over and a restart
  `FallbackKept` is violated. `Faults` has one fault of the job for the size of its state space; what is true for
  any number of them is the theorem `FallbackIsKept` (5.9).
* **The lock lapses before the way back is over** (`MCLateWrites.cfg`, `maint_lock.go:225`). The agent ends while the
  new version is verified, or at its own restart by `--finish`, and is away for more than 30 s: pdh lifts the
  lock (`maint_lock.go:35-38`: better open than locked out). Users write, the agent begins again, turns back and restores
  the backup, without these changes. `docs/superpowers/specs/2026-10-30-verbund-update-design.md` promises a way back
  "ohne Datenverlust" (line 15) and gives as its reason for the pair "weil in der Sperre niemand schreibt" (line 224).
  `LateStays` is violated in 25 steps.
* **A standby that counts as current may lack confirmed writes** (`repl.go:79`). The comment says "liegt jede
  bestätigte Speicherung schon hier". `SyncStep` begins to wait with a lag below the limit (16 MB by default), and what users had
  confirmed while it did not wait is part of that lag. With `LagLimit = 1` TLC finds `confirmed <= flushed`
  violated in 18 steps; `ConfirmedSurvives` is what holds. Without `Prompt` that is violated too, in 21 steps.
* **What users enter during a restoration** (`backup.go:442-450`). Nothing stops them between the snapshot of the safety copy and
  the `TRUNCATE`; these changes are in no backup.
* `TotalAgrees` (`Stock`): `stock_qty` of the part is computed before the statement waits for the row, so two
  bookings of different shelves leave the older sum. `WhollyConsumed`: a return between the two statements of
  `ConsumeReservations` (`reservations.go:196`) leaves movements of both kinds.
* The first two bookings of a shelf without a row lose one: `FOR UPDATE` locks nothing
  (`LedgerAdds` over `Shelf` instead of `Stocked`). `IsLocationLocked` is asked before the transaction, so
  a booking may run into a stocktaking that has begun since.
* `AbortCounts` (`SingleUpdate`): an abort accepted while `/health` is being asked is not
  carried out. `OldRunsAgain`: an update that fails without a remark may leave the new program running:
  aborted in its preparation after the build, the new build stays and pdh starts it the next time; or the build of
  the way back fails and what was built last is started.
* `Backup`: a restart during the maintenance lock leaves entries at `running`; a run whose entry
  cannot be finished leaves its file without one.
* `Maintenance`: `SetPlanActive(false)` between another request's insert and commit leaves a resting
  plan with an open task.

Also seen: switching maintenance off at the
survivor alone leaves takeover blocked until the partner agrees or the operator
forces it (`MaintAgreed`); `actionFailed` clears `unsaved` on a successful save
with the role active in memory (`cmd/pdh-ha/daemon.go:733`), which `DemoteFails` models.

## 5. Proofs

`tlapm` checks every leaf of the eight proof modules. Each theorem holds for all values of
the constants that satisfy the named `ASSUME` of its module; the runs show the same
properties on small instances.

### 5.1 `Failover_proofs`

For any mode, thresholds, orders of ticks, sets of breakdowns and bounds:

* `TypesHold`: `Spec => []TypeOK`. Inductive as it stands. The work is in `Step`: one lemma
  per role (`...Saves`) shows that whatever branch is taken ends in a `Save` of a
  successor of the old state, and `Save` keeps the types.
* `NoTermFalls`: `Spec => TermsNeverFall`. A crash replaces memory by the file, so
  the invariant needed is `SavedTerms`: the term in the file is never below the
  term in memory. It is kept because a failed save leaves the old or the new file
  while memory stays old. `Later(q)`, the set of states a tick may turn `q` into,
  has no smaller term; it is the bridge from `Step` to the theorems.
* `VotesHold`: `Spec => []OneVotePerTerm`. The ledger alone is not inductive: what
  prevents a second vote is that the witness remembers. `VotesKnown` says that
  memory and file of the witness each know every vote in the ledger (its term is
  below the voted term, or it is the saved vote itself). An answer is only given
  after both have it; a crash falls back to the file, which has it too; a
  repetition of the same vote adds nothing new.
* `TakeoversHaveVotes`: `Spec => []TakeoverIsVoted`. A vote takes several steps to become
  a takeover, so the invariant `GrantsVoted` follows it: the answer of the witness
  under way, the grant the server holds, and a takeover which a failed save has left
  in the file only, because a crash brings it back, are each in the ledger
  (`VotedGrant`). With it, every step that counts a takeover is voted (`TakenVoted`).
  The lemmas on `Counts` show the other half: of all branches of the decision only
  `TrioWon` counts a takeover, and only with the grant for its own new term.
* `ElectionsAreServed`: with a witness, `Spec => ElectionsInOrder`, the refinement of
  `Elections` under `votes <- ledger`, `term` and `count` read from the memory of
  the servers. An answered vote is newer than all before (`NewVote`, from
  `VotesKnown`) or was given before; a counted takeover has an own vote for a term
  newer than the server's (`GrantStep`), so no vote is used twice; otherwise terms
  only rise (`TermsGrow`).

* `TermsHaveOneOwner`: with a witness and without `"swap"` and `"force_takeover"` in `Commands`,
  `Spec => []OneOwnerPerTerm`. The property speaks of memory only and is not inductive: after a
  crash the file decides, and a file may be ahead. `RightfulOwners` says of memory and file
  alike that a state that claims a term (active, or fenced and able to come back) is that of the first
  term's owner or of the server with the vote. A decision upholds this (`Upholds`, one lemma per role): it
  keeps the claim in its own term, gives it up, or takes the term it was granted. An adopted
  higher term is not claimed, because adopting it ends the role (`Superseded`). The hypothesis is needed: a handover gives
  a term without a vote, a crash forgets it (`MCTermTwice.cfg`, 4.3).
* `OneActive`: with a witness, `Spec => []AtMostOneActive` under `Guarded`: the servers act on their
  decisions (`Reals = {TRUE}`), no operator command but switching maintenance on, and
  `Takeover >= 2 * SeenTicks + FenceAfter + 2`, the relation of section 4, which the default settings satisfy
  (30 ticks against 18) and every passing run of `Failover` meets with equality. Any thresholds, orders of
  ticks, broken directions, crashes, failed and unconfirmed saves (the witness's too), lost and late
  messages are allowed, and any number of them. The relation is needed: `ShortTakeover` breaks
  it and is violated.

The argument of `OneActive`. Two active servers in one term are excluded by `OneOwner`. In two terms, `Replaced` says that
a server whose partner owns a newer term is not active in its own. To keep `Replaced` takes the following invariants,
together inductive. (TLC had checked them before, with crashes and failed saves of servers and witness: two
failures completely, four in part. They are no run of the project, the proof covers them.)

| part | says | why it is needed |
|---|---|---|
| `Facts` | the invariants of the theorems above | votes are in the ledger, once per term, and claims follow them |
| `Steadfast`, `SteadyAll` | no demote is queued; maintenance that is on stays on, also in files and heartbeats | without an operator's swap or an end of maintenance nothing else moves a role |
| `Hearsay`, `Signed`, `BeforeClaim` | what is heard of a process is not ahead of it; a claim in a heartbeat is its sender's; one without a claim is older than the term its sender owns | what a server decides on is old, but not wrong |
| `Book` | memory and file of the witness hold the votes in order | a crash may take an unconfirmed vote for given |
| `Sight` | while a server is told that it is seen, the other heard it at most `SeenTicks + 1` ticks before that | turns the server's own clock into a bound on the other's |
| `Trusts` | an active server was heard by its partner, or by a witness that gave no newer vote, within `2 * SeenTicks + 1` ticks and the time it has been out of sight; or its partner is under maintenance | fencing bounds how long a lost server stays active |
| `Recent` | while the partner still believes a heartbeat from before the server's claim, the witness heard the server almost as lately | a fresh winner may not be known to its partner |
| `Asking` | a vote is asked for only after `Takeover` ticks without the partner, or it just came back | the other side of the relation |
| `Outvoted`, `Unheard` | whoever tells a server with an older term that it is seen also tells it the newer term | closes the gap: the old server adopts the term, which ends its role, or is out of sight and fences |

A vote that the witness wrote and could not confirm counts as given in these (`Noted`), because after
a crash the witness takes it for given: the ledger alone would not do. A step is reduced to one of a
few kinds first (`Steps`: a turn of a node or the witness, an answer, a crash, time), so that each part needs
one case per kind and not one per action.

### 5.2 `Database_proofs`: the data directory

For any number of turns, crashes and directories set aside:

* `DivergedStays`: `DirSpec => []DivergedKept`. The property says the rows are somewhere; the
  invariant `RowsHere` says where: in the directory itself, at a step that overwrites nothing, and not
  in a state that `recoverDataDir` would discard. That last part needs `Marked`, which relates
  the marker file, the directories set aside and the step: a marker beside a directory
  set aside exists only while a copy runs. So a recovery never drops the newest rows for an older directory.
* `CopyStaysStandby`: `DirSpec => []CopyNeverWritable`. `Unfinished` says that a copy without
  `standby.signal` is one that recovery discards; `KeptRecord`, that no such copy is ever set
  aside, so what comes back is safe as well.
* `DirTypes`: `DirSpec => []DirTypeOK`.

### 5.3 `Maintenance_proofs`

For any number of requests, any interval and any last day:

* `OneOpen`: without `"create"` in `Ops`, `MaintSpec => []OneOpenTask`. Not inductive: two requests may
  both be about to insert. `LockKept` adds that whoever is between its look and its commit
  holds the lock, and that there is no open task; it is kept because nothing opens a
  closed task (`NoneReopened`) and only a commit adds one (`StepSound`).
* `ClosedOnce`: `MaintSpec => []ClosedByOne`. A request comes to close a task only by marking
  one that was open (`ClosingStep`), and `TaskKnown` keeps its task in the table.
* `MaintTypesHold`: `MaintSpec => []MaintTypeOK`. The one part that is not bookkeeping is that
  the next date of a fixed rhythm exists (`NextDay1`, by well-foundedness).

### 5.4 `Stock_proofs`

For any finite set of shelves, any of them with a row, any number of requests (that the shelves are
finite is needed only to write the positions of a stocktake down as a sequence):

* `BookingsAdd`: `StockSpec => []LedgerAdds`. Only a commit changes a quantity, so the invariant follows
  the request to its commit: what it has read is what is committed and the row is its own (`ReadHolds`), and
  what it has written is what is committed plus its movement, in a row it still holds (`RowsHeld`). The first
  needs that a request does not book a shelf twice in one transaction (`Bookable`), the second that no one
  else's step touches what it holds (`Spared`, `SparedKeeps`: one lemma for all steps of the others).
* `ReservationAdds`: `StockSpec => []PiecesAccounted`. Taken is back, used and still reserved together
  (`ResvAdds`); it survives because whoever holds the reservation's row has found it, and returns no
  more than it holds (`ResvHeld`). The relabelling of movements needs no lock for that.
* `TakesWhatIsThere`: `StockSpec => NeverOverdrawn`. The refusal is decided on the row as locked, and
  `NotBelow` carries it to the commit.

A shelf without a row is outside all three: nothing locks it before the first write (4.3).

### 5.5 `Backup_proofs`

`NewestStay`: `BackupSpec => []KeptOnDisk`, for any number of goroutines and any `Keep`, with `Slow` and
with deletions by the administrator kept to other kinds (`DeletesOther`, the two bounds of the run as
hypotheses). The pruning runs beside other prunings and the next backup, so what it has listed may be
stale when it removes it. Two facts make that harmless:

* *Superseded stays superseded.* A listed run has at least `Keep` later successful ones. Removing one of
  those leaves enough, because the one removed had `Keep` later ones itself (`GoneStay`, on cardinalities).
* *A file name is used once.* A run that is done has a name before the present second, the run under
  way a name after all that are done (`NamesApart`, `OwnRun`; the mutex keeps it the only one). So no file is
  removed in the name of an older run.

`FilesKept` is then inductive: a successful run of the schedule has its file or is superseded.

`SafetyCopyStays`: `BackupSpec => []SafetyCopyKept`, with `Slow` and `DeletesOther`, when moreover no copies are deleted
(`"safety" \notin Deletable`). Users may write at any time. `CopyInv` follows the copy: who restores holds the mutex to
its end, its copy is of what it read in its snapshot (`CopyIn`, `Careful`), and the files there then can only have become newer
when the copy takes them (`Dated`, `FilesDated`). Its name is new, as all copies have names before the
present second; and neither pruning nor other backups touch a copy (`CopiesSame`).

### 5.6 `SingleUpdate_proofs`

For any bounds on failing commands, deaths of the agent, unwritten job files and new starts of pdh, and an agent that
stays away for any time:

* `UpdateKeepsWrites`: `SingleSpec => [](unsaved <= 1 => WritesKept)`. The backup matters only when it is
  restored, several phases later, by an agent that may know no more than the job file. `SingleInv` follows it:
  how far the job in memory may be ahead of the job in the file, and that as long as either of the two may still
  restore the backup (`AtRisk`) both lock, pdh knows it or takes what it lets in for late, and the backup has every
  other change in the database (`Safe`); all three in `JobInv`. The theorem says nothing of late changes (4.3). `HostInv` has the property itself and that a finishing job has a backup, `PlanInv` the commands
  that are left of each plan and the phase it belongs to. With the file unwritten twice an agent that dies goes
  back further than the invariant allows for.
* `OldProgramOldData`: `SingleSpec => [](Undisturbed => OldOnOld)`. The rule is only meant for a job that
  ends without a remark. `Undisturbed` excludes what breaks it alone: an unwritten job file, pdh started by
  systemd in the middle of a step, two failed commands with a death of the agent. `OldInv` adds to
  `SingleInv` which program runs before (`BeforeFinish`) and after (`AfterFinish`) the database may be the new one,
  and what a failed command or an abort leaves behind (`GivingUp`).
* `SingleTypes`: `SingleSpec => []SingleTypeOK`.

### 5.7 `Database_proofs`: the replication

For any lag that counts as following (`LagLimit`), any number of breaks, restarts and writes:

* `ConfirmedStays`: with a witness and `Prompt`, `ReplSpec => [](budget.losses = 0 => ConfirmedSurvives)`. `Prompt` asks that
  the active server decides on the status of the moment and PostgreSQL switches at once; the standby's judgement, by a
  heartbeat as old as it likes, needs no such thing. It is needed (4.3).
  A write confirmed without the standby is safe if the witness has the note by then. The active server
  goes by what it was told, so `MirrorInv` relates the two ends through the messages between them: at most one
  question is on its way (`OneQuestion`), a note acknowledged or about to be is at the witness (`NoteInv`), and as long as
  PostgreSQL waits for the standby no more than `LagLimit` of what is confirmed is missing there (`WaitInv`). A lost answer breaks the first: the finding `LostMirror`.
* `ReplTypes`: `ReplSpec => []ReplTypeOK`.

### 5.8 `ActionQueue_proofs`

For any length of the queue, any number of decisions, failures and restarts:

* `IdleServerAgrees`: `QueueSpec => []IdleAgrees`. The property is about a server at rest, so the invariant has to say what every
  unfinished action still owes. As long as nothing was refused and nothing rebooted (`Smooth`, as in the property),
  `AgreeInv` holds: promotions and fences come in the order of their batches and after every failed one
  (`Order`), the one of the last decision fits the role (`Last`), the running one has reached what its finished
  steps were for (`Working`), and with none of them pending the server does what the role says (`Agreed`). A
  reconcile in between only closes what the role does not allow.
* `QueueTypesHold`: `QueueSpec => []QueueTypeOK`.

### 5.9 `UpdateJob_proofs`

For every kind of update and any number of faults, writes and repetitions:

* `NothingIsLost`: `UpdateSpec => []NothingLost`. That nobody writes on a stale database is true at once where the
  database of a standby is promoted; the frozen copy is what takes an argument, because its being equal was noted
  long before it is used. `Writable` strengthens the property to every database that may be written. For a rolling
  update, `WayBackComplete`: as long as the job of B may turn back to the frozen A, nobody has written since the
  exchange of roles. The exceptions are spelled out in `NoWayBack`, the jobs that a restart, a lost mirror or a
  take-over leaves behind on B and that never turn back. For a sequential update, a chain along the operations:
  the seal is answered only when B has everything (`SealComplete`), B is told to freeze only after that
  (`FreezeComplete`), and from its answer to the end of the lock B has everything or is no frozen copy
  (`CopyComplete`). A restart of A breaks each link and makes the job start the seal over (`Redo`); an answer to
  an earlier seal has a smaller number than the job waits for (`NumbersFit`), which is what makes the numbers
  of operations part of the invariant, with the messages that carry them (`MailFits`).
  `UpdateStepIs` is the other half: what any step of the job, in any phase and seeing anything, may lead to, send
  and command.
* `FallbackIsKept`: `UpdateSpec /\ [][Remembered]_updateVars => []FallbackKept`. `Remembered` says that the active
  server does not forget its take-over before its job has ended; without it the property is false (4.3). Restarts,
  take-overs and lost messages at any other time are allowed. `FallInv`, with `JobInv`, is inductive:
  a message holds the job as its sender has it (`Exact`); rolling, nothing runs on A, nothing is sent to it and it keeps the old
  program until B has verified the new one, or the active server took over and ends its job (`RollingKept`);
  sequential, B is either asked nothing and idle, and frozen once its answer came, or asked to freeze or to thaw, and
  then what runs on B, what it remembers having done and what it has answered are told apart by the number of the
  request (`SequentialKept` with `RunsAtB`, `DoneAtB`, `HeardFromB`): an answer to the number the job waits for means
  that B is idle, and after a freeze that it is frozen; an older thaw, running or repeated, is over by then.
  `UpdateTurn` says of every step of the job that it asks B one thing after the other (`Halts`) and leaves A alone (`Rolls`). That
  the copy then has every write is `WayBackComplete` and `CopyComplete` of `JobInv`.

### 5.10 Model-checked only

`AtMostOneActive` while an operator moves the roles (swap, forced takeover), ends maintenance
or changes the automatic mode, and without a witness (`Duo`): a handover gives a term
without a vote, on which `Outvoted` and `Unheard` rest, and without a witness no third process was heard. All liveness, with `ENABLED`, is beyond the prover.
`FallbackKept` where a take-over is forgotten is false from the second fault on. So is `EndsWhole` of
`UpdateJob`: the runs show it for one fault of a job, and with two TLC finds it violated in both
kinds. Rolling: B restarts, the result of its install is lost, the install is sent again and refused;
the late answer to the first one marks it installed, and while A's view of B still names the old program
the way back ends as complete although B has only begun to return. Sequential: the
way back is mirrored late, and B, active again, starts an install of its own from the older copy. Neither is proved, therefore.
The invariants of the modules without proofs have been checked within their bounds. The type invariants of `System` and `Application` are the
conjunctions of their parts': proved for `Replication`, `DataDirectory`, `ActionQueue`, `SingleUpdate` and
`Maintenance`, checked for `MovingAddress`, `UpdateJob`, `Stock` and `Backup`.

## 6. What could come next

1. **Proofs**: what `EndsWhole` of `UpdateJob` leaves true for any number of faults, which
   has to be found first, and the type invariants of `UpdateJob`, `Stock` and `Backup`.
2. **`TermLedger`**: `Elections` extended by the terms given without a vote, by handover and by
   force. It would state in one place what giving a term away in memory only breaks (4.3).
3. **`Failover` with the replication's judgement** in the place of the free answer in `Brakes`, and with
   the queue of `ActionQueue` in the place of `demotes`.
4. **Windows**: `windowAllows` and update readiness as operators, against a definition by enumeration of minutes.
5. **Rows with a status**: trainings, purchases, suggestions, and the memory of repeated
   requests, in the manner of `Maintenance`.

## 7. Not modelled

* Pure I/O: tunnel, firewall, platform parts, key and certificate files, the MQTT broker. What they can do to the
  modelled parts is a step that fails.
* Join, keys and renewal, witness self-update: each a short sequence with an operator looking on.
* Generated code, templates, assets, the web interface, and the modules of the application that do no more than
  write one guarded row per request. They are most of the repository's lines: forms,
  lists, exports, texts.
* Inside modelled parts: forced asynchronous mode (`ForceAsync`), the upload of a backup and the editing of
  schedules, a second stocktake at the same time, checklists and parts of a maintenance task,
  the cool-down, texts and alarms.

`PROJECT.json` gives the reason for every component.
