# The console's state machines in TLA+

RSDW C2 is a console for dedicated game servers: one Go process, one JSON state
file, a Kubernetes cluster it drives with `kubectl` and `helm`, alerts it sends
to Discord and to webhooks, and backups it keeps on a local volume or in S3.
Nothing in it is distributed, and most of it is hard for one reason: a request,
a background loop and a crash meet between a durable write and an effect outside
the process that cannot be taken back (a restart command, a message, a deletion).
These modules model those meetings.

## 1. Inventory

Every change of state goes through `Store.Update` (`main.go`): under a mutex, on
a clone, written to a temporary file, renamed, and followed by a sync of the
directory. A write that fails before the rename changes nothing. A failure after
it leaves memory behind the file and *poisons* the store: every later write is
refused until the process is restarted. Handlers that change a server also hold
`lifecycleMu`, taken with `TryLock`: who does not get it answers 409 or, in the
background, gives up this time.

| Component (source) | State | Operations | What is hard | What makes it correct |
|---|---|---|---|---|
| Store (`main.go`) | memory, file, `writeErr` | Update, reload | a failed sync, a crash | memory and file differ only when poisoned |
| Server lifecycle (`lifecycle.go`, `alerts.go`, `reboots.go`) | status, stop source, pending restart | stop, start, restart, dispatch, reconcile | kubectl outcome unknown, crash between claim and command, observation older than the request | a command at most once and after its claim; an operation ends once; a parked server stays parked |
| Telemetry (`telemetry.go`, `kube_telemetry.go`) | recent observations | collect, apply, drop | read without the lock, applied later | nothing stale is applied |
| Restart scheduler (`reboots.go`) | schedules, audit history | create, edit, delete, scan, claim, finish, recover | edits during a scan, late scans, restart of C2, bounded history | at most one execution of an occurrence, no catch-up, open executions are kept |
| Civil time (`reboot_time.go`) | none | next occurrence, preview | clock changes | a preview names exactly the wanted minutes |
| Restart warnings (`restart_warnings.go`) | occurrence announced | scan, validate, cancel | an edit between queueing and sending | one warning of an occurrence, none that is obsolete |
| Deliveries (`integrations.go`, `discord.go`, `webhook.go`) | queue, rate limit | queue, claim, send, settle, cancel, prune, recover | unknown outcome of a POST, cancellation in flight, crash after sending | sent at most once; status tells what is known; all settle |
| Alert producers (`alerts.go`, `memory_pressure.go`, `disk_pressure.go`) | baseline, streaks, claims | observe | gaps, restarts, repeated samples | an alert needs consecutive fresh samples of one runtime |
| Deletion (`deletion.go`) | receipts with a plan and a deadline | request, reconcile, retry, complete | cleanup of several resources, each may fail; deadline | only recorded identities are removed; a receipt never runs past its deadline |
| Backup runs (`backups_app.go`, `backups_http.go`, `backups.go`) | runs, schedules, backends | run, finish, prune, delete, edit, recover | a publication whose record cannot be written, requests without the lock, restart during a run | what is shown as succeeded can be restored; an occurrence is run once; a due schedule advances |
| Repositories (`backup_repository*.go`) | staged and published bundles, quota | stage, publish, list, remove, recover | crash between file operations, power failure, retries, two objects of a bucket | what can be opened is whole and stays; a retry is idempotent; the quota holds |
| Capture, restore (`backups_kube.go`, `backups_restore.go`) | journal on the world volume | replace, roll back, recover | interruption at any rename, a server started meanwhile | the world is the old or the new one |
| Seeds (`save.go`) | uploaded worlds | upload, use, clean up | cleanup against creation | a seed in use is not removed |
| Create, clone, edit, update (`main.go`, `clone.go`, `edit.go`, `storage_resize.go`) | servers | Helm and Kubernetes calls | partial failures | mostly rendering |
| Authentication (`auth.go`) | logins, sessions | begin, finish, expire | reuse | a login is used once |
| Views, web front end (`viewer.go`, `events.go`, `web/`) | none | formatting | | |

How they interact: the scheduler, the memory policy and the operator all reserve
the one pending restart of a server (`reserveRestart`) and dispatch it
(`dispatchRestartOperation`); the collector's `observeAlerts` ends it, which
closes the executions of the audit history (`finishRebootOccurrences`) and emits
events; an event queues deliveries (`emitAlertEvidence`); stop and deletion
cancel deliveries; a deletion removes schedules, the pending restart and the
integration's targets. A backup run holds `lifecycleMu` from its first write to
its last, and calls a repository in between; what a run says and what the
repository holds are reconciled at startup only. A restore holds it too, and works
on a stopped server's volume through a pod of its own.

`PROJECT.json` lists the hazards of this code with the properties that cover
each, and for every definition the lines it models.

## 2. Modules

| Module | Models |
|---|---|
| `RestartLifecycle` | store, lifecycle handlers, collector and Deployment of one server |
| `RestartPromise` | what a restart operation promises, with no machinery |
| `RestartLifecycleProofs`, `RestartRefinementProofs` | theorems about `RestartLifecycle` |
| `RebootScheduler` | schedules, scan, claim, audit, warnings, recovery |
| `OccurrencePromise` | what the scheduler promises of an occurrence, with no clock and no scan |
| `RebootSchedulerProofs` | theorems about `RebootScheduler` |
| `Deliveries` | queue, worker, cancellations, pruning, rate limit, recovery |
| `MessagePromise` | what the deliveries promise of a message, with no store and no worker |
| `DeliveriesProofs` | theorems about `Deliveries` |
| `RebootTime` | the next occurrence of a schedule, and its preview, in a zone whose clock changes |
| `Deletion` | request, receipt, reconciler and removals of one server |
| `DeletionProofs` | theorems about `Deletion` |
| `BackupRepository` | publication, recovery and deletion of bundles in a local volume or a bucket |
| `RepositoryPromise` | what a repository promises, with no files and no objects |
| `BackupRepositoryProofs` | theorems about `BackupRepository` |
| `BackupRuns` | runs, schedules, retention and the reconciliation at startup |
| `BackupRunsProofs` | theorems about `BackupRuns` |
| `RestoreJournal` | a restore: its request, its script, its journal and its recovery |
| `WorldPromise` | what a restore promises of the world |
| `RestoreJournalProofs` | theorems about `RestoreJournal` |
| `MC...` | values of the constants for TLC |

### RestartLifecycle

`mem` and `disk` are the server's entry in memory and in the file (status, stop
source, runtime, pending restart, and what the history says of every operation);
`lock` is `lifecycleMu` with the step its holder takes next. A handler is cut
where the code lets something happen in between: `StopClaim` (`persistStop`) and
`StopScale`; `StartBegin`, `StartScale` and `StartPersist` (start scales first
and persists afterwards, stop persists first); `RestartClaim` or `PressureClaim`
(the reservation, durable) and `Dispatch` (the command and, if it failed, the
write that marks it uncertain). The collector is four steps because
`collectTelemetry` holds no lock while it reads: `CollectRead`, `CollectStamp`
(the timestamp is taken after the read), then `CollectApply` under the lock, or
`CollectDrop` when the lock is taken or a start wrote to the history meanwhile.
`Commit` and `Refuse` are the two ways a `Store.Update` ends; `Crash` and
`Relaunch` are `NewStore` from what the file holds. The cluster (external) is a
Deployment with replicas, a template that carries the last marker, at most one
pod, and calls that returned an error and may act later.

Kept apart from the code: time since the claim saturates at the timeout; since
container start times have second precision, a runtime started within the
request's second counts as started after it (`fence`, chosen when claimed); an
observation reads the cluster at one moment; whether the memory policy claims is
a choice (its streak is not modelled); demo mode is left out; the save that
`NewStore` makes when recovery changed something is part of `Restarted`.

### RebootScheduler

`schedules`, `history`, `warnings` and `servers` are the parts of `State` the
scheduler uses. `scan` is a `scanReboots` under way: `ScanBegin`, `ScanWarn`
(the warning pass, which ends the scan when refused: `ScanAbort`), `ScanGroup`
(the snapshot), and per server `ScanClaim` (`claimScheduledReboots`, one Update)
or `ScanSkip` (lock taken, or Update refused), and `Dispatch` while the lock is
held. `Save` and `Delete` are the HTTP requests; they take no lifecycle lock, so
they interleave with the scan. `SendWarning` is the delivery worker as far as a
warning sees it. `Resolve` ends an operation. `Crash` runs `recoverReboots`.
`OccurrencePromise` is implemented with the fate of an occurrence read off the
history (`FateIn`): the result of its execution, forgotten when it was recorded and
trimmed since, none when it was not recorded; and with the pending restart of each
server that was not deleted. Scans, edits, warnings and the clock are stutters.

Kept apart: a tick is 60 s, so `LateWindow` is 1; intervals are shorter than the
hour the code asks for, so that occurrences follow each other within the bound;
`nextReboot` is arithmetic for intervals and, for the wall-clock modes, the next
member of a set of times (civil time is its own component); a refused Update
changes nothing here; scheduling is enabled; deletion is its effect on schedules.

### Deliveries

`mem` and `disk` hold the queue, the integrations, the rate-limit pause, the
warnings still eligible and whether the server is being deleted. `worker` is
`processDeliveries`: `PassBegin` (snapshot), `Mark` (a delivery left `sending` is
uncertain), `Claim`, `Send`, `Persist` for each delivery in any order (a Go map),
`PassEnd` at any error. `Request` is every handler that changes the queue or an
integration: edit, stop, deletion, obsolete warnings. `Emit` queues.
`MessagePromise` is implemented with what the list shows of a delivery in memory
(`Shown`, where a cancelled one that may have gone out is told from one that failed),
what providers took, and the message of the worker's step `send` as the one carried.

Kept apart: waiting times are ticks that remain, a tick being the first back-off
of two seconds; `UpdatedAt` is an order, so two deliveries that settle in one
moment are ordered; the rules, servers and `Enabled` of an integration are one
flag; a delivery's integration and channel are all of its message.

### RebootTime

A pure function, so the only action is `Preview`, which appends what `nextReboot`
returns. Instants and readings of a clock are numbers of slots; a zone is a first
offset and a set of changes. `Earliest` is `earliestUTCForCivilMinute` with the
offsets `OffsetsAround` finds; `NextDaily`, `NextCron` and `NextInterval` are the
three modes. `Meant` is the reference: the clock shows a wanted minute for the
first time. `time.Date`, `Time.In` and `cron.Next` are external and modelled by
what they do. `JumpsFromMidnight` is an assumption the algorithm needs: where a
clock skips minutes for which `time.Date` leaves the day, it skips them from
midnight on. Otherwise `AddDate` may name the day before and a time of the day
after the jump is lost. Clocks that jump over midnight do so at midnight; the last
exception in the zone database is Asia/Pyongyang on 4 May 2018.

Kept apart: cron fields are a set of times of day and a period of days; the
parsing of definitions and the overflow checks of intervals are left out.

### Deletion

`mem` and `disk` are the receipt and the status of the server; `objs` what is
found under each name: the Helm release, what it installs, the world claim, the
claim of an uploaded save and the Secret of C2, each with a UID that grows when
somebody creates it again. `Inspect` and `Accept` are `handleDelete` (the plan,
then the receipt), `Retry` the same request when the window is over.
`ReconcileBegin` starts an attempt of `reconcileDeletions`; its steps are those of
`removeServer`, one for each call that may fail or wait: `Check`, `Uninstall`,
`Look` and `Delete` (`deleteIdentity` before and after its first answer),
`KeepClaim`, `References`, `ReleaseGone`; `Finish` or `Fail` ends it. Both hold
`lifecycleMu`, so only the cluster interleaves with them: `Vanish` is what was
being deleted and is gone, `OutsideChange` anybody else.

Kept apart: a tick is five minutes, half the window; the checks before the first
command read the cluster at one moment; between the check and the end of the
uninstall, nobody else replaces the release or what it installs, because Helm
knows only names and `docs/server-deletion.md` asks for it; resources a release
installs are one object; `LastError`, the demo and receipts without a deadline
are left out, and so is the part of `completeDeletion` that concerns other
components (it is in `RebootScheduler` and `Deliveries`).

### BackupRepository

`objects` and `staging` are the two directories of the local repository, or the
objects of a bucket; an entry says whether its directory, its record and its
bundle are there. `synced` is what a power failure leaves: `PowerFails` undoes
renames whose directory was not synced, but never takes a directory from both
names. `op` is the step each goroutine takes next, `writer` the mutex. Locally,
`CreateStage`, `Stage`, `SyncStage` are `createStage`; `Publish` or `Reject`,
`SyncObjects`, `SyncStaging` are `publishStaged`; `RemoveObject`, `SyncRemoval`
are `Delete`; and `RecoverBegin` to `RecoverEnd` or `RecoverFails` the loop of
`Recover`, which goes through `publishStaged` too. In a bucket `StageBundle`
holds no lock, `LockBucket` to `AnswerPut` hold it and `RemoveBundle`,
`RemoveRecord` do not. Every one may fail, with or without its effect where that
cannot be told.

Kept apart: a bundle is named by its contents, and validation is that the record
names the bundle that is there; callers draw a new manifest id for each run and
do not delete what another call is about, which is what C2 does; a stage that was
renamed had its files and itself synced before, so torn contents come only from a
removal; the recovery of a bucket is left out, as nothing calls it.

### BackupRuns

`mem`, `disk` and `poisoned` are the store; `copies` is what the repositories hold
under the id of each run; `job` the holder of `lifecycleMu`: a request
(`RunNow`), or the scheduler with what it found due (`ScanBegin`, `ScanNext`).
`Admit`, `Publish`, `Complete`, `Fail` are the four writes of `executeBackup`
around its publication, `Reject` the one of `runDueBackups` after an error, and
`Prune`, `PruneDelete`, `PruneForget` are `pruneBackupRuns`. Without the lock:
`EraseBegin`, `EraseRemove`, `EraseForget` (`deleteBackupRun`), `SaveSchedule`,
`DeleteSchedule`. `Crash` keeps the file, `Launch` is `recoverBackupSchedules`,
`Resolve` and `Reconcile` or `ReconcileFails` are `recoverBackupRepository`.

Kept apart: a schedule is due at every tick; one server; a run's phases, its
alerts and `LastRun`, `LastResult`, `LastError` are left out, and so is a schedule
whose next run cannot be computed; backends stay connected; writes between
the first and the publication are one; the keys of runs by hand are not kept, so
a request that repeats one is a further run, or none. A run by hand may name any
schedule with any backend (`ByHand`); in the runs it names no schedule and the
remote backend. `BackupRepository` is used by its promise: a call that failed may
have published, or locally have left a stage.

### RestoreJournal

`world` is the content of each file, `stage` the directory `.c2-restore`,
`script` the shell script in the pod of each restore and `request` the step of
`restoreFiles`, which runs the script three times: prepare (`Recover`, `Replay`,
`Remove`, `MakeStage`), commit (`Check`, `Journal`, `Aside` or `MarkNew`,
`Place`, `Apply`, `Untrap`) and finalize (`Finalize`, `Remove`). The script has two
traps: `Fail`, that of EXIT, recovers and the script ends; `Signal`, that of HUP, INT
and TERM, recovers as well, but the script goes on. In the loop it has then lost its
stage and, since `recover` reads the journal into the loop's own variable `file`, to
the end, the name of the file at hand: of the commands that follow, the first that
needs either fails (`Lost`). Behind the loop it ends in success without a stage, and
`Finalize` does not find `applied`. `Kill` is the end of the pod at any command,
`Abandon` the end of the request.
`Start`, `Stop`, `Save` are the game server, which another user of the cluster
may start. `Recovered` is the world as the recovery of a later attempt would leave
it, and the refinement: what `WorldPromise` says of the world holds of it.

Kept apart: names are a set, for no property depends on the order of `sort -u`;
paths, checks for symbolic links and checksums are left out (`Check` compares
contents); a power failure of the volume is left out, though the script syncs;
a signal that comes while `recover` runs, for it would recover once more, is left
out. A kill within `rm -rf` leaves any part of the stage (`Torn`). The two things
that break the journal are faults of their own (`Faults`): such a kill of a finished
restore that takes its marker and leaves its journal (`tear`), and a script that
outlives its abandoned request until a later restore begins (`outlive`).

## 3. Runs

| Run | Question | Result |
|---|---|---|
| `RestartLifecycle` | Do stop, start, restart, the collector and crashes in every order keep the restart's promises? Does every operation end? | holds; an operation ends unless the Deployment is seen scaled to zero |
| `RebootScheduler` | Is every occurrence handled once, in time and in the audit, with edits between snapshot and claim, while servers stop, start and go? Is it decided once, and does it end as its restart does? | holds, deleted servers apart |
| `RebootWarnings` | Is a warning sent only for what is still scheduled? Does a schedule show its last occurrence? Is every due occurrence handled? | holds |
| `RebootWrongTarget` | Does a schedule restart its target? | **no**, see 6 |
| `Deliveries` | Is a message taken at most once, is the abstract promise (that no status is false, and an end final) kept, and are pauses, through crashes, failed writes and cancellations? Does every delivery settle? | holds |
| `Deletion` | Is only what a receipt records removed, within its window, and can every attempt be repeated, whoever changes the cluster meanwhile? Does it end? | holds |
| `RebootTime` | Does a preview name exactly the occurrences that are meant, around clock changes? | holds |
| `BackupRepository` | Is a bundle there whole or not at all, and kept once answered, through failures and crashes at every file or object operation? Does the quota hold? Does a recovery leave nothing behind? | holds |
| `BackupRuns` | Can what is shown as succeeded be restored? Has an interrupted run left nothing behind? Is an occurrence run once? Does a run end, at the next startup at the latest, and a schedule advance? | holds |
| `PrunedFromItsBackend` | Does retention remove a run only with its bundle? | **no**, see 6 |
| `RestoreJournal` | Is a restore atomic, whichever command fails and wherever its script is signalled or killed, and done when it is reported as done? | holds, a kill within the removal of a finished stage apart |
| `RestoreInterrupted` | Does a restore whose end was marked stay, when the removal of its stage is interrupted? | **no**, see 6 |

Every property has a mutant (`PROJECT.json`), a definition beside the original
that has a plausible bug, under which TLC finds the property violated; the
mutants are the definitions marked `Mutant` in the modules.

**Bounds.** Two restart operations let a second one follow a first that failed
with its command still in flight; two runtimes let a marked one be replaced;
one fault is a failed call or write or a crash in between. Two schedules meet in
one claim or, on two servers, in one scan. In `RebootScheduler` the wall-clock times are
2 and 4 of four ticks and the late window is one: the first may be claimed in time,
claimed late, or found two ticks late, when it is over; in `RebootWarnings` five ticks
hold the times 3 and 4, two occurrences of an interval, and claims more than the late
window after each. A history of one execution is trimmed as soon as
there is a second, and a third open one finds no room. Three requests are enough to
create a schedule and delete its server with the restart pending, or to create two
and move one between two scans. An alert
on two Discord channels and a test message make three deliveries, and a history of
one makes pruning choose; two attempts contain a retry and the last one, two faults
a crash after a result that could not be written. A webhook differs from these
channels only in that it neither sets nor minds a pause. A deletion has a window of
two ticks in five, so that a second window follows one that is over; two UIDs under
a name let an object be replaced once, by one outside change, with one fault. Days
have six slots, and the clock changes by one or two of them at every slot of two
days, west and east of UTC, and again a day and a half later; daily searches six
days and cron eight, of which its library searches five.

Two ids and two identities with requests that agree or differ in contents let a
publication be repeated, contradicted, and meet the stage of an interrupted one;
three goroutines and sizes of which only some fit let one take the room another was
promised; the number of crashes, failures and deletions is not bounded. Two runs
let one be the other's retry, its successor in the schedule or what retention
takes. Of the schedule one occurrence comes due in the two ticks, and later scans find
it due again after a refused write, an edit or a restart, which is what an occurrence
run twice takes; an edit moves the schedule to the other backend, and two faults let
the writes that record a failure both be refused, or a crash follow a publication that
was not recorded. Two saves and a setting let a
restore bring some, remove others and leave one alone; a second restore recovers
the first, wherever it was signalled or killed, and is signalled or killed itself.

Faults, edits, events and time are bounded in the guards and every bound is a
constant. The runs check for deadlock except for the end that the bounds impose, in
the specifications' own stuttering disjuncts; `RebootTime`, `BackupRuns` and
`RestoreJournal` do not, as previews, ids to draw and restores have an end.

**Fairness.** `runCollector`, `runRebootScheduler`, `runDeliveries`,
`runDeletionReconciler` and `runBackupScheduler` are tickers (15 s, 15 s, 1 s, 5 s,
15 s) that run as long as the process does; the handlers that
hold the lock end because `kubectl` and HTTP calls have deadlines; a poisoned
process refuses every write until it is relaunched, which its probe and
operator are trusted to do; time passes. No fairness is assumed of operators, of
the cluster or of faults, and an operation whose replacement never becomes ready
ends by its deadline. `BackupRepository` and `RestoreJournal` assume none: they
promise safety only.

## 4. Theorems

For every number of operations, runtimes and faults, any timeout, with or
without the memory policy and outside scaling, `RestartLifecycleProofs` proves
type correctness and seven safety properties, of which the run checks three
(`CommandOnceAfterDurableClaim`, `NoLostOperation`, `CompletedMeansServed`);
that the dispatched operation is the pending one, that a parked server has no
pending restart, that only a start ends a park, and that memory and file differ
only in a poisoned store are proved without a run of their own.
`RestartRefinementProofs` proves that `RestartLifecycle` implements
`RestartPromise`. The only assumption is `BoundsAssumption`, that the bounds are
natural numbers and the switches Booleans.

The invariants are not inductive alone. `IInv` strengthens them: in memory *and*
in the file, an operation is requested exactly when it is the pending one, and a
parked server has none (`Consistent`; a crash trades memory for the file, so both
must satisfy it); the two differ only when poisoned; an operation being
dispatched is claimed in memory and in the file, unsent (`Dispatching`); ids not
drawn are unused; what was sent had been claimed. Each entry written by a handler
has a lemma (`ReservedGood`, `ObservedGood`, ...), `UpdateKeepsIInv` lifts a good
entry through `Commit` and `Refuse`, and each action has a lemma. That a completed
operation was served needs a second invariant, `Served`, which says whose marker
a reading carried and that it was ready. The refinement maps a step that changes
the history to `Request` or `End`, a `Dispatch` to `Send`, all else to a stutter;
it needs that a file ahead of memory, which a crash makes visible, is one such
step ahead (`FileAhead`).

`RestoreJournalProofs` proves of `RestoreJournal`, for any files, restores, failures,
signals, kills and starts of the server, type correctness, that an answer is true, and
that the script implements `WorldPromise`. Beside `RestoreAssumption`, type correctness
and the answers assume only that no script outlives its request into the next restore,
which is the container runtime's to keep. The promise assumes also that no kill within
`rm -rf` takes the marker of a finished restore before its journal: `Faults = {}`.
`RestoreInterrupted` refutes that assumption for this script, so the theorem says what
holds of every other kill, and that run what follows from this one.

Its inductive invariant has five parts: `Types`; `StageInv`, what the stage may
hold without a script; `LastOnly`, that only the last restore has a script;
`ScriptInv`, which says for each step of the script what the journal, the
originals, the marks of new files and the world hold of every file, those already
replaced, the one at hand and those to come, and that after a signal there is no stage
or an empty one; and `RequestInv`, which ties the
request's step to the script's. Under it each step of the script either leaves
`Recovered` as it is, because what it changes in the world it has first written to
the journal, or is the replacement (`Finalize`, whose marker makes
the placed files count at once); a save by the game server changes only files it
made dirty. The answer is true because the stage is gone when finalize ends.

`BackupRepositoryProofs` proves of `BackupRepository`, for any ids, identities,
contents, sizes, requests and callers, type correctness (with the writer lock held
for every step that needs it), that only a deletion tears a publication, that a
recovery leaves nothing staged, that the quota is kept, and that both kinds of
repository implement `RepositoryPromise`. It assumes `RepositoryAssumption` only.

Its inductive invariant says what every step of a call relies on (`Relies`: a stage
about to be published is whole, an object about to be synced is the one renamed, a
bundle about to get its record is the record's, who removes has withdrawn the
promise); that a local entry is whole or hollow, never partly written, in the
directories and in their synced images (`ObjectsGood`, `StagesGood`), which is why a
power failure may choose among them; that what was told is there and, locally, synced
(`Told`); and that during a recovery a stage is still to be looked at or is being
published (`Recovered`). A local call runs alone (`Alone`), so its steps meet nobody
else's; calls in a bucket do not, and what keeps them apart is that a deletion's id
is in no other call and does not come back. The refinement follows from `Told` alone: a
step that tells nothing may change only what was not told.

The quota needs three more parts (`QInv`): only finitely many bundles were ever
published, however many ids there are (`Sparse`); what a power failure leaves of the
publications whose deletion was not begun is among those there are (`Written`), since
otherwise it could add to them; and who puts a publication into the bucket has found
room for it, which nobody takes meanwhile, as the rest of `publish` holds the lock
(`Room`). The usage is a sum over a set, and the library's facts about sums need
induction; the proof shows instead that a sum exists, that its order does not matter
and that it grows with its set, each by a counterexample that would be the smallest.

`DeletionProofs` proves every safety property of `Deletion` that the run checks,
for any window, clock and number of replacements, requests, changes by others and
faults, from `DeletionAssumption`. The invariant says that the file is memory or
ahead of it and that a receipt never changes its plan (`Durable`); that an object
under a name is the recorded one or a later one (`NotReborn`), so that what is gone
stays gone; what the step of the lock's holder has cleared and relies on (`Holder`);
and that without changes by others a claim is ending or gone only when the file says
purge and the release is gone (`Undisturbed`, which `Resumable` needs: the checks of a
retry insist on the world unless that is so).

`RebootSchedulerProofs` proves every safety property of `RebootScheduler` that the
runs check and find kept, for any servers, schedules, timings (intervals or any set
of times), late window, limits of the history, edits and faults, from
`SchedulerAssumption`, whose demands beyond types are intervals of at least one tick
and that time begins (`MaxTime` of at least 1). One theorem has a hypothesis: `OpenAwaited` holds if no
schedule changes its target between the snapshot of a scan and its claim. The code
does not prevent that; `RebootWrongTarget` shows what follows, and the hypothesis
is what the run of `OpenIsPending` sets too. In the invariant, the next run of a
schedule was never recorded and lies after the time its timing was set or C2
started (`Ahead`, from which an occurrence is recorded once and nothing is caught
up); an execution is known by its schedule and occurrence, and by its schedule and
restart (`Distinct`), so that closing or trimming one does not reach another;
what a schedule shows agrees with the history (`Shows`); no two servers wait for
the same restart (`OneServer`), without which the end of one would close what the
other still waits for (`Awaits`); and the snapshot of a scan names schedules that
were drawn, under the server they restart now (`Snapshot`, the part that needs the
hypothesis). That trimming keeps what is open (`OpenIsKept`) is proved without a run.

That `RebootScheduler` implements `OccurrencePromise` needs no such hypothesis, for the
promise does not say which server is restarted for an occurrence. A claim and startup
decide only what was never recorded (`RecordedTurns`, from `Ahead` and `Distinct`); a
restart that ends closes exactly the executions that are open for it
(`FinishSettles`); and a command is found to have failed only while its server is there
and waits for that restart (`LockHeld`, an invariant of its own).

`DeliveriesProofs` proves every safety property of `Deliveries` that the run
checks, for any finite set of integrations, any targets, attempts, waits, limits,
edits and faults, from `DeliveriesAssumption`. A crash trades memory for the file,
so the invariant speaks of both: each is `Sound`, that is, a delivery that waits may
be tried again and was not taken, what shows sent or failed was or was not, and the
delivery whose message is under way is one that nobody will send again (`UnderWay`:
cancelled, uncertain, gone, or still claimed). The file is memory or, once poisoned,
ahead of it, with a pause no shorter (`Durable`); and what the worker knows of the
message it holds agrees with what was taken (`Sent`). That the status in the file is
true too (`StatusIsTrue`) is proved without a run; the promise below speaks of it as
recovery shows it.

It also proves that `Deliveries` implements `MessagePromise`. The list is read off
memory; the file may be ahead of it by the one write that poisoned the store, which a
restart shows at once, and that write is a step of the promise too, a claim
included (`Ahead`). What recovery shows is a step as well, because it finds every claim
uncertain; and every step leaves the list true of the message under way (`ShownIsTrue`).

`BackupRunsProofs` proves every safety property of `BackupRuns` that
`BackupRuns.cfg` checks, for any schedules, backends, retentions and number of
runs, edits and faults, from `BackupAssumption`. Here too memory and file are both
`Good`: a run and the copy of its id agree (`Agrees`), a run shown as succeeded has
its bundle (`Kept1`), an interrupted one has none in the local volume (`Left`, for which
the reconciliation must come after every stage was published or removed), and no two runs, or bundles without a run, bear the same
occurrence (`Unique`). That alone is not inductive, since a schedule may name an
occurrence again after a failed write: `Past` says that who bears an occurrence
either is shown as running or has seen its schedule go beyond it, `ToDo` that what a
scan still has to run is borne only by runs so shown, and `Starting` that the
reconciliation leaves no bundle whose schedule is still behind it, which is what
makes a crash between publication and record harmless. `Holding` and `Removing` say
what the steps of the job and of a removal rely on.

Only model-checked: liveness (`RestartResolves`, `DueIsHandled`,
`EveryDeliverySettles`, `DeletionEnds`, `DueAdvances`), which is beyond the proof
system; and `PreviewIsExact` of `RebootTime`, which depends on what the clocks of a
day do and, for cron, on a search that is a recursive function, and is explored over
every change of the clocks that fits the bound. No theorem is about the three
properties that a run finds violated.

## 5. Plan

What is left, most important first:

1. `Alerts`: outage, recovery and pressure streaks over sequences of samples,
   with retention of events; it takes the place of the choice in `PressureClaim`.
2. `Seeds`: claims of uploaded worlds, their cleanup against a creation; and the
   creation of a server from a backup, or as a clone, that meets it.
3. `Sessions`: logins and sessions, for their state only.
4. Storage backends: added, removed and reconnected while runs use them.

The suite is kept short: the questions of the scheduler and of the deliveries are
asked by fewer, larger runs, and a property that a deeper one implies is gone.

Theorems to add: of `RebootTime`, the two halves of `PreviewIsExact` that need no walk
over days; of `BackupRuns`, an abstract specification of what a list of runs
promises, as there is one of a repository.

Not modelled, by choice: rendering of Helm values, views, the front end, token
verification, parsing of telemetry, the streams of a backup's capture; they keep
no state, or a library's.

## 6. Where code and documents part

- `claimScheduledReboots` re-reads a schedule but not its target: a schedule moved
  to another server between snapshot and claim restarts the old server, and the
  audit names the new one (`RebootWrongTarget`; `docs/reboots.md:27`).
- `pruneBackupRuns` deletes the bundles it prunes in the backend the schedule
  names now, not in the run's: after the schedule has moved, the runs are forgotten
  and their bundles stay (`PrunedFromItsBackend`; `docs/backups.md:88`).
- finalize removes its marker and its journal with one `rm -rf`: killed between the
  two, the next attempt undoes a finished restore, in part (`RestoreInterrupted`;
  `backups_restore.go:238`).

Seen while modelling, and shown by no run:

- A restart whose Deployment is scaled to zero by somebody else never fails:
  `observeAlerts` returns for a server observed stopped before it looks at the
  pending operation (`docs/integrations.md:54`, `docs/reboots.md:29`). While it
  lasts, stop and start answer 409 for the pending restart and restart answers 409
  for the stopped server.
- The wait Discord asks for is dropped with the result of a delivery cancelled in
  flight, so the next one is sent at once (`docs/integrations.md:85`).
- Cancellations do not prune, so the delivery history may exceed its limit until
  the next result, and uncertain deliveries are never pruned. Deleting a server with
  a pending restart leaves its executions awaiting for ever. Editing the lead of a
  warning announces the same occurrence again under the new revision.
- When the writes of `setFailure` and of `runDueBackups` are both refused, the run
  stays running and its schedule due until the next startup. Startup then marks a
  running S3 run as interrupted even if its bundle was published, and a failed local
  one as succeeded if it was. A schedule disabled during its run has a next run
  again afterwards, and one disabled or deleted after the snapshot of the scan still
  runs once.
- A run of a schedule started by hand counts for the schedule's retention, while
  `docs/backups.md:86` says that manual runs are never touched. `docs/backups.md:36`
  says that a retried run with the same idempotency key completes over an orphaned
  pair in a bucket; a retried run has a fresh id, and leaves the orphan.
- A local deletion that is interrupted leaves a torn directory, which makes the
  usage, and so every later backup, fail until somebody deletes it again. A
  publication repeated after a failed sync is answered without syncing. An error
  while a stage is read in `Recover` removes that stage.
- The `trap 'recover'` of HUP, INT and TERM does not end the script. It goes on without
  its stage, and nothing is lost only because `recover` happens to read into the
  variable `file` of the loop it interrupts, so that the next command fails; a signal
  behind the loop ends in a success that finalize then denies. A server may be
  started on a world that a killed restore left half replaced; a later restore rolls
  the world back before it can fail for its own reasons. `verifyBackupStopped`
  leaves inspector pods out, so a script that still runs is not seen.
- Nothing sets a backend that `reconcileS3Backends` marked disconnected to connected
  again, and `addS3` refuses its id (`docs/backups.md:40`). The map of repositories
  is read and written by handlers without a lock.
