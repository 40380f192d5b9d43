----------------------------- MODULE BackupRuns -----------------------------
(***************************************************************************)
(* Backup runs and schedules (backups_http.go, backups_app.go): manual and *)
(* scheduled runs under lifecycleMu, each written to the store before,     *)
(* during and after its publication; retention; deletion of runs and edits *)
(* of schedules without the lock; crashes and the recovery at startup.     *)
(*                                                                         *)
(* A repository is what RepositoryPromise promises of it: a bundle is there*)
(* or not.  A call of it that fails may have had its effect, and a local   *)
(* one may have left a stage that the next startup publishes.              *)
(***************************************************************************)
EXTENDS Naturals, FiniteSets

CONSTANTS
  Schedules,   \* ids of schedules that were saved
  Backends,    \* ids of storage backends
  Local,       \* the local one
  ByHand,      \* the schedule and backend that a run by hand may name
  Retentions,  \* retentions a schedule may ask for
  MaxRuns,     \* runs whose id is drawn
  MaxTime,     \* of the clock; a schedule is due at every tick
  MaxEdits,    \* edits of schedules
  MaxFaults,   \* writes of the store that fail, and crashes
  Nothing

Runs == 1..MaxRuns
Times == 0..(MaxTime + 1)

ASSUME BackupAssumption ==
  /\ Local \in Backends
  /\ ByHand \subseteq [schedule : Schedules \cup {Nothing}, backend : Backends]
  /\ Retentions \subseteq [count : Nat, days : Nat]
  /\ {MaxRuns, MaxEdits, MaxFaults} \subseteq Nat /\ MaxTime \in Nat \ {0}
  /\ Nothing \notin Schedules \cup Backends

\* The identity of a run's request: schedule and occurrence, or a key of its own.
Manual == [schedule |-> Nothing, due |-> 0]
Keys == {Manual} \cup [schedule : Schedules, due : Times \ {0}]

\* BackupRun; created is its number, for ids are drawn in order.
NoRun ==
  [status |-> "none", key |-> Manual, schedule |-> Nothing, backend |-> Local,
   manifest |-> FALSE, created |-> 0]
RunRecords ==
  [status : {"none", "running", "succeeded", "failed", "interrupted"}, key : Keys,
   schedule : Schedules \cup {Nothing}, backend : Backends, manifest : BOOLEAN, created : Times]

\* BackupSchedule; next is 0 for a nil NextRun.
NoRetention == [count |-> 0, days |-> 0]
NoSchedule ==
  [live |-> FALSE, enabled |-> FALSE, backend |-> Local, next |-> 0, retain |-> NoRetention]
ScheduleRecords ==
  [live : BOOLEAN, enabled : BOOLEAN, backend : Backends, next : Times,
   retain : Retentions \cup {NoRetention}]

\* What a repository holds under the id of a run.
NoCopy == [state |-> "none", backend |-> Local, key |-> Manual, created |-> 0]
Copies ==
  [state : {"none", "staged", "published"}, backend : Backends, key : Keys, created : Times]

VARIABLES
  mem, disk,  \* the store's state in memory and in its file: runs and schedules
  poisoned,   \* Store.writeErr is set: every Update is refused until a restart
  phase,      \* "down", "recovering" or "serving"
  now,        \* the clock
  copies,     \* repositories: what is under each id
  job,        \* the holder of lifecycleMu
  eraser,     \* a request that deletes a run
  drawn,      \* ids drawn
  edits, faults,
  begun,      \* observer: ids whose deletion reached their bundle
  left        \* observer: runs whose end could not be written

store == <<mem, disk, poisoned, faults>>
vars  == <<store, phase, now, copies, job, eraser, drawn, edits, begun, left>>

-----------------------------------------------------------------------------
(* The store                                                               *)

Commit(next) == ~poisoned /\ mem' = next /\ disk' = next /\ UNCHANGED <<poisoned, faults>>

\* Mutant: the store goes on after an uncertain write.
RefuseUnpoisoned(next) ==
  \/ poisoned /\ UNCHANGED store
  \/ /\ ~poisoned /\ faults < MaxFaults /\ faults' = faults + 1
     /\ disk' \in {disk, next} /\ UNCHANGED <<mem, poisoned>>

\* A write fails before the file is replaced, or after: then the store
\* refuses every later one.
Refuse(next) ==
  \/ poisoned /\ UNCHANGED store
  \/ /\ ~poisoned /\ faults < MaxFaults /\ faults' = faults + 1
     /\ \/ UNCHANGED <<disk, poisoned>>
        \/ disk' = next /\ poisoned' = TRUE
     /\ UNCHANGED mem

WithRun(st, r, run) == [st EXCEPT !.runs[r] = run]
Forgotten(st, rs) == [st EXCEPT !.runs = [r \in Runs |-> IF r \in rs THEN NoRun ELSE st.runs[r]]]

\* nextBackupScheduleRun from now on, whether or not the schedule is enabled.
Advanced(st, s) ==
  IF s # Nothing /\ st.schedules[s].live
    THEN [st EXCEPT !.schedules[s].next = now + 1]
    ELSE st

-----------------------------------------------------------------------------
(* One run: executeBackup, under lifecycleMu                               *)

\* key, schedule and backend are the request's, run the id it drew; doomed
\* and pruned are the retention's, from the backend of its schedule; todo is
\* what the scheduler found due.
Idle ==
  [step |-> "idle", key |-> Manual, schedule |-> Nothing, backend |-> Local, run |-> 0,
   manifest |-> FALSE, doomed |-> {}, pruned |-> {}, todo |-> {}]
Requests == [key : Keys, schedule : Schedules \cup {Nothing}, backend : Backends]

Goto(step) == job' = [job EXCEPT !.step = step]

\* The request is answered; the scheduler goes on with what is due.
Done(todo) == job' = IF todo = {} THEN Idle ELSE [Idle EXCEPT !.step = "scan", !.todo = todo]
Failed(key, todo) ==
  IF key = Manual THEN Done(todo)
  ELSE job' = [Idle EXCEPT !.step = "reject", !.key = key, !.todo = todo]

Free == phase = "serving" /\ job.step = "idle"

\* Mutant: a run that did not end does not count.
AnsweredSucceeded(key) ==
  key # Manual /\ \E r \in Runs : mem.runs[r].key = key /\ mem.runs[r].status = "succeeded"

\* The idempotency key was used by a run that succeeded or did not end.
Answered(key) ==
  key # Manual /\ \E r \in Runs :
    mem.runs[r].key = key /\ mem.runs[r].status \in {"succeeded", "running"}

\* The beginning of executeBackup: storage, server, profile or backend may not
\* be fit for a run, and the first write may be refused.
Admit(request, todo) ==
  LET r == drawn + 1
      entry == WithRun(mem, r, [status |-> "running", key |-> request.key,
                                schedule |-> request.schedule, backend |-> request.backend,
                                manifest |-> FALSE, created |-> now])
  IN \/ Failed(request.key, todo) /\ UNCHANGED <<store, drawn>>
     \/ Answered(request.key) /\ Done(todo) /\ UNCHANGED <<store, drawn>>
     \/ /\ ~Answered(request.key) /\ drawn < MaxRuns /\ drawn' = r
        /\ \/ /\ Commit(entry)
              /\ job' = [Idle EXCEPT !.step = "publish", !.key = request.key,
                           !.schedule = request.schedule, !.backend = request.backend,
                           !.run = r, !.todo = todo]
           \/ Refuse(entry) /\ Failed(request.key, todo)

\* runDueBackups: the lock, and a snapshot of what is due.
Due(s) == mem.schedules[s].enabled /\ mem.schedules[s].next \in 1..now

ScanBegin ==
  /\ Free
  /\ LET due == {s \in Schedules : Due(s)}
         request(s) == [key |-> [schedule |-> s, due |-> mem.schedules[s].next],
                        schedule |-> s, backend |-> mem.schedules[s].backend]
     IN due # {} /\ Done({request(s) : s \in due})
  /\ UNCHANGED <<store, phase, now, copies, eraser, drawn, edits, begun, left>>

ScanNext ==
  /\ job.step = "scan"
  /\ \E request \in job.todo : Admit(request, job.todo \ {request})
  /\ UNCHANGED <<phase, now, copies, eraser, edits, begun, left>>

\* runBackupHTTP, of whatever schedule, if any, and backend the request names,
\* and runScheduledBackupNow: the run bears the schedule's id, but not its
\* occurrence.  A request that repeats a key of its own is answered and changes
\* nothing, or is one more run: such keys are not kept here.
ManualRun(s, backend) == [key |-> Manual, schedule |-> s, backend |-> backend]

RunNow ==
  /\ Free /\ drawn < MaxRuns
  /\ \/ \E named \in ByHand : Admit(ManualRun(named.schedule, named.backend), {})
     \/ \E s \in Schedules :
          mem.schedules[s].live /\ Admit(ManualRun(s, mem.schedules[s].backend), {})
  /\ UNCHANGED <<phase, now, copies, eraser, edits, begun, left>>

Copy(state) ==
  [state |-> state, backend |-> job.backend, key |-> job.key, created |-> mem.runs[job.run].created]

\* What a publication that fails or is interrupted leaves.
Remnants == {"none", "published"} \cup IF job.backend = Local THEN {"staged"} ELSE {}

\* Mutant: an uncertain answer counts as a success.
PublishAnyhow ==
  /\ job.step = "publish"
  /\ \E state \in Remnants : copies' = [copies EXCEPT ![job.run] = Copy(state)]
  /\ Goto("complete")
  /\ UNCHANGED <<store, phase, now, eraser, drawn, edits, begun, left>>

\* The phases are written, the files read and the bundle published.  Any of
\* it may fail: the writes only before the publication begins.
Publish ==
  /\ job.step = "publish"
  /\ \/ /\ Commit(mem) /\ Goto("complete")
        /\ copies' = [copies EXCEPT ![job.run] = Copy("published")]
     \/ /\ Commit(mem) /\ Goto("fail")
        /\ \E state \in Remnants : copies' = [copies EXCEPT ![job.run] = Copy(state)]
     \/ Refuse(mem) /\ Goto("fail") /\ UNCHANGED copies
  /\ UNCHANGED <<phase, now, eraser, drawn, edits, begun, left>>

Ended(status, manifest) ==
  Advanced(WithRun(mem, job.run, [mem.runs[job.run] EXCEPT !.status = status, !.manifest = manifest]),
           job.key.schedule)

Complete ==
  LET entry == Ended("succeeded", TRUE)
  IN /\ job.step = "complete"
     /\ \/ Commit(entry) /\ (IF job.schedule = Nothing THEN Done({}) ELSE Goto("prune"))
        \/ Refuse(entry) /\ job' = [job EXCEPT !.step = "fail", !.manifest = TRUE]
     /\ UNCHANGED <<phase, now, copies, eraser, drawn, edits, begun, left>>

\* setFailure: a write that is refused is ignored, and the run stays
\* "running".
Fail ==
  LET entry == Ended("failed", job.manifest)
  IN /\ job.step = "fail"
     /\ \/ Commit(entry) /\ UNCHANGED left
        \/ Refuse(entry) /\ left' = left \cup {job.run}
     /\ Failed(job.key, job.todo)
     /\ UNCHANGED <<phase, now, copies, eraser, drawn, edits, begun>>

\* Mutant: an error does not advance the schedule.
RejectInPlace ==
  /\ job.step = "reject"
  /\ Done(job.todo)
  /\ UNCHANGED <<store, phase, now, copies, eraser, drawn, edits, begun, left>>

\* runDueBackups, after an error: the schedule is advanced once more.
Reject ==
  LET s == job.key.schedule
  IN /\ job.step = "reject"
     /\ IF mem.schedules[s].live /\ mem.schedules[s].enabled /\ mem.schedules[s].next # 0
          THEN Commit(Advanced(mem, s)) \/ Refuse(Advanced(mem, s))
          ELSE UNCHANGED store
     /\ Done(job.todo)
     /\ UNCHANGED <<phase, now, copies, eraser, drawn, edits, begun, left>>

-----------------------------------------------------------------------------
(* Retention: pruneBackupRuns                                              *)

Candidates(s) == {r \in Runs : mem.runs[r].schedule = s /\ mem.runs[r].status = "succeeded"}
Kept(s) ==
  LET c == Candidates(s)
      retain == mem.schedules[s].retain
  IN {r \in c : Cardinality({q \in c : q > r}) < retain.count
                \/ (retain.days > 0 /\ mem.runs[r].created + retain.days > now)}

Prune ==
  LET s == job.schedule
      schedule == mem.schedules[s]
  IN /\ job.step = "prune"
     /\ IF ~schedule.live \/ schedule.retain = NoRetention
          THEN Done(job.todo)
          ELSE job' = [job EXCEPT !.step = "pruning", !.backend = schedule.backend,
                                  !.doomed = {r \in Candidates(s) \ Kept(s) : mem.runs[r].manifest}]
     /\ UNCHANGED <<store, phase, now, copies, eraser, drawn, edits, begun, left>>

\* repository.Delete of a backend: another one's bundle is not there, and
\* that is no error.
Erase(r, backend) ==
  IF copies[r].state = "published" /\ copies[r].backend = backend
    THEN copies' = [copies EXCEPT ![r] = NoCopy] /\ begun' = begun \cup {r}
    ELSE UNCHANGED <<copies, begun>>
EraseFails(r, backend) == UNCHANGED <<copies, begun>> \/ Erase(r, backend)

PruneDelete ==
  /\ job.step = "pruning"
  /\ \E r \in job.doomed :
       \/ /\ Erase(r, job.backend)
          /\ job' = [job EXCEPT !.doomed = @ \ {r}, !.pruned = @ \cup {r}]
       \/ /\ EraseFails(r, job.backend)
          /\ job' = [job EXCEPT !.doomed = @ \ {r}]
  /\ UNCHANGED <<store, phase, now, eraser, drawn, edits, left>>

PruneForget ==
  /\ job.step = "pruning" /\ job.doomed = {}
  /\ IF job.pruned = {} THEN UNCHANGED store
     ELSE Commit(Forgotten(mem, job.pruned)) \/ Refuse(Forgotten(mem, job.pruned))
  /\ Done(job.todo)
  /\ UNCHANGED <<phase, now, copies, eraser, drawn, edits, begun, left>>

-----------------------------------------------------------------------------
(* Requests that do not take the lock                                      *)

NoEraser == [step |-> "idle", run |-> 0, backend |-> Local]

\* deleteBackupRun, on a snapshot.
EraseBegin(r) ==
  /\ phase = "serving" /\ eraser.step = "idle"
  /\ mem.runs[r].status \notin {"none", "running"}
  /\ eraser' = [step |-> IF mem.runs[r].manifest THEN "remove" ELSE "forget",
                run |-> r, backend |-> mem.runs[r].backend]
  /\ UNCHANGED <<store, phase, now, copies, job, drawn, edits, begun, left>>

EraseRemove ==
  /\ eraser.step = "remove"
  /\ \/ Erase(eraser.run, eraser.backend) /\ eraser' = [eraser EXCEPT !.step = "forget"]
     \/ EraseFails(eraser.run, eraser.backend) /\ eraser' = NoEraser
  /\ UNCHANGED <<store, phase, now, job, drawn, edits, left>>

EraseForget ==
  /\ eraser.step = "forget" /\ eraser' = NoEraser
  /\ IF mem.runs[eraser.run].status = "none" THEN UNCHANGED store
     ELSE Commit(Forgotten(mem, {eraser.run})) \/ Refuse(Forgotten(mem, {eraser.run}))
  /\ UNCHANGED <<phase, now, copies, job, drawn, edits, begun, left>>

Edit(entry) ==
  /\ phase = "serving" /\ edits < MaxEdits /\ edits' = edits + 1
  /\ Commit(entry) \/ Refuse(entry)
  /\ UNCHANGED <<phase, now, copies, job, eraser, drawn, begun, left>>

\* saveBackupSchedule of a schedule that is known.
SaveSchedule(s, enabled, backend, retain) ==
  /\ mem.schedules[s].live
  /\ Edit([mem EXCEPT !.schedules[s] =
             [live |-> TRUE, enabled |-> enabled, backend |-> backend,
              next |-> IF enabled THEN now + 1 ELSE 0, retain |-> retain]])

DeleteSchedule(s) ==
  /\ mem.schedules[s].live
  /\ Edit([mem EXCEPT !.schedules[s] = NoSchedule])

Tick ==
  /\ now < MaxTime /\ now' = now + 1
  /\ UNCHANGED <<store, phase, copies, job, eraser, drawn, edits, begun, left>>

-----------------------------------------------------------------------------
(* Crash and startup                                                       *)

Crash ==
  /\ phase # "down" /\ phase' = "down"
  /\ faults < MaxFaults /\ faults' = faults + 1
  /\ \E file \in IF poisoned THEN {mem, disk} ELSE {disk} : mem' = file /\ disk' = file
  /\ IF job.step = "publish"
       THEN \E state \in Remnants : copies' = [copies EXCEPT ![job.run] = Copy(state)]
       ELSE UNCHANGED copies
  /\ poisoned' = FALSE /\ job' = Idle /\ eraser' = NoEraser
  /\ UNCHANGED <<now, drawn, edits, begun, left>>

\* recoverBackupSchedules, in NewStore: what is overdue is skipped.
Launch ==
  /\ phase = "down" /\ phase' = "recovering"
  /\ Commit([mem EXCEPT !.schedules = [s \in Schedules |->
               IF Due(s) THEN [mem.schedules[s] EXCEPT !.next = now + 1] ELSE mem.schedules[s]]])
  /\ UNCHANGED <<now, copies, job, eraser, drawn, edits, begun, left>>

\* Mutant: only the runs that name a manifest are looked up.
ReconciledByManifest(found) ==
  [mem EXCEPT !.runs = [r \in Runs |->
     LET run == mem.runs[r]
     IN IF r \in found /\ run.manifest
          THEN [run EXCEPT !.status = "succeeded"]
          ELSE IF run.status = "running" THEN [run EXCEPT !.status = "interrupted"] ELSE run]]

\* Mutant: only local runs are interrupted.
ReconciledLocally(found) ==
  [mem EXCEPT !.runs = [r \in Runs |->
     LET run == mem.runs[r]
     IN IF r \in found THEN [run EXCEPT !.status = "succeeded", !.manifest = TRUE]
        ELSE IF run.status = "running" /\ run.backend = Local
          THEN [run EXCEPT !.status = "interrupted"] ELSE run]]

\* A run of the id is there, or one that names the manifest: it has succeeded.
\* One that is not published and did not end is interrupted, whatever its
\* backend.
Reconciled(found) ==
  [mem EXCEPT !.runs = [r \in Runs |->
     LET run == mem.runs[r]
         copy == copies[r]
     IN IF r \in found
          THEN IF run.status = "none"
                 THEN [status |-> "succeeded", key |-> copy.key, schedule |-> Nothing,
                       backend |-> Local, manifest |-> TRUE, created |-> copy.created]
                 ELSE [run EXCEPT !.status = "succeeded", !.manifest = TRUE]
          ELSE IF run.status = "running" THEN [run EXCEPT !.status = "interrupted"] ELSE run]]

LocalCopies(states) == {r \in Runs : copies[r].backend = Local /\ copies[r].state \in states}

\* Local.Recover publishes the stages or removes them for the quota;
\* recoverBackupRepository writes what it found.
Resolve ==
  /\ phase = "recovering"
  /\ \E r \in LocalCopies({"staged"}) :
       \E state \in {"none", "published"} : copies' = [copies EXCEPT ![r].state = state]
  /\ UNCHANGED <<store, phase, now, job, eraser, drawn, edits, begun, left>>

Reconcile ==
  /\ phase = "recovering" /\ LocalCopies({"staged"}) = {}
  /\ Commit(Reconciled(LocalCopies({"published"})))
  /\ phase' = "serving" /\ left' = {}
  /\ UNCHANGED <<now, copies, job, eraser, drawn, edits, begun>>

\* An error of it is logged, and C2 serves requests.
ReconcileFails ==
  /\ phase = "recovering" /\ phase' = "serving"
  /\ \/ UNCHANGED store
     \/ LocalCopies({"staged"}) = {} /\ Refuse(Reconciled(LocalCopies({"published"})))
  /\ left' = {r \in Runs : mem.runs[r].status = "running"}
  /\ UNCHANGED <<now, copies, job, eraser, drawn, edits, begun>>

-----------------------------------------------------------------------------
\* Every schedule was saved just before.
Init ==
  /\ \E retain \in Retentions :
       mem = [runs |-> [r \in Runs |-> NoRun],
              schedules |-> [s \in Schedules |->
                [live |-> TRUE, enabled |-> TRUE, backend |-> Local, next |-> 2, retain |-> retain]]]
  /\ disk = mem /\ poisoned = FALSE /\ faults = 0
  /\ phase = "serving" /\ now = 1
  /\ copies = [r \in Runs |-> NoCopy]
  /\ job = Idle /\ eraser = NoEraser
  /\ drawn = 0 /\ edits = 0 /\ begun = {} /\ left = {}

Job ==
  \/ ScanNext \/ Publish \/ Complete \/ Fail \/ Reject
  \/ Prune \/ PruneDelete \/ PruneForget

Startup == Launch \/ Resolve \/ Reconcile \/ ReconcileFails

Request ==
  \/ RunNow
  \/ \E r \in Runs : EraseBegin(r)
  \/ \E s \in Schedules, enabled \in BOOLEAN, backend \in Backends, retain \in Retentions :
       SaveSchedule(s, enabled, backend, retain)
  \/ \E s \in Schedules : DeleteSchedule(s)

Next == Job \/ ScanBegin \/ Request \/ EraseRemove \/ EraseForget \/ Tick \/ Crash \/ Startup

Spec == Init /\ [][Next]_vars

\* The scheduler's goroutine, whoever holds the lock, and startup go on.
FairSpec == Spec /\ WF_vars(Job) /\ WF_vars(ScanBegin) /\ WF_vars(Startup)

-----------------------------------------------------------------------------
\* Types, and that what is in memory and in the file differ only when the
\* store says so.
TypeOK ==
  /\ {mem, disk} \subseteq [runs : [Runs -> RunRecords], schedules : [Schedules -> ScheduleRecords]]
  /\ poisoned \in BOOLEAN /\ ~poisoned => mem = disk
  /\ phase \in {"down", "recovering", "serving"} /\ now \in 1..MaxTime
  /\ copies \in [Runs -> Copies]
  /\ job.key \in Keys /\ job.run \in 0..MaxRuns /\ job.todo \subseteq Requests
  /\ eraser \in [step : {"idle", "remove", "forget"}, run : 0..MaxRuns, backend : Backends]
  /\ drawn \in 0..MaxRuns /\ edits \in 0..MaxEdits /\ faults \in 0..MaxFaults
  /\ begun \subseteq Runs /\ left \subseteq Runs

\* A run that is shown as succeeded can be restored: its bundle is in the
\* repository the run names until its deletion has reached it, through failed
\* publications, refused writes, retention, deletion and restarts.
SucceededIsKept ==
  \A r \in Runs :
    mem.runs[r].status = "succeeded" =>
      r \in begun \/ (copies[r].state = "published" /\ copies[r].backend = mem.runs[r].backend)

\* An occurrence of a schedule is run at most once: through scans that find it
\* due again, refused writes, edits meanwhile and restarts, no two runs bear
\* the same key.
OccurrenceOnce ==
  \A q, r \in Runs :
    q # r /\ mem.runs[q].status # "none" /\ mem.runs[q].key # Manual
      => mem.runs[q].key # mem.runs[r].key

\* A run that is shown as running is the one that holds the lock, except when
\* its last write, or the recovery after a restart, failed.
RunningIsHeld ==
  phase = "serving" =>
    \A r \in Runs :
      mem.runs[r].status = "running" =>
        r \in left \/ (job.run = r /\ job.step \in {"publish", "complete", "fail"})

\* docs/backups.md, "Restart recovery": runs "without a publication" are the
\* ones marked as interrupted.  Such a run has left nothing in the local volume,
\* published or staged, that would be counted, listed or restored later:
\* whatever a crash left of it, and whatever refused writes, crashes and
\* recoveries follow, in memory and in the file.
InterruptedHasNothing ==
  \A st \in {mem, disk}, r \in Runs :
    st.runs[r].status = "interrupted" /\ st.runs[r].backend = Local => copies[r].state = "none"

\* Retention removes a run from the list only with its bundle.
PrunedFromItsBackend ==
  [][\A r \in job.pruned :
       mem.runs[r].status # "none" /\ mem'.runs[r].status = "none"
         => copies[r].state # "published"]_vars

\* A schedule that is due is run and advanced, or edited; it stays due only
\* when its run is left running, or the store refuses writes.
DueAdvances ==
  \A s \in Schedules :
    Due(s) ~> \/ ~Due(s) \/ poisoned
              \/ \E r \in left : mem.runs[r].key = [schedule |-> s, due |-> mem.schedules[s].next]
=============================================================================
