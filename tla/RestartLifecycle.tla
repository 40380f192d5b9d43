-------------------------- MODULE RestartLifecycle --------------------------
(***************************************************************************)
(* One game server of the console: operator stop and start, the restart    *)
(* operation shared by the operator, the reboot scheduler and the memory   *)
(* pressure policy, and the telemetry collector that decides when a        *)
(* restart is completed or failed (lifecycle.go, alerts.go, the claim and  *)
(* dispatch half of reboots.go, the collector of telemetry.go), over the   *)
(* JSON store of main.go and a Kubernetes Deployment.                      *)
(*                                                                         *)
(* Every handler that changes a server holds the process-wide lifecycleMu  *)
(* (always taken with TryLock) from its first check to its last call, but  *)
(* the store write and the kubectl call inside it are separate steps: C2   *)
(* may crash, the write may fail and the call may time out between them.   *)
(***************************************************************************)
EXTENDS Naturals

CONSTANTS
  MaxOps,          \* bound: restart operations claimed in one behaviour
  MaxRuntimes,     \* bound: container runtimes the cluster starts
  RestartTimeout,  \* restartTimeout of alerts.go, in ticks
  MaxFaults,       \* bound: crashes, failed writes, failed calls and reads
  PressureEnabled, \* MemoryPressurePolicy.Enabled
  OutsideScaling   \* whether somebody else scales the Deployment

ASSUME BoundsAssumption ==
  /\ MaxOps \in Nat /\ MaxRuntimes \in Nat /\ MaxFaults \in Nat
  /\ RestartTimeout \in Nat
  /\ PressureEnabled \in BOOLEAN /\ OutsideScaling \in BOOLEAN

VARIABLES
  mem,       \* Store.state: the server's entry in memory
  disk,      \* the state file
  poisoned,  \* Store.writeErr # nil
  lock,      \* lifecycleMu: who holds it and what it does next
  obs,       \* the observation the collector is working on
  age,       \* ticks since the latest claim, up to RestartTimeout
  ops,       \* restart operation ids drawn so far (randomID)
  replicas, template, pod, runtimes, inflight,   \* the Deployment
  faults,    \* faults so far
  sent,      \* observer: orchestrator.Restart calls per operation
  served     \* observer: markers a ready runtime has carried

store   == <<mem, disk, poisoned>>
cluster == <<replicas, template, pod, runtimes, inflight>>
vars    == <<store, lock, obs, age, ops, cluster, faults, sent, served>>

-----------------------------------------------------------------------------
(* Data.  Operation and runtime ids are numbers in the order in which they *)
(* are drawn; 0 stands for "" or nil.                                      *)

OpIds    == 1..MaxOps
Runtimes == 1..MaxRuntimes
Statuses == {"starting", "online", "attention", "stopped"}
Sources  == {"", "operator", "observed"}
Outcomes == {"none", "requested", "completed", "failed"}

\* RestartOperation.  fence: a runtime above it started no earlier than the
\* second in which the operation was requested.
Operations == [id: 0..MaxOps, runtime: 0..MaxRuntimes,
               fence: 0..MaxRuntimes, uncertain: BOOLEAN]
NoRestart  == [id |-> 0, runtime |-> 0, fence |-> 0, uncertain |-> FALSE]

\* Server.Status and StopSource, AlertProducer.Runtime and Restart, and the
\* restart events in the history (outcome).
Entries == [status: Statuses, source: Sources, runtime: 0..MaxRuntimes,
            restart: Operations, outcome: [OpIds -> Outcomes]]

Pods  == [runtime: Runtimes, op: 0..MaxOps, ready: BOOLEAN]
NoPod == [runtime |-> 0, op |-> 0, ready |-> FALSE]

Calls == [kind: {"scale"}, arg: {0, 1}] \cup [kind: {"restart"}, arg: OpIds]

\* observation: what was read, whether markTelemetryPending wrote to the
\* history meanwhile, and from its timestamp on the operations requested
\* before it and whether the pending one was overdue.
Readings == [status: Statuses \cup {"unknown"},
             health: {"", "healthy", "unhealthy"},
             runtime: 0..MaxRuntimes, op: 0..MaxOps]
Observations == [phase: {"read", "stamped"}, read: Readings, stale: BOOLEAN,
                 after: 0..MaxOps, overdue: BOOLEAN]
Unread == [status |-> "unknown", health |-> "", runtime |-> 0, op |-> 0]
NoObs  == [phase |-> "none", read |-> Unread, stale |-> FALSE,
           after |-> 0, overdue |-> FALSE]

\* lifecycleMu.  step names the next step of the handler holding it.
Locks == [step: {"free", "stop", "start", "started", "dispatch"},
          by: {"request", "collector"}, op: 0..MaxOps]
Free  == [step |-> "free", by |-> "request", op |-> 0]
Held(step, by, op) == [step |-> step, by |-> by, op |-> op]

Stopped(s)         == s.status = "stopped"
OperatorStopped(s) == Stopped(s) /\ s.source # "observed"
Pending(s)         == s.restart.id # 0

-----------------------------------------------------------------------------
(* Store.Update.  A write that fails before the rename changes nothing; a  *)
(* directory sync that fails after it leaves the new file behind the old   *)
(* memory and poisons the store, and every later Update is refused.        *)

Fault == faults < MaxFaults /\ faults' = faults + 1

Commit(next) ==
  /\ ~poisoned
  /\ mem' = next /\ disk' = next
  /\ UNCHANGED <<poisoned, faults>>

Refuse(next) ==
  \/ poisoned /\ UNCHANGED <<store, faults>>
  \/ /\ ~poisoned
     /\ Fault
     /\ \/ UNCHANGED <<disk, poisoned>>
        \/ disk' = next /\ poisoned' = TRUE
     /\ UNCHANGED mem

\* Another component's Update (deliveries, schedules, backups) poisons it.
PoisonElsewhere ==
  /\ ~poisoned
  /\ Fault
  /\ poisoned' = TRUE
  /\ UNCHANGED <<mem, disk, lock, obs, age, ops, cluster, sent, served>>

-----------------------------------------------------------------------------
(* The orchestrator.  A kubectl call that returns an error may have had    *)
(* its effect, may have none, or may still have it later.                  *)

Effect(call) ==
  IF call.kind = "scale"
    THEN replicas' = call.arg /\ UNCHANGED template
    ELSE template' = call.arg /\ UNCHANGED replicas

CallSucceeds(call) ==
  Effect(call) /\ UNCHANGED <<inflight, faults>>

CallFails(call) ==
  /\ Fault
  /\ \/ Effect(call) /\ UNCHANGED inflight
     \/ UNCHANGED <<replicas, template, inflight>>
     \/ inflight' = inflight \cup {call} /\ UNCHANGED <<replicas, template>>

LateEffect ==
  \E call \in inflight :
    /\ Effect(call)
    /\ inflight' = inflight \ {call}
    /\ UNCHANGED <<store, lock, obs, age, ops, pod, runtimes, faults, sent, served>>

-----------------------------------------------------------------------------
(* handleStop: park in the store first, then scale to zero.                *)

ParkedEntry(s) == [s EXCEPT !.status = "stopped", !.source = "operator"]

StopClaim ==
  /\ lock = Free /\ ~poisoned
  /\ ~Pending(mem)
  /\ \/ Commit(ParkedEntry(mem)) /\ lock' = Held("stop", "request", 0)
     \/ Refuse(ParkedEntry(mem)) /\ UNCHANGED lock
  /\ UNCHANGED <<obs, age, ops, cluster, sent, served>>

StopScale ==
  LET call == [kind |-> "scale", arg |-> 0]
  IN /\ lock.step = "stop"
     /\ CallSucceeds(call) \/ CallFails(call)
     /\ lock' = Free
     /\ UNCHANGED <<store, obs, age, ops, pod, runtimes, sent, served>>

(* handleStart: scale to one first, then unpark in the store, then mark    *)
(* the telemetry pending so that a collection already under way is dropped.*)

StartBegin ==
  /\ lock = Free /\ ~poisoned
  /\ ~Pending(mem)
  /\ lock' = Held("start", "request", 0)
  /\ UNCHANGED <<store, obs, age, ops, cluster, faults, sent, served>>

StartScale ==
  LET call == [kind |-> "scale", arg |-> 1]
  IN /\ lock.step = "start"
     /\ \/ CallSucceeds(call) /\ lock' = Held("started", "request", 0)
        \/ CallFails(call) /\ lock' = Free
     /\ UNCHANGED <<store, obs, age, ops, pod, runtimes, sent, served>>

StartedEntry(s) ==
  IF Stopped(s) THEN [s EXCEPT !.status = "starting", !.source = ""] ELSE s

MarkTelemetryPending ==
  obs' = IF obs = NoObs THEN obs ELSE [obs EXCEPT !.stale = TRUE]

StartPersist ==
  /\ lock.step = "started"
  /\ \/ /\ Commit(StartedEntry(mem))
        /\ IF Stopped(mem) THEN MarkTelemetryPending ELSE UNCHANGED obs
     \/ Refuse(StartedEntry(mem)) /\ UNCHANGED obs
  /\ lock' = Free
  /\ UNCHANGED <<age, ops, cluster, sent, served>>

-----------------------------------------------------------------------------
(* A restart is claimed in the store, then dispatched, then reconciled.    *)

\* The last runtime may have started in the second of the request.
Fences == {runtimes} \cup {r \in 0..MaxRuntimes : r + 1 = runtimes}

\* reserveRestart: refused while an operation is pending.
Reserved(s, op, fence) ==
  [status |-> "starting", source |-> "", runtime |-> s.runtime,
   restart |-> [id |-> op, runtime |-> s.runtime, fence |-> fence, uncertain |-> FALSE],
   outcome |-> [s.outcome EXCEPT ![op] = "requested"]]

\* Mutants of the claim: its guards as they stand in RestartClaim, the
\* command sent even when the write failed, and a guard dropped.
ClaimGuards == lock = Free /\ ~poisoned /\ ops < MaxOps

ClaimWhen(guard, afterFailure) ==
  /\ ClaimGuards /\ guard
  /\ ops' = ops + 1
  /\ age' = 0
  /\ \E fence \in Fences :
       \/ /\ Commit(Reserved(mem, ops + 1, fence))
          /\ lock' = Held("dispatch", "request", ops + 1)
       \/ Refuse(Reserved(mem, ops + 1, fence)) /\ lock' = afterFailure
  /\ UNCHANGED <<obs, cluster, sent, served>>

RestartClaimUnchecked ==
  ClaimWhen(~Stopped(mem) /\ ~Pending(mem), Held("dispatch", "request", ops + 1))
RestartClaimOverPending == ClaimWhen(~Stopped(mem), lock)

\* handleRestart rejects a stopped server, skipsAutomatedRestarts skips it.
RestartClaim ==
  /\ lock = Free /\ ~poisoned
  /\ ~Stopped(mem)
  /\ ~Pending(mem)
  /\ ops < MaxOps
  /\ ops' = ops + 1
  /\ age' = 0
  /\ \E fence \in Fences :
       \/ /\ Commit(Reserved(mem, ops + 1, fence))
          /\ lock' = Held("dispatch", "request", ops + 1)
       \/ Refuse(Reserved(mem, ops + 1, fence)) /\ UNCHANGED lock
  /\ UNCHANGED <<obs, cluster, sent, served>>

\* finishRebootOccurrences only relabels the audit trail here.
UncertainEntry(s, op) ==
  IF s.restart.id = op THEN [s EXCEPT !.restart.uncertain = TRUE] ELSE s

\* dispatchRestartOperation: a failed command is recorded, never repeated.
Dispatch ==
  LET call == [kind |-> "restart", arg |-> lock.op]
      next == UncertainEntry(mem, lock.op)
  IN /\ lock.step = "dispatch"
     /\ sent' = [sent EXCEPT ![lock.op] = @ + 1]
     /\ \/ CallSucceeds(call) /\ UNCHANGED store
        \/ /\ CallFails(call)
           /\ \/ ~poisoned /\ mem' = next /\ disk' = next /\ UNCHANGED poisoned
              \/ UNCHANGED mem /\ UNCHANGED <<disk, poisoned>>
              \/ ~poisoned /\ disk' = next /\ poisoned' = TRUE /\ UNCHANGED mem
     /\ lock' = Free
     /\ UNCHANGED <<obs, age, ops, pod, runtimes, served>>

-----------------------------------------------------------------------------
(* The collector: read the cluster without the lock, stamp the result, and *)
(* apply it under the lock, or drop it when the lock is taken.             *)

Reading ==
  IF replicas = 0 THEN
    [status |-> "stopped", health |-> "unhealthy", runtime |-> 0, op |-> 0]
  ELSE IF pod = NoPod THEN
    [status |-> "starting", health |-> "unhealthy", runtime |-> 0, op |-> 0]
  ELSE IF pod.ready THEN
    [status |-> "online", health |-> "healthy", runtime |-> pod.runtime, op |-> pod.op]
  ELSE
    [status |-> "starting", health |-> "unhealthy", runtime |-> pod.runtime, op |-> pod.op]

\* The game API of a ready Pod does not answer: no health, only attention.
Blind == [Reading EXCEPT !.status = "attention", !.health = ""]

CollectRead ==
  /\ obs = NoObs
  /\ ~(lock.step = "dispatch" /\ lock.by = "collector")
  /\ \E r \in {Reading, Unread, Blind} :
       /\ obs' = [NoObs EXCEPT !.phase = "read", !.read = r]
       /\ r = Blind => Reading.health = "healthy"
       /\ IF r = Reading THEN UNCHANGED faults ELSE Fault
  /\ UNCHANGED <<store, lock, age, ops, cluster, sent, served>>

CollectStamp ==
  /\ obs.phase = "read"
  /\ obs' = [obs EXCEPT !.phase = "stamped", !.after = ops,
                        !.overdue = (age = RestartTimeout)]
  /\ UNCHANGED <<store, lock, age, ops, cluster, faults, sent, served>>

CollectDrop ==
  /\ obs.phase = "stamped"
  /\ lock # Free \/ obs.stale
  /\ obs' = NoObs
  /\ UNCHANGED <<store, lock, age, ops, cluster, faults, sent, served>>

\* Mutant: whatever was read is stored, unknown as well.
ObservedStatusUnknown(s, r) ==
  IF OperatorStopped(s) THEN s
  ELSE [s EXCEPT !.status = r.status,
                 !.source = IF r.status = "stopped" THEN "observed" ELSE ""]

\* persistObservedStatus
ObservedStatus(s, r) ==
  IF r.status = "stopped" /\ ~OperatorStopped(s)
    THEN [s EXCEPT !.status = "stopped", !.source = "observed"]
  ELSE IF r.status \notin {"stopped", "unknown"} /\ Stopped(s) /\ ~OperatorStopped(s)
    THEN [s EXCEPT !.status = r.status, !.source = ""]
  ELSE s

\* Mutant: any other healthy runtime confirms.
ConfirmsUnmarked(s, r) ==
  /\ r.health = "healthy"
  /\ r.runtime # 0 /\ r.runtime # s.restart.runtime
  /\ r.runtime > s.restart.fence

\* A marked runtime other than the one replaced, started after the request.
Confirms(s, r) ==
  /\ r.health = "healthy"
  /\ r.runtime # 0 /\ r.runtime # s.restart.runtime
  /\ r.op = s.restart.id
  /\ r.runtime > s.restart.fence

CompletedEntry(s, r) ==
  [status |-> "online", source |-> "", runtime |-> r.runtime, restart |-> NoRestart,
   outcome |-> [s.outcome EXCEPT ![s.restart.id] = "completed"]]

\* Mutant: the failed operation stays pending.
FailedEntryKept(s) ==
  [status |-> "attention", source |-> s.source, runtime |-> s.runtime,
   restart |-> s.restart,
   outcome |-> [s.outcome EXCEPT ![s.restart.id] = "failed"]]

FailedEntry(s) ==
  [status |-> "attention", source |-> s.source, runtime |-> s.runtime,
   restart |-> NoRestart,
   outcome |-> [s.outcome EXCEPT ![s.restart.id] = "failed"]]

\* Mutant: no deadline.
ReconcileForever(s, o) ==
  IF o.after >= s.restart.id /\ Confirms(s, o.read)
    THEN CompletedEntry(s, o.read) ELSE s

\* The restart branch of observeAlerts.
Reconcile(s, o) ==
  IF o.after < s.restart.id THEN s
  ELSE IF Confirms(s, o.read) THEN CompletedEntry(s, o.read)
  ELSE IF o.overdue /\ o.read.health # "" THEN FailedEntry(s)
  ELSE s

\* observeAlerts
Observed(s, o) ==
  LET seen == ObservedStatus(s, o.read)
  IN IF OperatorStopped(s) THEN s
     ELSE IF Stopped(seen) THEN seen
     ELSE IF Pending(seen) THEN Reconcile(seen, o)
     ELSE [seen EXCEPT !.runtime = o.read.runtime]

CollectApply ==
  /\ obs.phase = "stamped" /\ ~obs.stale
  /\ lock = Free
  /\ Commit(Observed(mem, obs)) \/ Refuse(Observed(mem, obs))
  /\ obs' = NoObs
  /\ UNCHANGED <<lock, age, ops, cluster, sent, served>>

\* MemoryPressurePolicy.observe reserves a restart in the same Update.
PressureClaim ==
  /\ PressureEnabled
  /\ obs.phase = "stamped" /\ ~obs.stale
  /\ lock = Free
  /\ ~Stopped(mem) /\ obs.read.status # "stopped" /\ obs.read.runtime # 0
  /\ ~Pending(mem)
  /\ ops < MaxOps
  /\ ops' = ops + 1
  /\ age' = 0
  /\ \E fence \in Fences :
       LET next == Reserved(Observed(mem, obs), ops + 1, fence)
       IN \/ Commit(next) /\ lock' = Held("dispatch", "collector", ops + 1)
          \/ Refuse(next) /\ UNCHANGED lock
  /\ obs' = NoObs
  /\ UNCHANGED <<cluster, sent, served>>

-----------------------------------------------------------------------------
(* The Deployment's controllers, the clock, other operators, the process.  *)

PodStart ==
  /\ replicas = 1 /\ pod = NoPod
  /\ runtimes < MaxRuntimes
  /\ runtimes' = runtimes + 1
  /\ pod' = [runtime |-> runtimes + 1, op |-> template, ready |-> FALSE]
  /\ UNCHANGED <<store, lock, obs, age, ops, replicas, template, inflight, faults, sent, served>>

\* Scaled down, or its template changed and the rollout replaces it.
PodStop ==
  /\ pod # NoPod
  /\ replicas = 0 \/ pod.op # template
  /\ pod' = NoPod
  /\ UNCHANGED <<store, lock, obs, age, ops, replicas, template, runtimes, inflight, faults, sent, served>>

\* The container exits and starts again inside the same Pod.
ContainerRestart ==
  /\ pod # NoPod
  /\ runtimes < MaxRuntimes
  /\ runtimes' = runtimes + 1
  /\ pod' = [pod EXCEPT !.runtime = runtimes + 1, !.ready = FALSE]
  /\ UNCHANGED <<store, lock, obs, age, ops, replicas, template, inflight, faults, sent, served>>

PodReady ==
  /\ pod # NoPod /\ ~pod.ready
  /\ pod' = [pod EXCEPT !.ready = TRUE]
  /\ served' = served \cup {pod.op}
  /\ UNCHANGED <<store, lock, obs, age, ops, replicas, template, runtimes, inflight, faults, sent>>

ScaleOutside ==
  /\ OutsideScaling
  /\ Fault
  /\ replicas' = 1 - replicas
  /\ UNCHANGED <<store, lock, obs, age, ops, template, pod, runtimes, inflight, sent, served>>

Tick ==
  /\ Pending(mem) \/ Pending(disk)
  /\ age < RestartTimeout
  /\ age' = age + 1
  /\ UNCHANGED <<store, lock, obs, ops, cluster, faults, sent, served>>

\* recoverAlerts forgets the runtime seen last, never the pending restart.
RecoveredEntry(s) == [s EXCEPT !.runtime = 0]

\* C2 dies and starts again: NewStore reads the file back and saves what it
\* recovered.  When the last directory sync failed, the file may be the old
\* one or the new one.
Restarted ==
  /\ \E file \in IF poisoned THEN {mem, disk} ELSE {disk} :
       mem' = RecoveredEntry(file) /\ disk' = RecoveredEntry(file)
  /\ poisoned' = FALSE
  /\ lock' = Free
  /\ obs' = NoObs
  /\ UNCHANGED <<age, ops, cluster, sent, served>>

Crash    == Fault /\ Restarted
Relaunch == poisoned /\ lock = Free /\ Restarted /\ UNCHANGED faults

-----------------------------------------------------------------------------
FirstEntry == [status |-> "starting", source |-> "", runtime |-> 0,
               restart |-> NoRestart, outcome |-> [op \in OpIds |-> "none"]]

Init ==
  /\ mem = FirstEntry /\ disk = FirstEntry /\ poisoned = FALSE
  /\ lock = Free /\ obs = NoObs /\ age = 0 /\ ops = 0
  /\ replicas = 1 /\ template = 0 /\ pod = NoPod /\ runtimes = 0 /\ inflight = {}
  /\ faults = 0
  /\ sent = [op \in OpIds |-> 0] /\ served = {}

Handlers  == StopClaim \/ StopScale \/ StartBegin \/ StartScale \/ StartPersist
               \/ RestartClaim \/ Dispatch
Collector == CollectRead \/ CollectStamp \/ CollectDrop \/ CollectApply
               \/ PressureClaim
Outside   == LateEffect \/ PodStart \/ PodStop \/ ContainerRestart \/ PodReady
               \/ ScaleOutside \/ Tick
Process   == PoisonElsewhere \/ Crash \/ Relaunch

Next == Handlers \/ Collector \/ Outside \/ Process

Spec == Init /\ [][Next]_vars

(* A handler that holds the lock finishes (its calls have deadlines), the  *)
(* collector runs every 15 s, time passes, and a poisoned C2 is restarted. *)
Fairness ==
  /\ WF_vars(StopScale \/ StartScale \/ StartPersist \/ Dispatch)
  /\ WF_vars(CollectRead) /\ WF_vars(CollectStamp)
  /\ WF_vars(CollectDrop \/ CollectApply)
  /\ WF_vars(Tick)
  /\ WF_vars(Relaunch)

FairSpec == Spec /\ Fairness

-----------------------------------------------------------------------------
\* Every variable keeps its type: the state Store.Update and the handlers keep.
TypeOK ==
  /\ mem \in Entries /\ disk \in Entries /\ poisoned \in BOOLEAN
  /\ lock \in Locks
  /\ obs \in Observations \cup {NoObs}
  /\ age \in 0..RestartTimeout
  /\ ops \in 0..MaxOps
  /\ replicas \in {0, 1} /\ template \in 0..MaxOps
  /\ pod \in Pods \cup {NoPod} /\ runtimes \in 0..MaxRuntimes
  /\ inflight \subseteq Calls
  /\ faults \in 0..MaxFaults
  /\ sent \in [OpIds -> Nat] /\ served \subseteq 0..MaxOps

\* A restart operation is claimed at most once and its command is sent at
\* most once, whatever crashes, failed writes and unknown outcomes do, and
\* only for a claim that is in the state file (docs/reboots.md:29).
CommandOnceAfterDurableClaim ==
  \A op \in OpIds :
    /\ sent[op] <= 1
    /\ sent[op] > 0 => disk.outcome[op] # "none"

\* The operation about to be dispatched is the one pending in the store:
\* nothing resolves or replaces a claim between its write and its command.
DispatchedIsPending ==
  lock.step = "dispatch" =>
    mem.restart.id = lock.op /\ sent[lock.op] = 0

\* Every requested restart is the pending one, in memory and in the file:
\* no claim is ever forgotten without a completed or failed event.
NoLostOperation ==
  \A op \in OpIds :
    /\ mem.outcome[op] = "requested" <=> mem.restart.id = op
    /\ disk.outcome[op] = "requested" <=> disk.restart.id = op

\* restart_completed is recorded only when a runtime carrying that
\* operation's marker has been ready, even though the cluster is read long
\* before the observation is applied and commands may act late.
CompletedMeansServed ==
  \A op \in OpIds : mem.outcome[op] = "completed" => op \in served

\* A server the operator parked has no restart pending, so that the restart
\* cannot wake it (persistStop refuses, handleRestart and scheduler skip).
ParkedHasNoRestart ==
  \A s \in {mem, disk} : OperatorStopped(s) => ~Pending(s)

\* Only a start request takes a server out of the parked state; restarts,
\* observations and recovery never do.
ParkEndsByStart ==
  [][OperatorStopped(mem) /\ ~OperatorStopped(mem')
       => lock.step = "started" \/ poisoned]_vars

\* The handlers, the collector and the crashes between them keep what a
\* restart operation promises: one open at a time, its command at most once
\* while it is open, one end.  A crash may only reveal the one step whose
\* write reached the file but not the memory.
Promise == INSTANCE RestartPromise WITH Ops <- OpIds, outcome <- mem.outcome, sent <- sent

KeepsPromise == Promise!Spec

\* Until the directory sync fails, what the console shows is what the file
\* holds; after that nothing is written before C2 starts again.
ShownIsDurable == mem # disk => poisoned

\* With telemetry that keeps coming, a restart does not stay pending for ever
\* unless the Deployment is scaled to zero under it.
RestartResolves ==
  \A op \in OpIds :
    (mem.restart.id = op) ~> (mem.restart.id # op \/ mem.source = "observed")

=============================================================================
