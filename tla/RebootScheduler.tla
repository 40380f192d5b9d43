--------------------------- MODULE RebootScheduler ---------------------------
(***************************************************************************)
(* Scheduled reboots (reboots.go, reboot_time.go, restart_warnings.go):    *)
(* schedules and their edits, the scan that warns, groups the due          *)
(* schedules by server, claims one restart per server under lifecycleMu    *)
(* and dispatches it, the audit history and startup recovery.              *)
(*                                                                         *)
(* The scan works from a snapshot.  Edits take no lifecycle lock, so they  *)
(* may fall between the snapshot and the claim, while an earlier server of *)
(* the same scan waits for kubectl.  The restart operation itself is only  *)
(* pending or resolved here (RestartLifecycle has the rest), and a         *)
(* Store.Update that is refused changes nothing.                           *)
(***************************************************************************)
EXTENDS Naturals, FiniteSets

CONSTANTS
  NServers, NSchedules,  \* bounds: servers, schedules ever created
  Timings,               \* what a definition may ask for
  Leads,                 \* WarningMinutes in ticks; 0 is no warning
  LateWindow,            \* rebootLateWindow in ticks
  MaxHistory, MaxActive, \* maxRebootHistory, maxRebootActive
  MaxTime, MaxEdits,     \* bounds: the clock, the requests made
  MaxFaults,             \* bound: crashes, failed calls, skipped claims
  Lifecycle,             \* whether servers are stopped, started and deleted
  RetargetInScan         \* whether a target changes while a scan runs

ASSUME SchedulerAssumption ==
  /\ {NServers, NSchedules, LateWindow, MaxHistory, MaxActive, MaxEdits, MaxFaults} \subseteq Nat
  /\ MaxTime \in Nat \ {0}
  /\ Leads \subseteq Nat
  /\ \A t \in Timings :
       \/ t.mode = "interval" /\ t.every \in Nat \ {0}
       \/ t.mode = "civil" /\ t.at \subseteq Nat
  /\ Lifecycle \in BOOLEAN /\ RetargetInScan \in BOOLEAN

Servers == 1..NServers
Ids     == 1..NSchedules

VARIABLES
  now,        \* rebootNow
  schedules,  \* State.RebootSchedules
  drawn,      \* ids given to schedules so far, deleted ones included
  history,    \* State.RebootHistory; n orders the executions
  warnings,   \* restart warnings queued for delivery or sent
  servers,    \* State.Servers and the pending restart of State.Producers
  lock,       \* lifecycleMu: the restart being dispatched, if any
  scan,       \* scanReboots: its phase, its now, its groups
  ops,        \* restart operations reserved so far
  edits, faults,
  recorded,   \* observer: occurrences an execution was recorded for
  since       \* observer: when the timing was last set or C2 last started

state   == <<schedules, history, warnings, servers>>
observe == <<recorded, since>>
vars    == <<now, drawn, state, lock, scan, ops, edits, faults, observe>>

-----------------------------------------------------------------------------
Definitions == [server: Servers, timing: Timings, lead: Leads]

\* rebootSchedule; next, last, op and anchor are 0 for nil.
NoSchedule == [rev |-> 0, enabled |-> FALSE, anchor |-> 0, next |-> 0,
               last |-> 0, result |-> "", op |-> 0, warned |-> <<0, 0>>]
Exists(id) == schedules[id].rev > 0

Stopped(s)  == servers[s].status \in {"parked", "seen stopped"}
Gone(s)     == servers[s].status = "gone"
Deleting(s) == servers[s].deleting
Pending(s)  == servers[s].restart # 0

Active(e) == e.result \in {"awaiting", "uncertain"}

Least(S) == CHOOSE x \in S : \A y \in S : x <= y

\* nextReboot: the first occurrence strictly after a time, 0 for none within
\* the horizon.  Interval occurrences are anchor + N * every.
NextRun(timing, anchor, after) ==
  IF timing.mode = "civil" THEN
    LET later == {t \in timing.at : t > after}
    IN IF later = {} THEN 0 ELSE Least(later)
  ELSE IF anchor >= after THEN anchor + timing.every
  ELSE anchor + ((after - anchor) \div timing.every + 1) * timing.every

-----------------------------------------------------------------------------
(* The audit history.                                                      *)

\* trimRebootHistory: the oldest inactive executions beyond the limit go.
Trimmed(h) ==
  {e \in h : \/ Active(e)
             \/ Cardinality({f \in h : ~Active(f) /\ f.n <= e.n}) + MaxHistory
                  > Cardinality(h)}

Newest(h) == IF h = {} THEN 0 ELSE (CHOOSE e \in h : \A f \in h : f.n <= e.n).n

\* recordRebootExecution for each of some schedules, in the order of ids.
Recorded(h, ids, op, result) ==
  Trimmed(h \cup
    {[n |-> Newest(h) + id, schedule |-> id, server |-> schedules[id].def.server,
      at |-> schedules[id].next, op |-> op[id], result |-> result[id]] : id \in ids})

\* Mutant: a schedule without a future occurrence stays enabled.
AdvancedStillEnabled(s, op, result) ==
  [s EXCEPT !.last = s.next, !.op = op, !.next = NextRun(s.def.timing, s.anchor, now),
            !.result = result]

\* recordAndAdvanceReboot and advanceRebootSchedule; without a future
\* occurrence the schedule is disabled.
Advanced(s, op, result) ==
  LET next == NextRun(s.def.timing, s.anchor, now)
  IN [s EXCEPT !.last = s.next, !.op = op, !.next = next,
               !.enabled = (next # 0),
               !.result = IF next = 0 THEN "skipped" ELSE result]

\* Mutant: an outcome nobody knows is taken for the end.
ClosedIfAwaiting(e, op, result) ==
  IF e.op = op /\ e.result = "awaiting" THEN [e EXCEPT !.result = result] ELSE e

Closed(e, op, result) ==
  IF e.op = op /\ Active(e) THEN [e EXCEPT !.result = result] ELSE e

\* Mutant: an earlier occurrence's result overwrites a later one's.
InformedAlways(s, hits, op, result) ==
  IF s.rev > 0 /\ hits # {}
    THEN [s EXCEPT !.op = op, !.result = result]
    ELSE s

\* updateScheduleResult: unless a later occurrence was recorded meanwhile.
Informed(s, hits, op, result) ==
  IF s.rev > 0 /\ \E e \in hits : e.at >= s.last
    THEN [s EXCEPT !.last = (CHOOSE e \in hits : TRUE).at, !.op = op, !.result = result]
    ELSE s

\* finishRebootOccurrences
Finish(op, result) ==
  /\ history' = Trimmed({Closed(e, op, result) : e \in history})
  /\ schedules' = [id \in Ids |->
       Informed(schedules[id],
                {e \in history : e.schedule = id /\ e.op = op /\ Active(e)}, op, result)]

-----------------------------------------------------------------------------
(* Restart warnings.                                                       *)

WarningEligible(s, srv, time) ==
  /\ s.rev > 0 /\ s.enabled /\ s.next # 0 /\ time < s.next
  /\ s.def.lead > 0
  /\ srv[s.def.server].status = "up" /\ srv[s.def.server].restart = 0
  /\ ~srv[s.def.server].deleting

\* Mutant: the occurrence announced is not compared.
WarningValidStale(w, s, srv, time) == WarningEligible(s, srv, time)

\* warningDeliveryValid: still the occurrence announced.
WarningValid(w, s, srv, time) ==
  /\ WarningEligible(s, srv, time)
  /\ w.rev = s.rev /\ w.next = s.next

\* cancelObsoleteWarnings
Valid(W, sch, srv, time) == {w \in W : w.sent \/ WarningValid(w, sch[w.id], srv, time)}

\* processDeliveries: validated again when a queued warning is claimed.
SendWarning ==
  \E w \in warnings :
    /\ ~w.sent
    /\ warnings' = (warnings \ {w}) \cup
                     (IF WarningValid(w, schedules[w.id], servers, now)
                        THEN {[w EXCEPT !.sent = TRUE]} ELSE {})
    /\ UNCHANGED <<now, drawn, schedules, history, servers, lock, scan, ops, edits,
                   faults, observe>>

-----------------------------------------------------------------------------
(* The API: create, update, delete a schedule.                             *)

\* sameRebootTiming
SameTiming(a, b) == a.server = b.server /\ a.timing = b.timing

\* Mutant: the next run is reset only with the definition, not when the
\* schedule is enabled again.
SavedResumed(old, def, enabled) ==
  LET changed == old.rev = 0 \/ ~SameTiming(old.def, def)
      anchor  == IF def.timing.mode # "interval" THEN 0
                 ELSE IF changed THEN now ELSE old.anchor
  IN [def |-> def, rev |-> old.rev + 1, enabled |-> enabled, anchor |-> anchor,
      next |-> IF changed THEN NextRun(def.timing, anchor, now) ELSE old.next,
      last |-> old.last, result |-> old.result, op |-> old.op, warned |-> old.warned]

\* The candidate of saveReboot.
Saved(old, def, enabled) ==
  LET changed == old.rev = 0 \/ ~SameTiming(old.def, def)
      revised == changed \/ old.def # def \/ old.enabled # enabled
      reset   == changed \/ (~old.enabled /\ enabled)
      anchor  == IF def.timing.mode # "interval" THEN 0
                 ELSE IF reset \/ old.anchor = 0 THEN now ELSE old.anchor
      next    == IF ~enabled THEN 0
                 ELSE IF changed \/ old.next = 0 THEN NextRun(def.timing, anchor, now)
                 ELSE old.next
  IN [def |-> def, rev |-> IF revised THEN old.rev + 1 ELSE old.rev, enabled |-> enabled,
      anchor |-> anchor, next |-> next, last |-> old.last, result |-> old.result,
      op |-> old.op, warned |-> old.warned]

\* saveReboot
Save ==
  \E id \in Ids, def \in Definitions, enabled \in BOOLEAN :
    LET s == Saved(schedules[id], def, enabled)
    IN /\ edits < MaxEdits
       /\ Exists(id) \/ id = drawn + 1
       /\ Exists(id) /\ scan.phase # "idle" /\ ~RetargetInScan
            => def.server = schedules[id].def.server
       /\ ~Gone(def.server) /\ ~Deleting(def.server)
       /\ NextRun(def.timing, s.anchor, now) # 0
       /\ schedules' = [schedules EXCEPT ![id] = s]
       /\ warnings' = Valid(warnings, schedules', servers, now)
       /\ drawn' = IF Exists(id) THEN drawn ELSE id
       /\ edits' = edits + 1
       /\ since' = [since EXCEPT ![id] =
                      IF Exists(id) /\ schedules[id].enabled /\ enabled
                         /\ SameTiming(schedules[id].def, def) THEN @ ELSE now]
       /\ UNCHANGED <<now, history, servers, lock, scan, ops, faults, recorded>>

\* deleteReboot
Delete ==
  \E id \in Ids :
    /\ edits < MaxEdits
    /\ Exists(id)
    /\ schedules' = [schedules EXCEPT ![id] = NoSchedule]
    /\ warnings' = Valid(warnings, schedules', servers, now)
    /\ edits' = edits + 1
    /\ UNCHANGED <<now, drawn, history, servers, lock, scan, ops, faults, observe>>

-----------------------------------------------------------------------------
(* The scan.                                                               *)

Free == [op |-> 0, server |-> 0, by |-> "nobody"]
Idle == [phase |-> "idle", at |-> 0, todo |-> [s \in Servers |-> {}]]

ScanBegin ==
  /\ scan = Idle
  /\ scan' = [Idle EXCEPT !.phase = "warn", !.at = now]
  /\ UNCHANGED <<now, drawn, state, lock, ops, edits, faults, observe>>

\* The warning window of the schedule's occurrence is open, and its warning
\* not yet announced.
Warns(id) ==
  /\ WarningEligible(schedules[id], servers, scan.at)
  /\ scan.at + schedules[id].def.lead >= schedules[id].next
  /\ schedules[id].warned # <<schedules[id].rev, schedules[id].next>>

\* scanRestartWarnings, one Update.
ScanWarn ==
  LET ids == {id \in Ids : Warns(id)}
      occurrence(id) == [id |-> id, rev |-> schedules[id].rev,
                         next |-> schedules[id].next, sent |-> FALSE]
  IN /\ scan.phase = "warn"
     /\ schedules' = [id \in Ids |->
          IF id \in ids
            THEN [schedules[id] EXCEPT !.warned = <<schedules[id].rev, schedules[id].next>>]
            ELSE schedules[id]]
     /\ warnings' = Valid(warnings, schedules, servers, scan.at)
                      \cup {occurrence(id) : id \in ids}
     /\ scan' = [scan EXCEPT !.phase = "group"]
     /\ UNCHANGED <<now, drawn, history, servers, lock, ops, edits, faults, recorded, since>>

\* The warnings could not be written: the scan ends without a claim.
ScanAbort ==
  /\ scan.phase = "warn"
  /\ faults < MaxFaults /\ faults' = faults + 1
  /\ scan' = Idle
  /\ UNCHANGED <<now, drawn, state, lock, ops, edits, observe>>

Due(id, time) ==
  schedules[id].enabled /\ schedules[id].next # 0 /\ schedules[id].next <= time

\* The snapshot and its groups.
ScanGroup ==
  /\ scan.phase = "group"
  /\ scan' = [scan EXCEPT
       !.phase = "claim",
       !.todo = [s \in Servers |->
          {id \in Ids : Due(id, scan.at) /\ schedules[id].def.server = s}]]
  /\ UNCHANGED <<now, drawn, state, lock, ops, edits, faults, observe>>

Groups  == {s \in Servers : scan.todo[s] # {}}
Current == Least(Groups)
Moved   == [scan EXCEPT !.todo[Current] = {}]

\* TryLock fails because a restart or another lifecycle operation runs, or
\* the claim could not be written.
ScanSkip ==
  /\ scan.phase = "claim" /\ Groups # {}
  /\ lock.by # "scan"
  /\ IF lock = Free THEN faults < MaxFaults /\ faults' = faults + 1 ELSE UNCHANGED faults
  /\ scan' = Moved
  /\ UNCHANGED <<now, drawn, state, lock, ops, edits, observe>>

ScanEnd ==
  /\ scan.phase = "claim" /\ Groups = {} /\ lock.by # "scan"
  /\ scan' = Idle
  /\ UNCHANGED <<now, drawn, state, lock, ops, edits, faults, observe>>

\* Mutant: the window is a tick too long.
LateByOne(id) == now > schedules[id].next + LateWindow + 1

Late(id) == now > schedules[id].next + LateWindow

\* Mutant: the due schedules are those of the snapshot.
StillDueInSnapshot(id) == schedules[id].enabled /\ schedules[id].next # 0

\* Mutant: a late occurrence is passed over, not recorded as missed.
StillDueOnTime(id) == Due(id, now) /\ ~Late(id)

\* Read again inside the claim's Update.
StillDue(id) == Due(id, now)

Room(due) == Cardinality({e \in history : Active(e)}) + Cardinality(due) <= MaxActive

Claimable(s, due) == due # {} /\ ~Pending(s) /\ Room(due)

\* claimScheduledReboots: one Update records and advances every due schedule
\* of the group, and reserves at most one restart for those in time.
ScanClaim ==
  LET s      == Current
      all    == {id \in scan.todo[s] : StillDue(id)}
      closed == Deleting(s) \/ Stopped(s) \/ Gone(s)
      due    == {id \in all : ~Late(id)}
      claim  == ~closed /\ Claimable(s, due)
      op     == [id \in all |-> IF claim /\ id \in due THEN ops + 1 ELSE 0]
      result == [id \in all |-> IF op[id] # 0 THEN "awaiting"
                                ELSE IF ~closed /\ Late(id) THEN "missed" ELSE "skipped"]
  IN /\ scan.phase = "claim" /\ Groups # {}
     /\ lock = Free
     /\ history' = Recorded(history, all, op, result)
     /\ schedules' = [id \in Ids |-> IF id \in all
                        THEN Advanced(schedules[id], op[id], result[id])
                        ELSE schedules[id]]
     /\ IF claim
          THEN /\ ops' = ops + 1
               /\ servers' = [servers EXCEPT ![s].restart = ops + 1, ![s].status = "up"]
               /\ warnings' = Valid(warnings, schedules, servers', now)
               /\ lock' = [op |-> ops + 1, server |-> s, by |-> "scan"]
               /\ UNCHANGED scan
          ELSE /\ scan' = Moved
               /\ UNCHANGED <<ops, servers, warnings, lock>>
     /\ recorded' = recorded \cup {<<id, schedules[id].next>> : id \in all}
     /\ UNCHANGED <<now, drawn, edits, faults, since>>

\* Mutant: a second restart replaces the pending one.
ManualClaimOverPending ==
  \E s \in Servers :
    /\ lock = Free
    /\ ~Gone(s) /\ ~Deleting(s) /\ ~Stopped(s)
    /\ edits < MaxEdits /\ edits' = edits + 1
    /\ ops' = ops + 1
    /\ servers' = [servers EXCEPT ![s].restart = ops + 1, ![s].status = "up"]
    /\ warnings' = Valid(warnings, schedules, servers', now)
    /\ lock' = [op |-> ops + 1, server |-> s, by |-> "request"]
    /\ UNCHANGED <<now, drawn, schedules, history, scan, faults, observe>>

\* handleRestart: claimManualRestart.
ManualClaim ==
  \E s \in Servers :
    /\ lock = Free
    /\ ~Gone(s) /\ ~Deleting(s) /\ ~Stopped(s) /\ ~Pending(s)
    /\ edits < MaxEdits /\ edits' = edits + 1
    /\ ops' = ops + 1
    /\ servers' = [servers EXCEPT ![s].restart = ops + 1, ![s].status = "up"]
    /\ warnings' = Valid(warnings, schedules, servers', now)
    /\ lock' = [op |-> ops + 1, server |-> s, by |-> "request"]
    /\ UNCHANGED <<now, drawn, schedules, history, scan, faults, observe>>

\* dispatchRestartOperation: a command that fails leaves its executions
\* uncertain.
Dispatch ==
  /\ lock # Free
  /\ \/ UNCHANGED <<schedules, history, faults>>
     \/ /\ faults < MaxFaults /\ faults' = faults + 1
        /\ Finish(lock.op, "uncertain")
  /\ lock' = Free
  /\ scan' = IF lock.by = "scan" THEN Moved ELSE scan
  /\ UNCHANGED <<now, drawn, warnings, servers, ops, edits, observe>>

-----------------------------------------------------------------------------
(* The collector and the other lifecycle handlers.                         *)

\* observeAlerts resolves the pending restart of a server that runs.
Resolve ==
  \E s \in Servers, result \in {"completed", "failed"} :
    /\ lock = Free
    /\ Pending(s) /\ ~Stopped(s) /\ ~Gone(s) /\ ~Deleting(s)
    /\ Finish(servers[s].restart, result)
    /\ servers' = [servers EXCEPT ![s].restart = 0]
    /\ warnings' = Valid(warnings, schedules', servers', now)
    /\ UNCHANGED <<now, drawn, lock, scan, ops, edits, faults, observe>>

\* The status moves observed by the collector and made by the operator.
Moves == {<<"up", "seen stopped">>, <<"seen stopped", "up">>, <<"up", "parked">>,
          <<"seen stopped", "parked">>, <<"parked", "up">>}
NotWhilePending(move) == move[2] = "parked" \/ move[1] = "parked"

ChangeStatus ==
  \E s \in Servers, move \in Moves :
    /\ Lifecycle
    /\ edits < MaxEdits /\ edits' = edits + 1
    /\ lock = Free /\ ~Deleting(s)
    /\ servers[s].status = move[1]
    /\ NotWhilePending(move) => ~Pending(s)
    /\ servers' = [servers EXCEPT ![s].status = move[2]]
    /\ warnings' = IF NotWhilePending(move) THEN warnings
                   ELSE Valid(warnings, schedules, servers', now)
    /\ UNCHANGED <<now, drawn, schedules, history, lock, scan, ops, faults, observe>>

\* handleDelete and, later, completeDeletion: the receipt, then the entry and
\* the schedules that target it.  A pending restart stays with the entry.
DeleteServer ==
  \E s \in Servers :
    /\ Lifecycle
    /\ edits < MaxEdits /\ edits' = edits + 1
    /\ lock = Free /\ ~Gone(s)
    /\ IF ~Deleting(s)
         THEN /\ servers' = [servers EXCEPT ![s].deleting = TRUE]
              /\ UNCHANGED schedules
         ELSE /\ servers' = [servers EXCEPT ![s].status = "gone", ![s].restart = 0]
              /\ schedules' = [id \in Ids |->
                   IF Exists(id) /\ schedules[id].def.server = s THEN NoSchedule
                   ELSE schedules[id]]
    /\ warnings' = {w \in warnings : w.sent \/ schedules[w.id].rev = 0
                                       \/ schedules[w.id].def.server # s}
    /\ UNCHANGED <<now, drawn, history, lock, scan, ops, faults, observe>>

Tick ==
  /\ now < MaxTime /\ now' = now + 1
  /\ UNCHANGED <<drawn, state, lock, scan, ops, edits, faults, observe>>

\* recoverReboots: every overdue occurrence is missed, or its schedule is
\* disabled when none is left.
Recover(overdue, time) ==
  LET next(id) == NextRun(schedules[id].def.timing, schedules[id].anchor, time)
      missed == {id \in overdue : next(id) # 0}
  IN /\ history' = Recorded(history, missed, [id \in missed |-> 0], [id \in missed |-> "missed"])
     /\ schedules' = [id \in Ids |->
          IF id \in missed THEN
            [schedules[id] EXCEPT !.last = schedules[id].next, !.next = next(id),
                                  !.op = 0, !.result = "missed"]
          ELSE IF id \in overdue THEN
            [schedules[id] EXCEPT !.enabled = FALSE, !.next = 0, !.result = "skipped"]
          ELSE schedules[id]]

\* C2 dies and is back after a while.
Crash ==
  \E time \in now..MaxTime :
    LET overdue == {id \in Ids : Due(id, time)}
    IN /\ faults < MaxFaults /\ faults' = faults + 1
       /\ now' = time
       /\ Recover(overdue, time)
       /\ lock' = Free /\ scan' = Idle
       /\ recorded' = recorded \cup {<<id, schedules[id].next>> : id \in overdue}
       /\ since' = [id \in Ids |-> time]
       /\ UNCHANGED <<drawn, warnings, servers, ops, edits>>

-----------------------------------------------------------------------------
Init ==
  /\ now = 1 /\ drawn = 0 /\ ops = 0 /\ edits = 0 /\ faults = 0
  /\ schedules = [id \in Ids |-> NoSchedule]
  /\ history = {} /\ warnings = {}
  /\ servers = [s \in Servers |-> [status |-> "up", deleting |-> FALSE, restart |-> 0]]
  /\ lock = Free /\ scan = Idle
  /\ recorded = {} /\ since = [id \in Ids |-> 0]

Scanning == ScanBegin \/ ScanWarn \/ ScanAbort \/ ScanGroup \/ ScanClaim \/ ScanSkip \/ ScanEnd

Next == Scanning \/ Save \/ Delete \/ SendWarning \/ ManualClaim \/ Dispatch
          \/ Resolve \/ ChangeStatus \/ DeleteServer \/ Tick \/ Crash

Spec == Init /\ [][Next]_vars

(* The scan runs every 15 s and a handler that holds the lock finishes.     *)
FairSpec == Spec /\ WF_vars(Scanning) /\ WF_vars(Dispatch)

-----------------------------------------------------------------------------
NewExecutions == {e \in history' : \A f \in history : f.n # e.n}

TypeOK ==
  /\ now \in 1..MaxTime /\ drawn \in 0..NSchedules
  /\ \A id \in Ids : schedules[id] = NoSchedule \/
       /\ schedules[id].def \in Definitions /\ schedules[id].enabled \in BOOLEAN
       /\ schedules[id].next # 0 <=> schedules[id].enabled
       /\ schedules[id].op \in 0..ops
  /\ \A e \in history :
       /\ e.schedule \in Ids /\ e.server \in Servers /\ e.at \in 1..MaxTime
       /\ e.result \in {"awaiting", "uncertain", "completed", "failed", "skipped", "missed"}
       /\ (Active(e) \/ e.result \in {"completed", "failed"}) <=> e.op \in 1..ops
  /\ lock = Free \/ (lock.op \in 1..ops /\ lock.server \in Servers)
  /\ scan.phase \in {"idle", "warn", "group", "claim"}

\* An occurrence of a schedule is recorded, and so restarted, at most once:
\* however scans, edits, clock and restarts of C2 interleave.
RecordedOnce ==
  [][\A e \in NewExecutions : <<e.schedule, e.at>> \notin recorded]_vars

\* docs/reboots.md, "Execution and recovery": no restart is claimed for an
\* occurrence before its time, more than the late window after it, from
\* before C2 started, or from before the schedule's timing was saved.
NoCatchUp ==
  [][\A e \in NewExecutions : e.op # 0 =>
       e.at <= now /\ now <= e.at + LateWindow /\ e.at > since[e.schedule]]_vars

\* An open execution waits for the restart its server really has pending;
\* only the deletion of the server leaves it behind.
OpenIsPending ==
  \A e \in history : Active(e) /\ ~Gone(e.server) => servers[e.server].restart = e.op

\* The open executions of a pending restart never leave the history, however
\* full it is: its outcome would have nothing to close.
OpenIsKept ==
  [][\A e \in history : Active(e) /\ servers'[e.server].restart = e.op =>
       \E f \in history' : f.n = e.n /\ Active(f)]_vars

\* What a schedule shows of its last occurrence is what the history says of
\* it (or "skipped", once no future occurrence could be calculated).
ScheduleShowsAudit ==
  \A id \in Ids, e \in history :
    Exists(id) /\ e.schedule = id /\ e.at = schedules[id].last =>
      schedules[id].op = e.op /\ schedules[id].result \in {e.result, "skipped"}

Occurrences == Ids \X (1..MaxTime)

\* What a history h tells of an occurrence, some being recorded: an execution
\* that was recorded and is not there was trimmed.
FateIn(h, occurrences, o) ==
  LET executions == {e \in h : e.schedule = o[1] /\ e.at = o[2]}
      e          == CHOOSE e \in executions : TRUE
  IN IF executions # {} THEN [is |-> e.result, by |-> e.op]
     ELSE [is |-> IF o \in occurrences THEN "forgotten" ELSE "none", by |-> 0]

Promise == INSTANCE OccurrencePromise WITH
  fate     <- [o \in Occurrences |-> FateIn(history, recorded, o)],
  pending  <- [s \in Servers |-> servers[s].restart],
  restarts <- ops,
  present  <- {s \in Servers : ~Gone(s)}

\* The scheduler, its history and its recovery implement the promise that an
\* occurrence is decided once, and that all those claimed for a restart end
\* with it and as it does.
KeepsPromise == Promise!Spec

\* A warning never goes out for an occurrence that is past, already claimed,
\* skipped or missed, or of a schedule edited since.
NoStaleWarning ==
  [][\A w \in warnings' : w.sent /\ w \notin warnings =>
       /\ now < w.next /\ <<w.id, w.next>> \notin recorded
       /\ schedules[w.id].next = w.next /\ schedules[w.id].rev = w.rev]_vars

\* Every due occurrence is dealt with: claimed, skipped, missed, edited away.
DueIsHandled ==
  \A id \in Ids, t \in 1..MaxTime :
    (Exists(id) /\ schedules[id].next = t /\ t <= now) ~> (schedules[id].next # t)

\* docs/reboots.md, "Execution and recovery": C2 rereads the current schedule
\* and target inside the claim, so the server restarted is the one it names.
RestartsItsTarget ==
  [][\A e \in NewExecutions : e.op # 0 => servers'[e.server].restart = e.op]_vars
=============================================================================
