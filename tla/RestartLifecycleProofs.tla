----------------------- MODULE RestartLifecycleProofs -----------------------
(* Theorems about RestartLifecycle for every bound, timeout and policy.     *)
EXTENDS RestartLifecycle, TLAPS

-----------------------------------------------------------------------------
(* What the entries written by the handlers look like.                     *)

\* An entry agrees with itself: the pending operation is exactly the one
\* requested and not yet decided, and a parked server has none.
Consistent(s) ==
  /\ \A op \in OpIds : s.outcome[op] = "requested" <=> s.restart.id = op
  /\ OperatorStopped(s) => ~Pending(s)

\* The same operations have been requested.
Keeps(s, t) ==
  \A op \in OpIds : s.outcome[op] = "none" <=> t.outcome[op] = "none"

LEMMA ParkedEntryGood ==
  ASSUME NEW s \in Entries, Consistent(s), ~Pending(s)
  PROVE  ParkedEntry(s) \in Entries /\ Consistent(ParkedEntry(s)) /\ Keeps(s, ParkedEntry(s))
BY DEF Keeps, ParkedEntry, Entries, Consistent, OperatorStopped, Stopped, Pending, Statuses, Sources

LEMMA StartedEntryGood ==
  ASSUME NEW s \in Entries, Consistent(s)
  PROVE  StartedEntry(s) \in Entries /\ Consistent(StartedEntry(s)) /\ Keeps(s, StartedEntry(s))
BY DEF Keeps, StartedEntry, Entries, Consistent, OperatorStopped, Stopped, Pending, Statuses, Sources

LEMMA UncertainEntryGood ==
  ASSUME NEW s \in Entries, Consistent(s), NEW op \in OpIds
  PROVE  LET t == UncertainEntry(s, op)
         IN /\ t \in Entries /\ Consistent(t) /\ Keeps(s, t)
            /\ t.restart.id = s.restart.id
BY DEF Keeps, UncertainEntry, Entries, Operations, Consistent, OperatorStopped, Stopped, Pending

LEMMA RecoveredEntryGood ==
  ASSUME NEW s \in Entries, Consistent(s)
  PROVE  LET t == RecoveredEntry(s)
         IN /\ t \in Entries /\ Consistent(t) /\ t.outcome = s.outcome
            /\ t.restart = s.restart
            /\ OperatorStopped(t) <=> OperatorStopped(s)
BY BoundsAssumption
   DEF RecoveredEntry, Entries, Consistent, OperatorStopped, Stopped, Pending

LEMMA ReservedGood ==
  ASSUME NEW s \in Entries, Consistent(s), ~Pending(s),
         NEW op \in OpIds, NEW fence \in 0..MaxRuntimes
  PROVE  LET r == Reserved(s, op, fence)
         IN /\ r \in Entries /\ Consistent(r) /\ r.restart.id = op
            /\ r.outcome = [s.outcome EXCEPT ![op] = "requested"]
<1> DEFINE o == [id |-> op, runtime |-> s.runtime, fence |-> fence, uncertain |-> FALSE]
           u == [s.outcome EXCEPT ![op] = "requested"]
           r == [status |-> "starting", source |-> "", runtime |-> s.runtime,
                 restart |-> o, outcome |-> u]
<1>1. Reserved(s, op, fence) = r
  BY DEF Reserved
<1>2. o \in Operations
  BY BoundsAssumption DEF Entries, Operations, OpIds
<1>3. u \in [OpIds -> Outcomes]
  BY DEF Entries, Outcomes
<1>4. r \in Entries
  BY <1>2, <1>3 DEF Entries, Statuses, Sources
<1>5. \A x \in OpIds : s.outcome[x] # "requested"
  BY BoundsAssumption DEF Consistent, Pending, OpIds
<1>6. \A x \in OpIds : u[x] = "requested" <=> x = op
  BY <1>5 DEF Entries
<1>7. Consistent(r)
  BY <1>6 DEF Consistent, OperatorStopped, Stopped
<1>8. r.restart.id = op /\ r.outcome = u
  OBVIOUS
<1> HIDE DEF r
<1> QED BY <1>1, <1>4, <1>7, <1>8

LEMMA ObservedStatusGood ==
  ASSUME NEW s \in Entries, Consistent(s), NEW r \in Readings, ~OperatorStopped(s)
  PROVE  LET t == ObservedStatus(s, r)
         IN /\ t \in Entries /\ Consistent(t)
            /\ t.restart = s.restart /\ t.outcome = s.outcome
            /\ ~OperatorStopped(t)
BY DEF ObservedStatus, Entries, Consistent, OperatorStopped, Stopped, Pending,
       Readings, Statuses, Sources

LEMMA CompletedEntryGood ==
  ASSUME NEW s \in Entries, Consistent(s), Pending(s), NEW r \in Readings
  PROVE  LET t == CompletedEntry(s, r)
         IN t \in Entries /\ Consistent(t) /\ ~OperatorStopped(t) /\ Keeps(s, t)
<1> DEFINE u == [s.outcome EXCEPT ![s.restart.id] = "completed"]
           t == CompletedEntry(s, r)
<1>1. NoRestart \in Operations
  BY BoundsAssumption DEF NoRestart, Operations
<1>2. s.restart.id \in OpIds
  BY BoundsAssumption DEF Entries, Operations, Pending, OpIds
<1>3. u \in [OpIds -> Outcomes]
  BY DEF Entries, Outcomes
<1>4. t \in Entries
  BY <1>1, <1>3 DEF CompletedEntry, Entries, Statuses, Sources, Readings
<1>5. \A x \in OpIds : u[x] # "requested"
  BY <1>2 DEF Entries, Consistent
<1>6. Consistent(t)
  BY <1>5, BoundsAssumption
  DEF CompletedEntry, Consistent, OperatorStopped, Stopped, NoRestart, OpIds
<1>7. Keeps(s, t)
  <2>1. \A x \in OpIds : u[x] = "none" <=> s.outcome[x] = "none"
    BY <1>2 DEF Entries, Consistent
  <2> QED BY <2>1 DEF CompletedEntry, Keeps
<1> QED BY <1>4, <1>6, <1>7 DEF CompletedEntry, OperatorStopped, Stopped

LEMMA FailedEntryGood ==
  ASSUME NEW s \in Entries, Consistent(s), Pending(s)
  PROVE  LET t == FailedEntry(s)
         IN t \in Entries /\ Consistent(t) /\ ~OperatorStopped(t) /\ Keeps(s, t)
<1> DEFINE u == [s.outcome EXCEPT ![s.restart.id] = "failed"]
           t == FailedEntry(s)
<1>1. NoRestart \in Operations
  BY BoundsAssumption DEF NoRestart, Operations
<1>2. s.restart.id \in OpIds
  BY BoundsAssumption DEF Entries, Operations, Pending, OpIds
<1>3. u \in [OpIds -> Outcomes]
  BY DEF Entries, Outcomes
<1>4. t \in Entries
  BY <1>1, <1>3 DEF FailedEntry, Entries, Statuses, Sources
<1>5. \A x \in OpIds : u[x] # "requested"
  BY <1>2 DEF Entries, Consistent
<1>6. Consistent(t)
  BY <1>5, BoundsAssumption
  DEF FailedEntry, Consistent, OperatorStopped, Stopped, NoRestart, OpIds
<1>7. Keeps(s, t)
  <2>1. \A x \in OpIds : u[x] = "none" <=> s.outcome[x] = "none"
    BY <1>2 DEF Entries, Consistent
  <2> QED BY <2>1 DEF FailedEntry, Keeps
<1> QED BY <1>4, <1>6, <1>7 DEF FailedEntry, OperatorStopped, Stopped

\* An observation keeps the entry consistent, never unparks a server, and
\* only revises the outcome of the pending operation.
LEMMA ObservedGood ==
  ASSUME NEW s \in Entries, Consistent(s), NEW o \in Observations
  PROVE  LET t == Observed(s, o)
         IN /\ t \in Entries /\ Consistent(t) /\ Keeps(s, t)
            /\ OperatorStopped(t) <=> OperatorStopped(s)
            /\ ~Pending(s) => ~Pending(t)
<1> DEFINE seen == ObservedStatus(s, o.read)
<1>1. o.read \in Readings
  BY DEF Observations
<1>2. CASE OperatorStopped(s)
  BY <1>2 DEF Observed, Keeps
<1>3. CASE ~OperatorStopped(s)
  <2>1. seen \in Entries /\ Consistent(seen) /\ ~OperatorStopped(seen) /\ Keeps(s, seen)
        /\ seen.restart = s.restart
    BY <1>1, <1>3, ObservedStatusGood DEF Keeps
  <2> HIDE DEF seen
  <2>2. CASE Stopped(seen)
    BY <1>3, <2>1, <2>2 DEF Observed, seen, Pending
  <2>3. CASE ~Stopped(seen) /\ Pending(seen)
    <3>1. Observed(s, o) = Reconcile(seen, o)
      BY <1>3, <2>3 DEF Observed, seen
    <3>2. Reconcile(seen, o) \in {seen, CompletedEntry(seen, o.read), FailedEntry(seen)}
      BY DEF Reconcile
    <3>3. LET t == Reconcile(seen, o)
          IN t \in Entries /\ Consistent(t) /\ ~OperatorStopped(t) /\ Keeps(seen, t)
      BY <1>1, <2>1, <2>3, <3>2, CompletedEntryGood, FailedEntryGood DEF Keeps
    <3> QED BY <1>3, <2>1, <2>3, <3>1, <3>3 DEF Keeps, Pending
  <2>4. CASE ~Stopped(seen) /\ ~Pending(seen)
    <3>1. Observed(s, o) = [seen EXCEPT !.runtime = o.read.runtime]
      BY <1>3, <2>4 DEF Observed, seen
    <3>2. /\ [seen EXCEPT !.runtime = o.read.runtime] \in Entries
          /\ Consistent([seen EXCEPT !.runtime = o.read.runtime])
          /\ ~OperatorStopped([seen EXCEPT !.runtime = o.read.runtime])
          /\ Keeps(s, [seen EXCEPT !.runtime = o.read.runtime])
          /\ ~Pending([seen EXCEPT !.runtime = o.read.runtime])
      BY <2>4, <1>1, <2>1 DEF Keeps, Entries, Readings, Consistent, OperatorStopped, Stopped, Pending
    <3> QED BY <1>3, <3>1, <3>2
  <2> QED BY <2>2, <2>3, <2>4
<1> QED BY <1>2, <1>3

-----------------------------------------------------------------------------
(* The inductive invariant.  Beyond the invariants TLC checks it says that *)
(* ids not drawn yet occur nowhere, and that the operation being           *)
(* dispatched is the pending one of an unpoisoned or frozen memory.        *)

Dispatching ==
  lock.step = "dispatch" =>
    /\ lock.op \in OpIds /\ mem.restart.id = lock.op /\ sent[lock.op] = 0
    /\ disk.outcome[lock.op] # "none"

UnusedIds ==
  \A op \in OpIds : op > ops =>
    mem.outcome[op] = "none" /\ disk.outcome[op] = "none" /\ sent[op] = 0

SentIsClaimed ==
  \A op \in OpIds :
    /\ sent[op] <= 1
    /\ sent[op] > 0 => mem.outcome[op] # "none" /\ disk.outcome[op] # "none"

IInv ==
  /\ TypeOK
  /\ Consistent(mem) /\ Consistent(disk)
  /\ ShownIsDurable
  /\ Dispatching
  /\ UnusedIds
  /\ SentIsClaimed

LEMMA InitIInv == Init => IInv
<1> SUFFICES ASSUME Init PROVE IInv
  OBVIOUS
<1>1. NoRestart \in Operations
  BY BoundsAssumption DEF NoRestart, Operations
<1>2. FirstEntry \in Entries
  BY <1>1, BoundsAssumption DEF FirstEntry, Entries, Statuses, Sources, Outcomes
<1>3. Consistent(FirstEntry)
  BY BoundsAssumption DEF FirstEntry, Consistent, NoRestart, OperatorStopped, Stopped, OpIds
<1>4. TypeOK
  <2>1. mem \in Entries /\ disk \in Entries /\ poisoned \in BOOLEAN
    BY <1>2 DEF Init
  <2>2. lock \in Locks /\ obs \in Observations \cup {NoObs}
    BY BoundsAssumption DEF Init, Free, Locks
  <2>3. age \in 0..RestartTimeout /\ ops \in 0..MaxOps /\ faults \in 0..MaxFaults
    BY BoundsAssumption DEF Init
  <2>4. /\ replicas \in {0, 1} /\ template \in 0..MaxOps /\ pod \in Pods \cup {NoPod}
        /\ runtimes \in 0..MaxRuntimes /\ inflight \subseteq Calls
    BY BoundsAssumption DEF Init
  <2>5. sent \in [OpIds -> Nat] /\ served \subseteq 0..MaxOps
    BY DEF Init
  <2> QED BY <2>1, <2>2, <2>3, <2>4, <2>5 DEF TypeOK
<1>5. Dispatching
  BY DEF Init, Dispatching, Free
<1>6. UnusedIds /\ SentIsClaimed
  <2>1. mem.outcome = [op \in OpIds |-> "none"] /\ disk.outcome = [op \in OpIds |-> "none"]
    BY DEF Init, FirstEntry
  <2>2. \A op \in OpIds : sent[op] = 0
    BY DEF Init
  <2> QED BY <2>1, <2>2 DEF UnusedIds, SentIsClaimed
<1>7. Consistent(mem) /\ Consistent(disk) /\ ShownIsDurable
  BY <1>3 DEF Init, ShownIsDurable
<1> QED
  BY <1>4, <1>5, <1>6, <1>7 DEF IInv

-----------------------------------------------------------------------------
(* Preservation.                                                            *)

StoreGood ==
  /\ mem \in Entries /\ disk \in Entries /\ poisoned \in BOOLEAN
  /\ faults \in 0..MaxFaults
  /\ Consistent(mem) /\ Consistent(disk)
  /\ ShownIsDurable

\* An Update that requests nothing new, whatever its outcome.
LEMMA UpdateGood ==
  ASSUME IInv, NEW next \in Entries, Consistent(next), Keeps(mem, next),
         Commit(next) \/ Refuse(next)
  PROVE  StoreGood' /\ Keeps(mem, mem') /\ Keeps(disk, disk')
<1> USE BoundsAssumption DEF IInv, TypeOK, ShownIsDurable, StoreGood
<1>1. CASE Commit(next)
  BY <1>1 DEF Commit, Keeps
<1>2. CASE poisoned /\ UNCHANGED <<store, faults>>
  BY <1>2 DEF store, Keeps
<1>3. CASE ~poisoned /\ Fault /\ UNCHANGED <<mem, disk, poisoned>>
  BY <1>3 DEF Fault, Keeps
<1>4. CASE ~poisoned /\ Fault /\ disk' = next /\ poisoned' = TRUE /\ UNCHANGED mem
  BY <1>4 DEF Fault, Keeps
<1> QED BY <1>1, <1>2, <1>3, <1>4 DEF Refuse

LEMMA IdsKept ==
  ASSUME IInv, Keeps(mem, mem'), Keeps(disk, disk'), UNCHANGED <<ops, sent>>
  PROVE  UnusedIds' /\ SentIsClaimed'
BY DEF IInv, UnusedIds, SentIsClaimed, Keeps

OtherTypes ==
  /\ lock \in Locks
  /\ obs \in Observations \cup {NoObs}
  /\ age \in 0..RestartTimeout
  /\ ops \in 0..MaxOps
  /\ replicas \in {0, 1} /\ template \in 0..MaxOps
  /\ pod \in Pods \cup {NoPod} /\ runtimes \in 0..MaxRuntimes
  /\ inflight \subseteq Calls
  /\ sent \in [OpIds -> Nat] /\ served \subseteq 0..MaxOps

LEMMA Assemble ==
  ASSUME StoreGood', OtherTypes', Dispatching', UnusedIds', SentIsClaimed'
  PROVE  IInv'
BY DEF StoreGood, OtherTypes, IInv, TypeOK

\* An Update made by a handler that then holds the lock for no dispatch.
LEMMA UpdateKeepsIInv ==
  ASSUME IInv, NEW next \in Entries, Consistent(next), Keeps(mem, next),
         Commit(next) \/ Refuse(next),
         lock' \in Locks, lock'.step # "dispatch",
         obs' \in Observations \cup {NoObs},
         UNCHANGED <<age, ops, cluster, sent, served>>
  PROVE  IInv'
<1>1. StoreGood' /\ Keeps(mem, mem') /\ Keeps(disk, disk')
  BY UpdateGood
<1>2. OtherTypes'
  BY DEF IInv, TypeOK, OtherTypes, cluster
<1>3. Dispatching'
  BY DEF Dispatching
<1>4. UnusedIds' /\ SentIsClaimed'
  BY <1>1, IdsKept
<1> QED BY <1>1, <1>2, <1>3, <1>4, Assemble

LEMMA StopClaimStep == IInv /\ StopClaim => IInv'
<1> SUFFICES ASSUME IInv, StopClaim PROVE IInv'
  OBVIOUS
<1>1. /\ ParkedEntry(mem) \in Entries /\ Consistent(ParkedEntry(mem))
      /\ Keeps(mem, ParkedEntry(mem))
  BY ParkedEntryGood DEF IInv, TypeOK, StopClaim
<1>2. lock' \in Locks /\ lock'.step # "dispatch"
  BY BoundsAssumption DEF StopClaim, Held, Locks, Free
<1>3. obs' \in Observations \cup {NoObs}
  BY DEF IInv, TypeOK, StopClaim
<1> QED BY <1>1, <1>2, <1>3, UpdateKeepsIInv DEF StopClaim

LEMMA StartPersistStep == IInv /\ StartPersist => IInv'
<1> SUFFICES ASSUME IInv, StartPersist PROVE IInv'
  OBVIOUS
<1>1. /\ StartedEntry(mem) \in Entries /\ Consistent(StartedEntry(mem))
      /\ Keeps(mem, StartedEntry(mem))
  BY StartedEntryGood DEF IInv, TypeOK
<1>2. lock' \in Locks /\ lock'.step # "dispatch"
  BY BoundsAssumption DEF StartPersist, Locks, Free
<1>3. obs' \in Observations \cup {NoObs}
  BY DEF IInv, TypeOK, StartPersist, MarkTelemetryPending, Observations
<1> QED BY <1>1, <1>2, <1>3, UpdateKeepsIInv DEF StartPersist

LEMMA CollectApplyStep == IInv /\ CollectApply => IInv'
<1> SUFFICES ASSUME IInv, CollectApply PROVE IInv'
  OBVIOUS
<1>1. obs \in Observations
  BY DEF IInv, TypeOK, CollectApply, NoObs
<1>2. /\ Observed(mem, obs) \in Entries /\ Consistent(Observed(mem, obs))
      /\ Keeps(mem, Observed(mem, obs))
  BY <1>1, ObservedGood DEF IInv, TypeOK
<1>3. lock' \in Locks /\ lock'.step # "dispatch"
  BY BoundsAssumption DEF CollectApply, Locks, Free
<1> QED BY <1>2, <1>3, UpdateKeepsIInv DEF CollectApply

\* Reserving a fresh operation on an entry with none pending: after a
\* durable write the handler goes on to dispatch exactly that operation.
LEMMA ClaimKeepsIInv ==
  ASSUME IInv, NEW s \in Entries, Consistent(s), ~Pending(s), Keeps(mem, s),
         ops < MaxOps, ops' = ops + 1, age' = 0,
         NEW fence \in 0..MaxRuntimes, NEW by \in {"request", "collector"},
         \/ /\ Commit(Reserved(s, ops + 1, fence))
            /\ lock' = Held("dispatch", by, ops + 1)
         \/ Refuse(Reserved(s, ops + 1, fence)) /\ lock = Free /\ lock' = Free,
         obs' \in Observations \cup {NoObs},
         UNCHANGED <<cluster, sent, served>>
  PROVE  IInv'
<1> DEFINE op == ops + 1
           next == Reserved(s, op, fence)
<1>1. op \in OpIds /\ op \in 0..MaxOps /\ op > ops
  BY BoundsAssumption DEF IInv, TypeOK, OpIds
<1>2. /\ next \in Entries /\ Consistent(next) /\ next.restart.id = op
      /\ next.outcome = [s.outcome EXCEPT ![op] = "requested"]
  BY <1>1, ReservedGood
<1>3. \A x \in OpIds : x # op => (next.outcome[x] = "none" <=> mem.outcome[x] = "none")
  BY <1>1, <1>2 DEF Keeps, Entries
<1>4. next.outcome[op] = "requested"
  BY <1>1, <1>2 DEF Entries
<1> HIDE DEF next, op
<1>5. CASE Commit(next) /\ lock' = Held("dispatch", by, op)
  <2>1. mem' = next /\ disk' = next /\ ~poisoned /\ UNCHANGED <<poisoned, faults>>
    BY <1>5 DEF Commit
  <2>2. StoreGood'
    BY <1>2, <2>1 DEF IInv, TypeOK, StoreGood, ShownIsDurable
  <2>3. OtherTypes'
    BY <1>1, <1>5, BoundsAssumption
    DEF IInv, TypeOK, OtherTypes, cluster, Held, Locks, op
  <2>4. Dispatching'
    <3>1. lock'.op = op /\ sent[op] = 0
      BY <1>1, <1>5 DEF Held, IInv, UnusedIds
    <3> QED BY <1>1, <1>2, <1>4, <2>1, <3>1 DEF Dispatching
  <2>5. UnusedIds'
    <3>1. ASSUME NEW x \in OpIds, x > ops'
          PROVE  x # op /\ x > ops
      BY <3>1 DEF op, OpIds, IInv, TypeOK
    <3> QED BY <1>3, <2>1, <3>1 DEF UnusedIds, IInv
  <2>6. SentIsClaimed'
    BY <1>3, <1>4, <2>1 DEF SentIsClaimed, IInv
  <2> QED BY <2>2, <2>3, <2>4, <2>5, <2>6, Assemble
<1>6. CASE Refuse(next) /\ lock = Free /\ lock' = Free
  <2>1. /\ mem' = mem
        /\ \/ disk' = disk /\ poisoned' = poisoned
           \/ disk' = next /\ poisoned' = TRUE /\ ~poisoned
        /\ faults' \in 0..MaxFaults
    BY <1>6, BoundsAssumption DEF Refuse, Fault, store, IInv, TypeOK
  <2>2. StoreGood'
    <3>1. mem' \in Entries /\ Consistent(mem') /\ faults' \in 0..MaxFaults
      BY <2>1 DEF IInv, TypeOK
    <3>2. CASE disk' = disk /\ poisoned' = poisoned
      BY <2>1, <3>1, <3>2 DEF IInv, TypeOK, StoreGood, ShownIsDurable
    <3>3. CASE disk' = next /\ poisoned' = TRUE
      BY <1>2, <3>1, <3>3 DEF StoreGood, ShownIsDurable
    <3> QED BY <2>1, <3>2, <3>3
  <2>3. OtherTypes'
    BY <1>1, <1>6, BoundsAssumption
    DEF IInv, TypeOK, OtherTypes, cluster, op
  <2>4. Dispatching'
    BY <1>6 DEF Dispatching, Free
  <2>5. UnusedIds'
    <3>1. ASSUME NEW x \in OpIds, x > ops'
          PROVE  x # op /\ x > ops
      BY <3>1 DEF op, OpIds, IInv, TypeOK
    <3> QED BY <1>3, <2>1, <3>1 DEF UnusedIds, IInv
  <2>6. SentIsClaimed'
    BY <1>3, <1>4, <2>1 DEF SentIsClaimed, IInv
  <2> QED BY <2>2, <2>3, <2>4, <2>5, <2>6, Assemble
<1> QED BY <1>5, <1>6 DEF next, op

LEMMA FencesTyped == IInv => Fences \subseteq 0..MaxRuntimes
BY DEF IInv, TypeOK, Fences

LEMMA RestartClaimStep == IInv /\ RestartClaim => IInv'
<1> SUFFICES ASSUME IInv, RestartClaim PROVE IInv'
  OBVIOUS
<1>1. PICK fence \in Fences :
        \/ /\ Commit(Reserved(mem, ops + 1, fence))
           /\ lock' = Held("dispatch", "request", ops + 1)
        \/ Refuse(Reserved(mem, ops + 1, fence)) /\ UNCHANGED lock
  BY DEF RestartClaim
<1>2. fence \in 0..MaxRuntimes
  BY FencesTyped
<1>3. mem \in Entries /\ Consistent(mem) /\ Keeps(mem, mem)
  BY DEF IInv, TypeOK, Keeps
<1>4. obs' \in Observations \cup {NoObs}
  BY DEF IInv, TypeOK, RestartClaim
<1>5. /\ ~Pending(mem) /\ ops < MaxOps /\ ops' = ops + 1 /\ age' = 0 /\ lock = Free
      /\ UNCHANGED <<cluster, sent, served>>
  BY DEF RestartClaim
<1> QED BY <1>1, <1>2, <1>3, <1>4, <1>5, ClaimKeepsIInv

LEMMA PressureClaimStep == IInv /\ PressureClaim => IInv'
<1> SUFFICES ASSUME IInv, PressureClaim PROVE IInv'
  OBVIOUS
<1> DEFINE s == Observed(mem, obs)
<1>1. PICK fence \in Fences :
        \/ /\ Commit(Reserved(s, ops + 1, fence))
           /\ lock' = Held("dispatch", "collector", ops + 1)
        \/ Refuse(Reserved(s, ops + 1, fence)) /\ UNCHANGED lock
  BY DEF PressureClaim
<1>2. fence \in 0..MaxRuntimes
  BY FencesTyped
<1>3. obs \in Observations
  BY DEF IInv, TypeOK, PressureClaim, NoObs
<1>4. s \in Entries /\ Consistent(s) /\ Keeps(mem, s) /\ ~Pending(s)
  BY <1>3, ObservedGood DEF IInv, TypeOK, PressureClaim
<1>5. /\ ops < MaxOps /\ ops' = ops + 1 /\ age' = 0 /\ lock = Free
      /\ obs' \in Observations \cup {NoObs}
      /\ UNCHANGED <<cluster, sent, served>>
  BY DEF PressureClaim
<1> HIDE DEF s
<1> QED BY <1>1, <1>2, <1>4, <1>5, ClaimKeepsIInv

\* A step that touches neither the store nor the operations.
LEMMA StoreUntouched ==
  ASSUME IInv, UNCHANGED <<store, ops, sent>>, faults' \in 0..MaxFaults, OtherTypes',
         lock' = lock \/ lock'.step # "dispatch"
  PROVE  IInv'
<1>1. StoreGood'
  BY DEF IInv, TypeOK, StoreGood, ShownIsDurable, store
<1>2. Dispatching'
  BY DEF IInv, Dispatching, store
<1>3. UnusedIds' /\ SentIsClaimed'
  BY IdsKept DEF Keeps, store
<1> QED BY <1>1, <1>2, <1>3, Assemble

LEMMA CallTyped ==
  ASSUME IInv, NEW call \in Calls, CallSucceeds(call) \/ CallFails(call)
  PROVE  /\ replicas' \in {0, 1} /\ template' \in 0..MaxOps
         /\ inflight' \subseteq Calls /\ faults' \in 0..MaxFaults
<1>1. CASE Effect(call)
  <2>1. replicas' \in {0, 1} /\ template' \in 0..MaxOps
    BY <1>1, BoundsAssumption DEF Effect, Calls, OpIds, IInv, TypeOK
  <2> QED BY <1>1, <2>1, BoundsAssumption
      DEF CallSucceeds, CallFails, Fault, IInv, TypeOK
<1>2. CASE ~Effect(call)
  BY <1>2, BoundsAssumption DEF CallSucceeds, CallFails, Fault, IInv, TypeOK
<1> QED BY <1>1, <1>2

LEMMA StopScaleStep == IInv /\ StopScale => IInv'
<1> SUFFICES ASSUME IInv, StopScale PROVE IInv'
  OBVIOUS
<1> DEFINE call == [kind |-> "scale", arg |-> 0]
<1>1. call \in Calls
  BY DEF Calls
<1>2. /\ replicas' \in {0, 1} /\ template' \in 0..MaxOps
      /\ inflight' \subseteq Calls /\ faults' \in 0..MaxFaults
  BY <1>1, CallTyped DEF StopScale
<1>3. OtherTypes'
  BY <1>2, BoundsAssumption DEF StopScale, OtherTypes, IInv, TypeOK, Free, Locks
<1> QED BY <1>2, <1>3, StoreUntouched DEF StopScale, Free

LEMMA StartScaleStep == IInv /\ StartScale => IInv'
<1> SUFFICES ASSUME IInv, StartScale PROVE IInv'
  OBVIOUS
<1> DEFINE call == [kind |-> "scale", arg |-> 1]
<1>1. call \in Calls
  BY DEF Calls
<1>2. /\ replicas' \in {0, 1} /\ template' \in 0..MaxOps
      /\ inflight' \subseteq Calls /\ faults' \in 0..MaxFaults
  BY <1>1, CallTyped DEF StartScale
<1>3. OtherTypes'
  BY <1>2, BoundsAssumption DEF StartScale, OtherTypes, IInv, TypeOK, Free, Held, Locks
<1> QED BY <1>2, <1>3, StoreUntouched DEF StartScale, Free, Held

LEMMA DispatchStep == IInv /\ Dispatch => IInv'
<1> SUFFICES ASSUME IInv, Dispatch PROVE IInv'
  OBVIOUS
<1> DEFINE call == [kind |-> "restart", arg |-> lock.op]
           next == UncertainEntry(mem, lock.op)
<1>1. /\ lock.op \in OpIds /\ mem.restart.id = lock.op /\ sent[lock.op] = 0
      /\ disk.outcome[lock.op] # "none"
  BY DEF IInv, Dispatching, Dispatch
<1>2. mem.outcome[lock.op] # "none"
  BY <1>1 DEF IInv, Consistent
<1>3. next \in Entries /\ Consistent(next) /\ Keeps(mem, next)
  BY <1>1, UncertainEntryGood DEF IInv, TypeOK
<1>4. call \in Calls
  BY <1>1 DEF Calls
<1> HIDE DEF next
<1>5. /\ replicas' \in {0, 1} /\ template' \in 0..MaxOps
      /\ inflight' \subseteq Calls /\ faults' \in 0..MaxFaults
  BY <1>4, CallTyped DEF Dispatch
<1>6. /\ sent' = [sent EXCEPT ![lock.op] = @ + 1]
      /\ \/ UNCHANGED store
         \/ ~poisoned /\ mem' = next /\ disk' = next /\ poisoned' = poisoned
         \/ ~poisoned /\ mem' = mem /\ disk' = next /\ poisoned' = TRUE
  BY DEF Dispatch, next, store
<1>7. StoreGood' /\ Keeps(mem, mem') /\ Keeps(disk, disk')
  <2>1. CASE UNCHANGED store
    BY <1>5, <2>1 DEF store, StoreGood, Keeps, IInv, TypeOK, ShownIsDurable
  <2>2. CASE ~poisoned /\ mem' = next /\ disk' = next /\ poisoned' = poisoned
    BY <1>3, <1>5, <2>2 DEF StoreGood, Keeps, IInv, TypeOK, ShownIsDurable
  <2>3. CASE ~poisoned /\ mem' = mem /\ disk' = next /\ poisoned' = TRUE
    BY <1>3, <1>5, <2>3 DEF StoreGood, Keeps, IInv, TypeOK, ShownIsDurable
  <2> QED BY <1>6, <2>1, <2>2, <2>3
<1>8. OtherTypes'
  <2>1. sent' \in [OpIds -> Nat]
    BY <1>1, <1>6 DEF IInv, TypeOK
  <2> QED BY <1>5, <2>1, BoundsAssumption
      DEF Dispatch, OtherTypes, IInv, TypeOK, Free, Locks
<1>9. Dispatching'
  BY DEF Dispatch, Dispatching, Free
<1>10. UnusedIds'
  BY <1>2, <1>6, <1>7 DEF IInv, TypeOK, UnusedIds, Keeps, Dispatch
<1>11. SentIsClaimed'
  <2>1. sent'[lock.op] = 1
    BY <1>1, <1>6 DEF IInv, TypeOK
  <2>2. \A op \in OpIds : op # lock.op => sent'[op] = sent[op]
    BY <1>1, <1>6 DEF IInv, TypeOK
  <2>3. mem'.outcome[lock.op] # "none" /\ disk'.outcome[lock.op] # "none"
    BY <1>1, <1>2, <1>7 DEF Keeps
  <2> QED BY <1>7, <2>1, <2>2, <2>3 DEF IInv, SentIsClaimed, Keeps
<1> QED BY <1>7, <1>8, <1>9, <1>10, <1>11, Assemble

\* The remaining steps leave the store alone, or only lose it.
LEMMA StartBeginStep == IInv /\ StartBegin => IInv'
<1> SUFFICES ASSUME IInv, StartBegin PROVE IInv'
  OBVIOUS
<1>1. OtherTypes' /\ faults' \in 0..MaxFaults
  BY BoundsAssumption DEF StartBegin, OtherTypes, IInv, TypeOK, Held, Locks, cluster
<1> QED BY <1>1, StoreUntouched DEF StartBegin, Held

LEMMA LateEffectStep == IInv /\ LateEffect => IInv'
<1> SUFFICES ASSUME IInv, LateEffect PROVE IInv'
  OBVIOUS
<1>1. replicas' \in {0, 1} /\ template' \in 0..MaxOps /\ inflight' \subseteq Calls
  BY BoundsAssumption DEF LateEffect, Effect, Calls, OpIds, IInv, TypeOK
<1>2. OtherTypes' /\ faults' \in 0..MaxFaults
  BY <1>1 DEF LateEffect, OtherTypes, IInv, TypeOK
<1> QED BY <1>2, StoreUntouched DEF LateEffect

LEMMA ReadingTyped == IInv => {Reading, Unread, Blind} \subseteq Readings
<1> SUFFICES ASSUME IInv PROVE {Reading, Unread, Blind} \subseteq Readings
  OBVIOUS
<1>1. Reading \in Readings
  BY BoundsAssumption DEF Reading, Readings, Statuses, Pods, Runtimes, IInv, TypeOK
<1>2. Blind \in Readings
  BY <1>1 DEF Blind, Readings, Statuses
<1>3. Unread \in Readings
  BY BoundsAssumption DEF Unread, Readings, Statuses
<1> QED BY <1>1, <1>2, <1>3

LEMMA CollectReadStep == IInv /\ CollectRead => IInv'
<1> SUFFICES ASSUME IInv, CollectRead PROVE IInv'
  OBVIOUS
<1>1. PICK r \in {Reading, Unread, Blind} :
        obs' = [NoObs EXCEPT !.phase = "read", !.read = r]
  BY DEF CollectRead
<1>2. r \in Readings
  BY ReadingTyped
<1>3. obs' = [phase |-> "read", read |-> r, stale |-> FALSE, after |-> 0, overdue |-> FALSE]
  BY <1>1 DEF NoObs
<1>4. obs' \in Observations
  BY <1>2, <1>3, BoundsAssumption DEF Observations
<1>5. OtherTypes'
  BY <1>4 DEF CollectRead, OtherTypes, IInv, TypeOK, cluster
<1>6. faults' \in 0..MaxFaults
  BY BoundsAssumption DEF CollectRead, Fault, IInv, TypeOK
<1> QED BY <1>5, <1>6, StoreUntouched DEF CollectRead

LEMMA CollectStampStep == IInv /\ CollectStamp => IInv'
<1> SUFFICES ASSUME IInv, CollectStamp PROVE IInv'
  OBVIOUS
<1>1. obs \in Observations /\ ops \in 0..MaxOps
  BY DEF IInv, TypeOK, CollectStamp, NoObs
<1>2. obs' \in Observations
  BY <1>1 DEF CollectStamp, Observations
<1>3. OtherTypes' /\ faults' \in 0..MaxFaults
  BY <1>2 DEF CollectStamp, OtherTypes, IInv, TypeOK, cluster
<1> QED BY <1>3, StoreUntouched DEF CollectStamp

LEMMA CollectDropStep == IInv /\ CollectDrop => IInv'
<1> SUFFICES ASSUME IInv, CollectDrop PROVE IInv'
  OBVIOUS
<1>1. OtherTypes' /\ faults' \in 0..MaxFaults
  BY DEF CollectDrop, OtherTypes, IInv, TypeOK, cluster
<1> QED BY <1>1, StoreUntouched DEF CollectDrop

LEMMA PodSteps ==
  IInv /\ (PodStart \/ PodStop \/ ContainerRestart \/ PodReady) => IInv'
<1> SUFFICES ASSUME IInv, PodStart \/ PodStop \/ ContainerRestart \/ PodReady
             PROVE  IInv'
  OBVIOUS
<1>1. pod' \in Pods \cup {NoPod} /\ runtimes' \in 0..MaxRuntimes
  <2>1. CASE PodStart
    <3>1. /\ runtimes + 1 \in Runtimes /\ runtimes + 1 \in 0..MaxRuntimes
          /\ template \in 0..MaxOps
      BY <2>1, BoundsAssumption DEF PodStart, Runtimes, IInv, TypeOK
    <3> QED BY <2>1, <3>1 DEF PodStart, Pods
  <2>2. CASE PodStop
    BY <2>2 DEF PodStop, IInv, TypeOK
  <2>3. CASE ContainerRestart
    <3>1. pod \in Pods /\ runtimes + 1 \in Runtimes /\ runtimes + 1 \in 0..MaxRuntimes
      BY <2>3, BoundsAssumption DEF ContainerRestart, Runtimes, IInv, TypeOK
    <3>2. [pod EXCEPT !.runtime = runtimes + 1, !.ready = FALSE] \in Pods
      BY <3>1 DEF Pods
    <3> QED BY <2>3, <3>1, <3>2 DEF ContainerRestart
  <2>4. CASE PodReady
    <3>1. pod \in Pods
      BY <2>4 DEF PodReady, IInv, TypeOK
    <3>2. [pod EXCEPT !.ready = TRUE] \in Pods
      BY <3>1 DEF Pods
    <3> QED BY <2>4, <3>2 DEF PodReady, IInv, TypeOK
  <2> QED BY <2>1, <2>2, <2>3, <2>4
<1>2. served' \subseteq 0..MaxOps
  BY DEF PodStart, PodStop, ContainerRestart, PodReady, Pods, IInv, TypeOK
<1>3. UNCHANGED <<store, ops, sent, faults, lock, obs, age, replicas, template, inflight>>
  BY DEF PodStart, PodStop, ContainerRestart, PodReady
<1>4. OtherTypes' /\ faults' \in 0..MaxFaults
  BY <1>1, <1>2, <1>3 DEF OtherTypes, IInv, TypeOK
<1> QED BY <1>3, <1>4, StoreUntouched

LEMMA ScaleOutsideStep == IInv /\ ScaleOutside => IInv'
<1> SUFFICES ASSUME IInv, ScaleOutside PROVE IInv'
  OBVIOUS
<1>1. OtherTypes' /\ faults' \in 0..MaxFaults
  BY BoundsAssumption DEF ScaleOutside, Fault, OtherTypes, IInv, TypeOK
<1> QED BY <1>1, StoreUntouched DEF ScaleOutside

LEMMA TickStep == IInv /\ Tick => IInv'
<1> SUFFICES ASSUME IInv, Tick PROVE IInv'
  OBVIOUS
<1>1. OtherTypes' /\ faults' \in 0..MaxFaults
  BY BoundsAssumption DEF Tick, OtherTypes, IInv, TypeOK, cluster
<1> QED BY <1>1, StoreUntouched DEF Tick

LEMMA PoisonElsewhereStep == IInv /\ PoisonElsewhere => IInv'
<1> SUFFICES ASSUME IInv, PoisonElsewhere PROVE IInv'
  OBVIOUS
<1>1. StoreGood'
  BY BoundsAssumption DEF PoisonElsewhere, Fault, StoreGood, ShownIsDurable, IInv, TypeOK
<1>2. OtherTypes'
  BY DEF PoisonElsewhere, OtherTypes, IInv, TypeOK, cluster
<1>3. Dispatching'
  BY DEF PoisonElsewhere, Dispatching, IInv
<1>4. UnusedIds' /\ SentIsClaimed'
  BY IdsKept DEF PoisonElsewhere, Keeps
<1> QED BY <1>1, <1>2, <1>3, <1>4, Assemble

\* Either file C2 reads back satisfies what memory and file both satisfied.
LEMMA RestartedStep == IInv /\ (Crash \/ Relaunch) => IInv'
<1> SUFFICES ASSUME IInv, Crash \/ Relaunch PROVE IInv'
  OBVIOUS
<1>1. Restarted
  BY DEF Crash, Relaunch
<1>2. PICK file \in {mem, disk} : mem' = RecoveredEntry(file) /\ disk' = RecoveredEntry(file)
  BY <1>1 DEF Restarted
<1>0. /\ RecoveredEntry(file) \in Entries /\ Consistent(RecoveredEntry(file))
      /\ RecoveredEntry(file).outcome = file.outcome
  <2>1. file \in Entries /\ Consistent(file)
    BY <1>2 DEF IInv, TypeOK
  <2> QED BY <2>1, RecoveredEntryGood
<1>3. faults' \in 0..MaxFaults
  BY BoundsAssumption DEF Crash, Relaunch, Fault, IInv, TypeOK
<1>4. StoreGood'
  BY <1>0, <1>1, <1>2, <1>3 DEF Restarted, StoreGood, ShownIsDurable
<1>5. OtherTypes'
  BY <1>1, BoundsAssumption DEF Restarted, OtherTypes, IInv, TypeOK, cluster, Free, Locks
<1>6. Dispatching'
  BY <1>1 DEF Restarted, Dispatching, Free
<1>7. UnusedIds' /\ SentIsClaimed'
  BY <1>0, <1>1, <1>2 DEF Restarted, UnusedIds, SentIsClaimed, IInv
<1> QED BY <1>4, <1>5, <1>6, <1>7, Assemble

LEMMA NextKeepsIInv == IInv /\ [Next]_vars => IInv'
<1> SUFFICES ASSUME IInv, [Next]_vars PROVE IInv'
  OBVIOUS
<1>1. CASE Handlers
  BY <1>1, StopClaimStep, StopScaleStep, StartBeginStep, StartScaleStep,
     StartPersistStep, RestartClaimStep, DispatchStep DEF Handlers
<1>2. CASE Collector
  BY <1>2, CollectReadStep, CollectStampStep, CollectDropStep, CollectApplyStep,
     PressureClaimStep DEF Collector
<1>3. CASE Outside
  BY <1>3, LateEffectStep, PodSteps, ScaleOutsideStep, TickStep DEF Outside
<1>4. CASE Process
  BY <1>4, PoisonElsewhereStep, RestartedStep DEF Process
<1>5. CASE UNCHANGED vars
  <2>1. OtherTypes' /\ faults' \in 0..MaxFaults
    BY <1>5 DEF vars, cluster, OtherTypes, IInv, TypeOK
  <2> QED BY <1>5, <2>1, StoreUntouched DEF vars
<1> QED BY <1>1, <1>2, <1>3, <1>4, <1>5 DEF Next

LEMMA SpecIInv == Spec => []IInv
BY InitIInv, NextKeepsIInv, PTL DEF Spec

-----------------------------------------------------------------------------
\* The state every handler reads and writes stays well-formed.
THEOREM TypeCorrect == Spec => []TypeOK
<1>1. IInv => TypeOK
  BY DEF IInv
<1> QED BY <1>1, SpecIInv, PTL

\* docs/reboots.md:29: a claim cannot be replayed.  Whatever crashes, failed
\* writes and late calls do, an operation's command is sent at most once and
\* only behind a durable claim.
THEOREM CommandOnce == Spec => []CommandOnceAfterDurableClaim
<1>1. IInv => CommandOnceAfterDurableClaim
  BY DEF IInv, SentIsClaimed, CommandOnceAfterDurableClaim
<1> QED BY <1>1, SpecIInv, PTL

\* Nothing resolves or replaces a claim between its write and its command.
THEOREM ClaimHeld == Spec => []DispatchedIsPending
<1>1. IInv => DispatchedIsPending
  BY DEF IInv, Dispatching, DispatchedIsPending
<1> QED BY <1>1, SpecIInv, PTL

\* A requested restart is pending until its completed or failed event, in
\* memory and in the file.
THEOREM NothingLost == Spec => []NoLostOperation
<1>1. IInv => NoLostOperation
  BY DEF IInv, Consistent, NoLostOperation
<1> QED BY <1>1, SpecIInv, PTL

\* A server the operator parked has no restart that could wake it.
THEOREM ParkIsFinal == Spec => []ParkedHasNoRestart
<1>1. IInv => ParkedHasNoRestart
  BY DEF IInv, Consistent, ParkedHasNoRestart
<1> QED BY <1>1, SpecIInv, PTL

\* The console never shows what the file does not hold, short of a failed
\* directory sync, after which nothing more is written.
THEOREM Durable == Spec => []ShownIsDurable
<1>1. IInv => ShownIsDurable
  BY DEF IInv
<1> QED BY <1>1, SpecIInv, PTL

-----------------------------------------------------------------------------
(* A completed restart was served.  The evidence travels from the Pod that *)
(* became ready, through the reading taken of it, to the event recorded in *)
(* the store; each stage only repeats what an earlier one has seen.        *)

\* Nothing is completed in t that was not already in s, or served.
Vouched(s, t) ==
  \A op \in OpIds :
    t.outcome[op] = "completed" => s.outcome[op] = "completed" \/ op \in served

StoreServed ==
  \A s \in {mem, disk} : \A op \in OpIds : s.outcome[op] = "completed" => op \in served
PodServed == pod # NoPod /\ pod.ready => pod.op \in served
ObsServed == obs.read.health = "healthy" => obs.read.op \in served

Served == StoreServed /\ PodServed /\ ObsServed

LEMMA UpdateVouched ==
  ASSUME StoreServed, NEW next, Vouched(mem, next), Commit(next) \/ Refuse(next),
         UNCHANGED served
  PROVE  StoreServed'
<1>1. \A op \in OpIds : next.outcome[op] = "completed" => op \in served
  BY DEF StoreServed, Vouched
<1>2. mem' \in {mem, next} /\ disk' \in {disk, next}
  BY DEF Commit, Refuse, store
<1> QED BY <1>1, <1>2 DEF StoreServed

LEMMA ReservedVouched ==
  ASSUME NEW s \in Entries, Vouched(mem, s), NEW op \in OpIds, NEW fence
  PROVE  Vouched(mem, Reserved(s, op, fence))
<1>1. Reserved(s, op, fence).outcome = [s.outcome EXCEPT ![op] = "requested"]
  BY DEF Reserved
<1> QED BY <1>1 DEF Vouched, Entries

\* An observation completes the pending operation only on a healthy reading
\* that carries its marker.
LEMMA ObservedVouched ==
  ASSUME IInv, ObsServed, obs \in Observations
  PROVE  Vouched(mem, Observed(mem, obs))
<1> DEFINE seen == ObservedStatus(mem, obs.read)
<1>1. mem \in Entries
  BY DEF IInv, TypeOK
<1>2. seen.outcome = mem.outcome /\ seen.restart = mem.restart
  BY <1>1 DEF ObservedStatus, Entries
<1> HIDE DEF seen
<1>3. CASE OperatorStopped(mem) \/ Stopped(seen) \/ ~Pending(seen)
  BY <1>2, <1>3 DEF Observed, seen, Vouched
<1>4. CASE ~OperatorStopped(mem) /\ ~Stopped(seen) /\ Pending(seen)
  <2>1. Observed(mem, obs) = Reconcile(seen, obs)
    BY <1>4 DEF Observed, seen
  <2>2. CASE Confirms(seen, obs.read)
    <3>1. seen.restart.id \in served
      BY <2>2 DEF Confirms, ObsServed
    <3>2. Vouched(mem, CompletedEntry(seen, obs.read))
      BY <1>1, <1>2, <3>1 DEF Vouched, CompletedEntry, Entries
    <3>3. Vouched(mem, seen)
      BY <1>2 DEF Vouched
    <3> QED BY <2>1, <2>2, <3>2, <3>3 DEF Reconcile
  <2>3. CASE ~Confirms(seen, obs.read)
    <3>1. Vouched(mem, FailedEntry(seen)) /\ Vouched(mem, seen)
      BY <1>1, <1>2 DEF Vouched, FailedEntry, Entries
    <3> QED BY <2>1, <2>3, <3>1 DEF Reconcile
  <2> QED BY <2>2, <2>3
<1> QED BY <1>3, <1>4

LEMMA InitServed == Init => Served
<1> SUFFICES ASSUME Init PROVE Served
  OBVIOUS
<1>1. StoreServed
  <2>1. mem.outcome = [op \in OpIds |-> "none"] /\ disk.outcome = [op \in OpIds |-> "none"]
    BY DEF Init, FirstEntry
  <2>2. \A op \in OpIds : mem.outcome[op] = "none" /\ disk.outcome[op] = "none"
    BY <2>1
  <2> QED BY <2>2 DEF StoreServed
<1>2. PodServed
  BY DEF Init, PodServed
<1>3. ObsServed
  BY DEF Init, ObsServed, NoObs, Unread
<1> QED BY <1>1, <1>2, <1>3 DEF Served

LEMMA NextKeepsServed == IInv /\ Served /\ [Next]_vars => Served'
<1> SUFFICES ASSUME IInv, Served, [Next]_vars PROVE Served'
  OBVIOUS
<1> USE DEF Served
<1>1. CASE StopClaim
  <2>1. Vouched(mem, ParkedEntry(mem))
    BY DEF Vouched, ParkedEntry, IInv, TypeOK, Entries
  <2> QED BY <1>1, <2>1, UpdateVouched DEF StopClaim, PodServed, ObsServed, cluster
<1>2. CASE StartPersist
  <2>1. Vouched(mem, StartedEntry(mem))
    BY DEF Vouched, StartedEntry, IInv, TypeOK, Entries
  <2>2. obs'.read = obs.read
    BY <1>2 DEF StartPersist, MarkTelemetryPending, IInv, TypeOK, Observations, NoObs
  <2> QED BY <1>2, <2>1, <2>2, UpdateVouched DEF StartPersist, PodServed, ObsServed, cluster
<1>3. CASE RestartClaim
  <2>1. mem \in Entries /\ ops + 1 \in OpIds /\ Vouched(mem, mem)
    BY <1>3, BoundsAssumption DEF RestartClaim, IInv, TypeOK, OpIds, Vouched
  <2>2. PICK fence \in Fences : \/ Commit(Reserved(mem, ops + 1, fence))
                                \/ Refuse(Reserved(mem, ops + 1, fence))
    BY <1>3 DEF RestartClaim
  <2>3. Vouched(mem, Reserved(mem, ops + 1, fence))
    BY <2>1, ReservedVouched
  <2>4. UNCHANGED <<obs, cluster, served>>
    BY <1>3 DEF RestartClaim
  <2> QED BY <2>2, <2>3, <2>4, UpdateVouched DEF PodServed, ObsServed, cluster
<1>4. CASE Dispatch
  <2>1. mem.outcome = UncertainEntry(mem, lock.op).outcome
    BY DEF UncertainEntry, IInv, TypeOK, Entries
  <2>2. mem'.outcome = mem.outcome /\ disk'.outcome \in {mem.outcome, disk.outcome}
    BY <1>4, <2>1 DEF Dispatch, store
  <2> QED BY <1>4, <2>2 DEF Dispatch, StoreServed, PodServed, ObsServed
<1>5. CASE CollectRead
  <2>1. Reading.health = "healthy" => Reading.op \in served
    BY BoundsAssumption DEF Reading, PodServed
  <2>2. PICK r \in {Reading, Unread, Blind} :
          obs' = [NoObs EXCEPT !.phase = "read", !.read = r]
    BY <1>5 DEF CollectRead
  <2>3. obs'.read = r /\ (r.health = "healthy" => r = Reading)
    <3>1. Blind.health = "" /\ Unread.health = ""
      BY ReadingTyped DEF Blind, Unread, Readings
    <3> QED BY <2>2, <3>1 DEF NoObs
  <2> QED BY <1>5, <2>1, <2>3
      DEF CollectRead, ObsServed, PodServed, StoreServed, store, cluster
<1>6. CASE CollectStamp
  <2>1. obs'.read = obs.read
    BY <1>6 DEF CollectStamp, IInv, TypeOK, Observations, NoObs
  <2> QED BY <1>6, <2>1 DEF CollectStamp, ObsServed, PodServed, StoreServed, store, cluster
<1>7. CASE CollectDrop
  BY <1>7 DEF CollectDrop, ObsServed, PodServed, StoreServed, store, cluster, NoObs, Unread
<1>8. CASE CollectApply
  <2>1. obs \in Observations
    BY <1>8 DEF IInv, TypeOK, CollectApply, NoObs
  <2>2. Vouched(mem, Observed(mem, obs))
    BY <2>1, ObservedVouched
  <2>3. ObsServed'
    BY <1>8 DEF CollectApply, ObsServed, NoObs, Unread
  <2> QED BY <1>8, <2>2, <2>3, UpdateVouched DEF CollectApply, PodServed, cluster
<1>9. CASE PressureClaim
  <2> DEFINE s == Observed(mem, obs)
  <2>1. obs \in Observations /\ ops + 1 \in OpIds
    BY <1>9, BoundsAssumption DEF IInv, TypeOK, PressureClaim, NoObs, OpIds
  <2>2. s \in Entries /\ Vouched(mem, s)
    BY <2>1, ObservedVouched, ObservedGood DEF IInv, TypeOK
  <2>3. PICK fence \in Fences : \/ Commit(Reserved(s, ops + 1, fence))
                                \/ Refuse(Reserved(s, ops + 1, fence))
    BY <1>9 DEF PressureClaim
  <2> HIDE DEF s
  <2>4. Vouched(mem, Reserved(s, ops + 1, fence))
    BY <2>1, <2>2, ReservedVouched
  <2>5. ObsServed' /\ UNCHANGED <<cluster, served>>
    BY <1>9 DEF PressureClaim, ObsServed, NoObs, Unread
  <2> QED BY <2>3, <2>4, <2>5, UpdateVouched DEF PodServed, cluster
<1>10. CASE StopScale \/ StartBegin \/ StartScale \/ LateEffect \/ ScaleOutside \/ Tick
            \/ PoisonElsewhere
  BY <1>10 DEF StopScale, StartBegin, StartScale, LateEffect, ScaleOutside, Tick,
     PoisonElsewhere, store, cluster, StoreServed, PodServed, ObsServed
<1>11. CASE PodStart \/ PodStop \/ ContainerRestart \/ PodReady
  <2>1. PodServed'
    <3>1. CASE PodReady
      <4>1. pod' = [pod EXCEPT !.ready = TRUE] /\ pod.op \in served' /\ pod \in Pods
        BY <3>1 DEF PodReady, IInv, TypeOK
      <4> QED BY <4>1 DEF PodServed, Pods
    <3>2. CASE PodStart \/ PodStop
      BY <3>2 DEF PodStart, PodStop, PodServed, NoPod
    <3>3. CASE ContainerRestart
      BY <3>3 DEF ContainerRestart, PodServed, Pods, IInv, TypeOK
    <3> QED BY <1>11, <3>1, <3>2, <3>3
  <2>2. served \subseteq served' /\ UNCHANGED <<mem, disk, obs>>
    BY <1>11 DEF PodStart, PodStop, ContainerRestart, PodReady, store
  <2> QED BY <2>1, <2>2 DEF StoreServed, ObsServed
<1>12. CASE Crash \/ Relaunch
  <2>1. Restarted
    BY <1>12 DEF Crash, Relaunch
  <2>2. PICK file \in {mem, disk} : mem' = RecoveredEntry(file) /\ disk' = RecoveredEntry(file)
    BY <2>1 DEF Restarted
  <2>3. RecoveredEntry(file).outcome = file.outcome /\ served' = served
    BY <2>1, <2>2, RecoveredEntryGood DEF IInv, TypeOK, Restarted
  <2>5. StoreServed'
    BY <2>2, <2>3 DEF StoreServed
  <2>4. PodServed' /\ ObsServed'
    BY <2>1 DEF Restarted, PodServed, ObsServed, NoObs, Unread, cluster
  <2> QED BY <2>4, <2>5
<1>13. CASE UNCHANGED vars
  BY <1>13 DEF vars, store, cluster, StoreServed, PodServed, ObsServed
<1> QED BY <1>1, <1>2, <1>3, <1>4, <1>5, <1>6, <1>7, <1>8, <1>9, <1>10, <1>11, <1>12,
           <1>13 DEF Next, Handlers, Collector, Outside, Process

\* restart_completed is recorded only for an operation whose marker a ready
\* runtime has carried, however late the reading is applied.
THEOREM CompletedServed == Spec => []CompletedMeansServed
<1>1. Served => CompletedMeansServed
  BY DEF Served, StoreServed, CompletedMeansServed
<1> QED BY <1>1, InitServed, SpecIInv, NextKeepsServed, PTL DEF Spec

\* Only a start request ends the parked state.
THEOREM ParkHolds == Spec => ParkEndsByStart
<1>1. ASSUME IInv, [Next]_vars, OperatorStopped(mem), ~OperatorStopped(mem')
      PROVE  lock.step = "started" \/ poisoned
  <2>1. mem \in Entries /\ disk \in Entries
    BY <1>1 DEF IInv, TypeOK
  <2>2. CASE StopClaim
    BY <1>1, <2>1, <2>2
    DEF StopClaim, Commit, Refuse, store, ParkedEntry, OperatorStopped, Stopped, Entries
  <2>3. CASE Dispatch
    <3>1. LET next == UncertainEntry(mem, lock.op)
          IN next.status = mem.status /\ next.source = mem.source
      BY <2>1 DEF UncertainEntry, Entries
    <3> QED BY <1>1, <2>3, <3>1 DEF Dispatch, OperatorStopped, Stopped, store
  <2>4. CASE CollectApply
    <3>1. Observed(mem, obs) = mem
      BY <1>1 DEF Observed
    <3> QED BY <1>1, <2>4, <3>1 DEF CollectApply, Commit, Refuse, store
  <2>5. CASE Crash \/ Relaunch
    <3>1. CASE poisoned
      BY <3>1
    <3>2. CASE ~poisoned
      <4>1. mem = disk /\ Consistent(mem)
        BY <1>1, <3>2 DEF IInv, TypeOK, ShownIsDurable
      <4>2. mem' = RecoveredEntry(mem)
        BY <2>5, <3>2, <4>1 DEF Crash, Relaunch, Restarted
      <4> QED BY <1>1, <2>1, <4>1, <4>2, RecoveredEntryGood
    <3> QED BY <3>1, <3>2
  <2>6. CASE RestartClaim \/ PressureClaim
    BY <1>1, <2>6 DEF RestartClaim, PressureClaim, OperatorStopped
  <2>7. CASE StartPersist
    BY <2>7 DEF StartPersist
  <2>8. CASE UNCHANGED mem
    BY <1>1, <2>8
  <2>9. CASE StopScale \/ StartBegin \/ StartScale \/ CollectRead \/ CollectStamp
               \/ CollectDrop \/ Outside \/ PoisonElsewhere
    <3>1. UNCHANGED mem
      BY <2>9 DEF StopScale, StartBegin, StartScale, CollectRead, CollectStamp,
         CollectDrop, Outside, LateEffect, PodStart, PodStop, ContainerRestart,
         PodReady, ScaleOutside, Tick, PoisonElsewhere, store
    <3> QED BY <2>8, <3>1
  <2> QED BY <1>1, <2>2, <2>3, <2>4, <2>5, <2>6, <2>7, <2>8, <2>9
      DEF Next, Handlers, Collector, Process, vars, store
<1> QED BY <1>1, SpecIInv, PTL DEF Spec, ParkEndsByStart
=============================================================================
