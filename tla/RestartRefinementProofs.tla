----------------------- MODULE RestartRefinementProofs -----------------------
(* RestartLifecycle implements RestartPromise, for every bound, timeout and *)
(* policy.  The mapping reads the outcomes off the memory of the store: a   *)
(* durable write the memory has not seen is one promised step ahead of it.  *)
EXTENDS RestartLifecycleProofs

\* One outcome changes as the promise allows, or none.
Steps(a, b) ==
  \/ b = a
  \/ \E op \in OpIds :
       /\ a[op] = "none" /\ \A other \in OpIds : a[other] # "requested"
       /\ b = [a EXCEPT ![op] = "requested"]
  \/ \E op \in OpIds, result \in {"completed", "failed"} :
       /\ a[op] = "requested"
       /\ b = [a EXCEPT ![op] = result]

\* The file is at most one promised step ahead of the memory.
FileAhead == Steps(mem.outcome, disk.outcome)

LEMMA UpdateSteps ==
  ASSUME ShownIsDurable, FileAhead, NEW next, Steps(mem.outcome, next.outcome),
         Commit(next) \/ Refuse(next)
  PROVE  FileAhead' /\ Steps(mem.outcome, mem'.outcome)
<1>1. Steps(mem.outcome, mem.outcome) /\ Steps(next.outcome, next.outcome)
  BY DEF Steps
<1>2. CASE Commit(next)
  BY <1>1, <1>2 DEF Commit, FileAhead
<1>3. CASE Refuse(next)
  BY <1>1, <1>3 DEF Refuse, FileAhead, store
<1> QED BY <1>2, <1>3

\* Reserving on an entry without a pending operation is a promised request.
LEMMA ReservedSteps ==
  ASSUME IInv, NEW s \in Entries, s.outcome = mem.outcome, ~Pending(mem),
         ops < MaxOps, NEW fence
  PROVE  Steps(mem.outcome, Reserved(s, ops + 1, fence).outcome)
<1>1. ops + 1 \in OpIds /\ ops + 1 > ops
  BY BoundsAssumption DEF IInv, TypeOK, OpIds
<1>2. mem.outcome[ops + 1] = "none"
  BY <1>1 DEF IInv, UnusedIds
<1>3. \A other \in OpIds : mem.outcome[other] # "requested"
  BY BoundsAssumption DEF IInv, Consistent, Pending, OpIds
<1>4. Reserved(s, ops + 1, fence).outcome = [mem.outcome EXCEPT ![ops + 1] = "requested"]
  BY DEF Reserved
<1> QED BY <1>1, <1>2, <1>3, <1>4 DEF Steps

LEMMA ObservedSteps ==
  ASSUME IInv, NEW o
  PROVE  /\ Steps(mem.outcome, Observed(mem, o).outcome)
         /\ ~Pending(mem) => Observed(mem, o).outcome = mem.outcome
<1> DEFINE seen == ObservedStatus(mem, o.read)
           x == mem.restart.id
<1>1. mem \in Entries
  BY DEF IInv, TypeOK
<1>2. seen \in [status : {mem.status, "stopped", o.read.status}, source : Sources,
                runtime : 0..MaxRuntimes, restart : Operations,
                outcome : [OpIds -> Outcomes]]
      /\ seen.outcome = mem.outcome /\ seen.restart = mem.restart
  BY <1>1 DEF ObservedStatus, Entries, Sources
<1> HIDE DEF seen
<1>3. Observed(mem, o) \in {mem, seen, [seen EXCEPT !.runtime = o.read.runtime]}
      \/ (Pending(seen) /\ Observed(mem, o) = CompletedEntry(seen, o.read))
      \/ (Pending(seen) /\ Observed(mem, o) = FailedEntry(seen))
  BY DEF Observed, Reconcile, seen
<1>4. Pending(seen) <=> Pending(mem)
  BY <1>2 DEF Pending
<1>5. CASE Observed(mem, o) \in {mem, seen, [seen EXCEPT !.runtime = o.read.runtime]}
  BY <1>2, <1>5 DEF Steps
<1>6. CASE Pending(mem) /\ Observed(mem, o) \in {CompletedEntry(seen, o.read), FailedEntry(seen)}
  <2>1. x \in OpIds /\ mem.outcome[x] = "requested"
    BY <1>1, <1>6, BoundsAssumption DEF Pending, Entries, Operations, OpIds, IInv, Consistent
  <2>2. \E result \in {"completed", "failed"} :
          Observed(mem, o).outcome = [mem.outcome EXCEPT ![x] = result]
    <3>1. /\ CompletedEntry(seen, o.read).outcome = [mem.outcome EXCEPT ![x] = "completed"]
          /\ FailedEntry(seen).outcome = [mem.outcome EXCEPT ![x] = "failed"]
      BY <1>2 DEF CompletedEntry, FailedEntry
    <3> QED BY <1>6, <3>1
  <2> QED BY <1>6, <2>1, <2>2 DEF Steps
<1> QED BY <1>3, <1>4, <1>5, <1>6

LEMMA InitPromised == Init => Promise!Init /\ FileAhead
<1> SUFFICES ASSUME Init PROVE Promise!Init /\ FileAhead
  OBVIOUS
<1>1. mem = disk /\ mem.outcome = [op \in OpIds |-> "none"]
  BY DEF Init, FirstEntry
<1>2. sent = [op \in OpIds |-> 0]
  BY DEF Init
<1> QED BY <1>1, <1>2 DEF Promise!Init, FileAhead, Steps

\* Every step moves the outcomes as promised; only Dispatch sends.
LEMMA NextSteps ==
  IInv /\ FileAhead /\ [Next]_vars =>
    /\ FileAhead'
    /\ Steps(mem.outcome, mem'.outcome)
    /\ \/ sent' = sent
       \/ Dispatch /\ mem'.outcome = mem.outcome
<1> SUFFICES ASSUME IInv, FileAhead, [Next]_vars
             PROVE  /\ FileAhead'
                    /\ Steps(mem.outcome, mem'.outcome)
                    /\ \/ sent' = sent
                       \/ Dispatch /\ mem'.outcome = mem.outcome
  OBVIOUS
<1>0. mem \in Entries /\ ShownIsDurable
  BY DEF IInv, TypeOK
<1>1. CASE StopClaim
  <2>1. ParkedEntry(mem).outcome = mem.outcome
    BY <1>0 DEF ParkedEntry, Entries
  <2> QED BY <1>0, <1>1, <2>1, UpdateSteps DEF StopClaim, Steps
<1>2. CASE StartPersist
  <2>1. StartedEntry(mem).outcome = mem.outcome
    BY <1>0 DEF StartedEntry, Entries
  <2> QED BY <1>0, <1>2, <2>1, UpdateSteps DEF StartPersist, Steps
<1>3. CASE RestartClaim
  <2>1. PICK fence \in Fences : \/ Commit(Reserved(mem, ops + 1, fence))
                                \/ Refuse(Reserved(mem, ops + 1, fence))
    BY <1>3 DEF RestartClaim
  <2>2. Steps(mem.outcome, Reserved(mem, ops + 1, fence).outcome)
    BY <1>0, <1>3, ReservedSteps DEF RestartClaim
  <2> QED BY <1>0, <1>3, <2>1, <2>2, UpdateSteps DEF RestartClaim
<1>4. CASE PressureClaim
  <2> DEFINE s == Observed(mem, obs)
  <2>1. obs \in Observations /\ ~Pending(mem) /\ ops < MaxOps
    BY <1>4 DEF PressureClaim, IInv, TypeOK, NoObs
  <2>2. s \in Entries /\ s.outcome = mem.outcome
    BY <1>0, <2>1, ObservedSteps, ObservedGood DEF IInv
  <2>3. PICK fence \in Fences : \/ Commit(Reserved(s, ops + 1, fence))
                                \/ Refuse(Reserved(s, ops + 1, fence))
    BY <1>4 DEF PressureClaim
  <2> HIDE DEF s
  <2>4. Steps(mem.outcome, Reserved(s, ops + 1, fence).outcome)
    BY <2>1, <2>2, ReservedSteps
  <2> QED BY <1>0, <1>4, <2>3, <2>4, UpdateSteps DEF PressureClaim
<1>5. CASE CollectApply
  BY <1>0, <1>5, ObservedSteps, UpdateSteps DEF CollectApply
<1>6. CASE Dispatch
  <2> DEFINE next == UncertainEntry(mem, lock.op)
  <2>1. next.outcome = mem.outcome
    BY <1>0 DEF UncertainEntry, Entries
  <2> HIDE DEF next
  <2>2. \/ UNCHANGED store
        \/ mem' = next /\ disk' = next
        \/ mem' = mem /\ disk' = next
    BY <1>6 DEF Dispatch, next, store
  <2>3. mem'.outcome = mem.outcome /\ disk'.outcome \in {mem.outcome, disk.outcome}
    BY <2>1, <2>2 DEF store
  <2> QED BY <1>6, <2>3 DEF FileAhead, Steps
<1>7. CASE Crash \/ Relaunch
  <2>1. Restarted
    BY <1>7 DEF Crash, Relaunch
  <2>2. PICK file \in {mem, disk} : mem' = RecoveredEntry(file) /\ disk' = RecoveredEntry(file)
    BY <2>1 DEF Restarted
  <2>3. RecoveredEntry(file).outcome = file.outcome /\ sent' = sent
    BY <2>1, <2>2, RecoveredEntryGood DEF Restarted, IInv, TypeOK
  <2> QED BY <2>2, <2>3 DEF FileAhead, Steps
<1>8. CASE UNCHANGED <<mem, disk, sent>>
  BY <1>8 DEF FileAhead, Steps
<1>9. CASE StopScale \/ StartBegin \/ StartScale \/ CollectRead \/ CollectStamp
             \/ CollectDrop \/ Outside \/ PoisonElsewhere \/ UNCHANGED vars
  <2>1. UNCHANGED <<mem, disk, sent>>
    BY <1>9 DEF StopScale, StartBegin, StartScale, CollectRead, CollectStamp,
       CollectDrop, Outside, LateEffect, PodStart, PodStop, ContainerRestart,
       PodReady, ScaleOutside, Tick, PoisonElsewhere, store, vars
  <2> QED BY <1>8, <2>1
<1> QED BY <1>1, <1>2, <1>3, <1>4, <1>5, <1>6, <1>7, <1>9
        DEF Next, Handlers, Collector, Process

LEMMA StepPromised == IInv /\ FileAhead /\ [Next]_vars => [Promise!Next]_(Promise!promise)
<1> SUFFICES ASSUME IInv, FileAhead, [Next]_vars
             PROVE  Promise!Next \/ UNCHANGED <<mem.outcome, sent>>
  BY DEF Promise!promise
<1>1. CASE sent' = sent /\ Steps(mem.outcome, mem'.outcome)
  BY <1>1 DEF Steps, Promise!Next, Promise!Request, Promise!End, Promise!Open
<1>2. CASE Dispatch /\ mem'.outcome = mem.outcome
  <2>1. lock.op \in OpIds /\ mem.outcome[lock.op] = "requested" /\ sent[lock.op] = 0
    BY <1>2 DEF Dispatch, IInv, Dispatching, Consistent
  <2>2. sent' = [sent EXCEPT ![lock.op] = 1]
    BY <1>2, <2>1 DEF Dispatch
  <2> QED BY <1>2, <2>1, <2>2 DEF Promise!Next, Promise!Send, Promise!Open
<1> QED BY <1>1, <1>2, NextSteps

\* Whatever handlers, observations, crashes and failed writes interleave, a
\* server's restart operations keep the promise of RestartPromise.
THEOREM LifecycleKeepsPromise == Spec => KeepsPromise
<1>1. IInv /\ FileAhead /\ [Next]_vars => FileAhead'
  BY NextSteps
<1> QED
  BY <1>1, InitPromised, SpecIInv, StepPromised, PTL DEF Spec, KeepsPromise, Promise!Spec
=============================================================================
