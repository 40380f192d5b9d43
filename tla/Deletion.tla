------------------------------- MODULE Deletion -------------------------------
(***************************************************************************)
(* Deletion of one server (deletion.go): the request that inspects the     *)
(* cluster and makes a receipt durable, the reconciler that removes what   *)
(* the receipt names one resource after the other, its deadline, retries   *)
(* and crashes, and other people who change the cluster meanwhile.         *)
(*                                                                         *)
(* Both hold lifecycleMu, so the store has one writer at a time here; the  *)
(* cluster has not.  An object is known by its UID: a resource deleted and *)
(* created again under the same name is another one.                       *)
(***************************************************************************)
EXTENDS Naturals

CONSTANTS
  Window,      \* deletionTimeout in ticks
  MaxUids,     \* bound: objects that succeed each other under one name
  MaxTime,     \* bound: the clock
  MaxRequests, \* bound: requests accepted
  MaxOutside,  \* bound: changes by others
  MaxFaults    \* bound: crashes, failed writes and calls

ASSUME DeletionAssumption ==
  /\ Window \in Nat \ {0} /\ MaxUids \in Nat \ {0} /\ MaxTime \in Nat
  /\ MaxRequests \in Nat /\ MaxOutside \in Nat /\ MaxFaults \in Nat

VARIABLES
  mem, disk, poisoned,  \* the store: memory, file, writeErr # nil
  lock,                 \* lifecycleMu: the step its holder takes next
  now,                  \* deletionNow
  objs,                 \* what is found under each name
  pods,                 \* Pods and ReplicaSets of the recorded Deployment
  consumer,             \* another workload references a planned resource
  site,                 \* who owns the Secret and the world claim
  requests, outside, faults,
  removed               \* observer: objects C2 had removed

store   == <<mem, disk, poisoned>>
cluster == <<objs, pods, consumer, site>>
others  == <<requests, outside>>
vars    == <<store, lock, now, cluster, others, faults, removed>>

-----------------------------------------------------------------------------
(* Helm's release storage, what the release installs, the world claim, the *)
(* claim of an uploaded save and the Secret C2 made.                       *)
Claims  == {"world", "seed"}
Objects == {"release", "workload", "secret"} \cup Claims
Modes   == {"keep", "purge"}

\* deletionPlan: the UID recorded for each, 0 for what is not to be touched.
Plans  == [Objects -> 0..MaxUids]
NoPlan == [o \in Objects |-> 0]

\* uid 0 is absent; ending: it has a deletion timestamp; bound: a claim is
\* Bound and nobody's dependent.
Absent(o) == objs[o].uid = 0
Is(o, uid) == objs[o].uid = uid

\* retainedWorld
Retained(o, uid) == Is(o, uid) /\ ~objs[o].ending /\ objs[o].bound

\* deletionRecord and the server's status; stage: no receipt, one to work
\* off, one completed.
Receipts == [stage: {"none", "open", "done"}, mode: Modes, plan: Plans,
             deadline: 0..MaxTime, status: {"up", "deleting", "stale", "gone"}]

Removals == {"check", "uninstall", "workload", "references", "world", "seed",
             "secret", "release"}
Following == [uninstall |-> "workload", workload |-> "references",
              references |-> "world", world |-> "seed", seed |-> "secret",
              secret |-> "release", release |-> "finished"]

\* plan, mode, deadline: the receipt about to be written; looked:
\* deleteIdentity has read the recorded UID and deletes next.
Locks == [step: {"accept", "finished", "failed"} \cup Removals,
          mode: Modes, plan: Plans, deadline: 0..MaxTime, looked: BOOLEAN]
Free == [step |-> "free", mode |-> "keep", plan |-> NoPlan, deadline |-> 0, looked |-> FALSE]
At(step) == [Free EXCEPT !.step = step]

Expired == now >= mem.deadline

-----------------------------------------------------------------------------
(* Store.Update, as in RestartLifecycle.                                   *)
Fault == faults < MaxFaults /\ faults' = faults + 1

Commit(next) ==
  /\ ~poisoned
  /\ mem' = next /\ disk' = next
  /\ UNCHANGED <<poisoned, faults>>

Refuse(next) ==
  \/ poisoned /\ UNCHANGED <<store, faults>>
  \/ /\ ~poisoned
     /\ Fault
     /\ \/ UNCHANGED <<disk, poisoned>>
        \/ disk' = next /\ poisoned' = TRUE
     /\ UNCHANGED mem

Update(next) == Commit(next) \/ Refuse(next)

-----------------------------------------------------------------------------
(* The requests.                                                           *)

RequestArrives == requests < MaxRequests /\ requests' = requests + 1

\* inspectDeletion: what is there is recorded, unless it cannot be told to
\* be the server's own.
Planned ==
  [o \in Objects |-> IF o = "secret" /\ ~site.owned THEN 0 ELSE objs[o].uid]

Inspect ==
  \E mode \in Modes :
    /\ lock = Free /\ ~poisoned
    /\ RequestArrives /\ now + Window <= MaxTime
    /\ mem.stage = "none"
    /\ ~Absent("release")
    /\ ~Absent("workload") /\ ~objs["workload"].ending
    /\ ~Absent("world") /\ Retained("world", objs["world"].uid)
    /\ mode = "purge" => ~site.external
    /\ ~consumer
    /\ lock' = [At("accept") EXCEPT !.mode = mode, !.plan = Planned, !.deadline = now + Window]
    /\ UNCHANGED <<store, now, cluster, outside, faults, removed>>

\* handleDelete: the receipt, durable before anything is removed.
Accept ==
  /\ lock.step = "accept"
  /\ Update([stage |-> "open", mode |-> lock.mode, plan |-> lock.plan,
             deadline |-> lock.deadline, status |-> "deleting"])
  /\ lock' = Free
  /\ UNCHANGED <<now, cluster, others, removed>>

\* handleDelete again, once the window is over: a new one for the same plan.
Retry ==
  /\ lock = Free /\ ~poisoned
  /\ RequestArrives /\ now + Window <= MaxTime
  /\ mem.stage = "open" /\ (mem.status # "stale" => Expired)
  /\ Update([mem EXCEPT !.deadline = now + Window, !.status = "deleting"])
  /\ UNCHANGED <<lock, now, cluster, outside, removed>>

-----------------------------------------------------------------------------
(* The reconciler.  Every call has a context that ends with the window.    *)

MarkStale(s) == [s EXCEPT !.status = "stale"]

ReconcileBegin ==
  /\ lock = Free /\ ~poisoned
  /\ mem.stage = "open" /\ mem.status # "stale"
  /\ IF Expired
       THEN Update(MarkStale(mem)) /\ UNCHANGED lock
       ELSE lock' = At("check") /\ UNCHANGED <<store, faults>>
  /\ UNCHANGED <<now, cluster, others, removed>>

\* A pass that finds nothing to do.
ReconcileNothing ==
  /\ lock = Free
  /\ poisoned \/ mem.stage # "open" \/ mem.status = "stale"
  /\ UNCHANGED vars

\* Mutant: calls have a deadline of their own only.
InTimeAlways == TRUE

InTime == ~Expired

\* A call fails, or its context has ended.
CallFails ==
  /\ lock.step \in Removals
  /\ IF Expired THEN UNCHANGED faults ELSE Fault
  /\ lock' = At("failed")
  /\ UNCHANGED <<store, now, cluster, others, removed>>

Plan == mem.plan
Keep == mem.mode = "keep"

\* checkDeletionReferences: nobody else uses what is planned and, once the
\* release is gone, what the Deployment owned is gone too.
Referenced(installed) == consumer \/ (~installed /\ pods)

\* Mutant: a purged world must still be there on a retry.
SafeToRemoveAgain ==
  LET installed == ~Absent("release")
  IN /\ \A o \in Objects : Plan[o] # 0 => Absent(o) \/ Is(o, Plan[o])
     /\ Retained("world", Plan["world"])
     /\ Keep /\ Plan["seed"] # 0 => Retained("seed", Plan["seed"])
     /\ ~Referenced(installed)

\* The checks removeServer makes before its first command.
SafeToRemove ==
  LET installed == ~Absent("release")
  IN /\ \A o \in Objects : Plan[o] # 0 => Absent(o) \/ Is(o, Plan[o])
     /\ installed \/ Keep \/ ~Absent("world") => Retained("world", Plan["world"])
     /\ Keep /\ Plan["seed"] # 0 => Retained("seed", Plan["seed"])
     /\ ~Referenced(installed)

Proceed == lock' = At(Following[lock.step])
GiveUp  == lock' = At("failed")

Check ==
  /\ lock.step = "check" /\ InTime
  /\ lock' = IF ~SafeToRemove THEN At("failed")
             ELSE IF Absent("release") THEN At("workload") ELSE At("uninstall")
  /\ UNCHANGED <<store, now, cluster, others, faults, removed>>

Gone(o)   == [objs[o] EXCEPT !.uid = 0, !.ending = FALSE]
Ending(o) == [objs[o] EXCEPT !.ending = TRUE]
Asked(o)  == IF Absent(o) THEN {} ELSE {<<o, objs[o].uid>>}

\* helm uninstall --wait --cascade=foreground: by name, and never a claim,
\* which inspection found marked to be kept.  If it fails, any part of it is
\* done.
Uninstall ==
  /\ lock.step = "uninstall" /\ InTime
  /\ \/ /\ objs' = [objs EXCEPT !["release"] = Gone("release"), !["workload"] = Gone("workload")]
        /\ pods' = FALSE
        /\ Proceed /\ UNCHANGED faults
     \/ /\ Fault
        /\ \E release \in {objs["release"], Gone("release")},
              workload \in {objs["workload"], Ending("workload"), Gone("workload")} :
             /\ ~Absent("workload") \/ workload = objs["workload"]
             /\ objs' = [objs EXCEPT !["release"] = release, !["workload"] = workload]
        /\ pods' \in {pods, FALSE}
        /\ GiveUp
  /\ removed' = removed \cup Asked("release") \cup Asked("workload")
  /\ UNCHANGED <<store, now, consumer, site, others>>

\* What a step deletes; a kept claim is looked at only.
Deletes == lock.step \in {"workload", "secret"} \/ (lock.step \in Claims /\ ~Keep)

\* deleteIdentity, up to its first answer.
Look ==
  LET o == lock.step
  IN /\ o \in Objects \ {"release"} /\ Deletes /\ ~lock.looked /\ InTime
     /\ IF Plan[o] = 0 \/ Absent(o) THEN Proceed
        ELSE IF Is(o, Plan[o]) THEN lock' = [lock EXCEPT !.looked = TRUE]
        ELSE GiveUp
     /\ UNCHANGED <<store, now, cluster, others, faults, removed>>

\* The DELETE has no effect on another UID.
DeleteWhen(possible) ==
  LET o == lock.step
  IN /\ lock.looked /\ InTime
     /\ IF possible
          THEN /\ \/ objs' = [objs EXCEPT ![o] = Gone(o)] /\ Proceed /\ UNCHANGED faults
                  \/ objs' = [objs EXCEPT ![o] = Ending(o)] /\ GiveUp /\ UNCHANGED faults
                  \/ objs' = [objs EXCEPT ![o] = Ending(o)] /\ GiveUp /\ Fault
               /\ removed' = removed \cup Asked(o)
          ELSE GiveUp /\ UNCHANGED <<objs, faults, removed>>
     /\ UNCHANGED <<store, now, pods, consumer, site, others>>

\* Mutants: without the UID as a precondition; without the look afterwards.
DeleteByName == DeleteWhen(~Absent(lock.step))
DeleteUnconfirmed ==
  LET o == lock.step
  IN /\ lock.looked /\ InTime
     /\ Is(o, Plan[o])
     /\ objs' = [objs EXCEPT ![o] = Ending(o)] /\ Proceed
     /\ removed' = removed \cup Asked(o)
     /\ UNCHANGED <<store, now, pods, consumer, site, others, faults>>

\* deleteIdentity: the DELETE with the recorded UID and the look afterwards.
Delete == DeleteWhen(Is(lock.step, Plan[lock.step]))

KeepClaim ==
  LET o == lock.step
  IN /\ o \in Claims /\ Keep /\ InTime
     /\ IF Plan[o] = 0 \/ Retained(o, Plan[o]) THEN Proceed ELSE GiveUp
     /\ UNCHANGED <<store, now, cluster, others, faults, removed>>

References ==
  /\ lock.step = "references" /\ InTime
  /\ IF Referenced(FALSE) THEN GiveUp ELSE Proceed
  /\ UNCHANGED <<store, now, cluster, others, faults, removed>>

ReleaseGone ==
  /\ lock.step = "release" /\ InTime
  /\ IF Absent("release") THEN Proceed ELSE GiveUp
  /\ UNCHANGED <<store, now, cluster, others, faults, removed>>

\* Mutant: the server stays in the inventory.
CompletedKept(s) == [s EXCEPT !.stage = "done"]

\* completeDeletion
Completed(s) == [s EXCEPT !.stage = "done", !.status = "gone"]

Finish ==
  /\ lock.step = "finished"
  /\ Update(IF Expired THEN MarkStale(mem) ELSE Completed(mem))
  /\ lock' = Free
  /\ UNCHANGED <<now, cluster, others, removed>>

\* Mutant: an error starts the window again.
FailedRenewed == [mem EXCEPT !.deadline = now + Window]

\* What an attempt that failed writes: its error, which is left out here,
\* or that the window is over.
Failed == IF Expired THEN MarkStale(mem) ELSE mem

Fail ==
  /\ lock.step = "failed"
  /\ Update(Failed)
  /\ lock' = Free
  /\ UNCHANGED <<now, cluster, others, removed>>

-----------------------------------------------------------------------------
(* The cluster (external), the clock and the process.                      *)

Vanish ==
  /\ \/ /\ \E o \in Objects : objs[o].ending /\ objs' = [objs EXCEPT ![o] = Gone(o)]
        /\ UNCHANGED pods
     \/ pods /\ Absent("workload") /\ pods' = FALSE /\ UNCHANGED objs
  /\ UNCHANGED <<store, lock, now, consumer, site, others, faults, removed>>

\* Helm knows only names: docs/server-deletion.md, "Operating constraints",
\* leaves the release alone while C2 works on it.
Replaceable(o) == lock.step \in {"check", "uninstall"} => o \notin {"release", "workload"}

OutsideChange ==
  /\ outside < MaxOutside /\ outside' = outside + 1
  /\ \/ /\ consumer' = ~consumer /\ UNCHANGED objs
     \/ \E o \in Objects :
          /\ Replaceable(o) /\ ~Absent(o) /\ UNCHANGED consumer
          /\ \/ objs' = [objs EXCEPT ![o] = Gone(o)]
             \/ /\ objs[o].uid < MaxUids
                /\ objs' = [objs EXCEPT ![o] = [uid |-> @.uid + 1, ending |-> FALSE, bound |-> TRUE]]
             \/ o \in Claims /\ objs' = [objs EXCEPT ![o].bound = ~@]
  /\ UNCHANGED <<store, lock, now, pods, site, requests, faults, removed>>

Tick ==
  /\ now < MaxTime /\ now' = now + 1
  /\ UNCHANGED <<store, lock, cluster, others, faults, removed>>

PoisonElsewhere ==
  /\ ~poisoned /\ Fault /\ poisoned' = TRUE
  /\ UNCHANGED <<mem, disk, lock, now, cluster, others, removed>>

\* NewStore.  A poisoned C2 is restarted without counting as a fault.
Restarted ==
  /\ mem' = disk /\ poisoned' = FALSE /\ lock' = Free
  /\ UNCHANGED <<disk, now, cluster, others, removed>>

Crash    == ~poisoned /\ Fault /\ Restarted
Relaunch == poisoned /\ Restarted /\ UNCHANGED faults

NoReceipt == [stage |-> "none", mode |-> "keep", plan |-> NoPlan, deadline |-> 0, status |-> "up"]

Init ==
  /\ mem = NoReceipt /\ disk = NoReceipt /\ poisoned = FALSE
  /\ lock = Free /\ now = 0
  /\ \E seed \in {0, 1} :
       objs = [o \in Objects |-> [uid |-> IF o = "seed" THEN seed ELSE 1,
                                  ending |-> FALSE, bound |-> TRUE]]
  /\ pods = TRUE /\ consumer = FALSE
  /\ site \in [owned: BOOLEAN, external: BOOLEAN]
  /\ requests = 0 /\ outside = 0 /\ faults = 0 /\ removed = {}

Removing == Check \/ Uninstall \/ Look \/ Delete \/ KeepClaim \/ References \/ ReleaseGone
Attempt  == ReconcileBegin \/ ReconcileNothing \/ Removing \/ CallFails \/ Finish \/ Fail

Next == Inspect \/ Accept \/ Retry \/ Attempt \/ Vanish \/ OutsideChange
          \/ Tick \/ PoisonElsewhere \/ Crash \/ Relaunch

Spec == Init /\ [][Next]_vars

(* The reconciler runs every five seconds, its calls have deadlines and so *)
(* the handler holding the lock finishes; time passes; a poisoned C2 is    *)
(* restarted.                                                              *)
FairSpec == Spec /\ WF_vars(Accept \/ Attempt) /\ WF_vars(Tick) /\ WF_vars(Relaunch)

-----------------------------------------------------------------------------
\* Every variable keeps its type, and the server's status says what its
\* receipt says.
TypeOK ==
  /\ {mem, disk} \subseteq Receipts /\ poisoned \in BOOLEAN
  /\ \A s \in {mem, disk} :
       /\ s.stage = "none" <=> s.status = "up"
       /\ s.stage = "done" <=> s.status = "gone"
  /\ lock \in Locks \cup {Free} /\ now \in 0..MaxTime
  /\ objs \in [Objects -> [uid: 0..MaxUids, ending: BOOLEAN, bound: BOOLEAN]]
  /\ pods \in BOOLEAN /\ consumer \in BOOLEAN
  /\ removed \subseteq Objects \X (1..MaxUids)

\* docs/server-deletion.md: whatever is created again meanwhile, C2 has only
\* removed what a receipt in the state file records, and claims only if it
\* says purge.
OnlyRecordedRemoved ==
  \A r \in removed :
    /\ disk.stage # "none" /\ disk.plan[r[1]] = r[2]
    /\ r[1] \in Claims => disk.mode = "purge"

\* A completed receipt tells the truth: everything it had to remove is gone.
CompletedIsClean ==
  \A o \in Objects :
    /\ mem.stage = "done" /\ mem.plan[o] # 0
    /\ o \in Claims => mem.mode = "purge"
    => ~Is(o, mem.plan[o])

\* However far an attempt got before it failed, was cut off or crashed, the
\* next one passes its checks, once what is terminating is gone, if nobody
\* else has changed anything.
Resumable ==
  mem.stage = "open" /\ outside = 0 /\ ~pods /\ (\A o \in Objects : ~objs[o].ending)
    => SafeToRemove

\* Nothing more is removed after the window, or of a stale deletion, until
\* the request is repeated.
StopsAtDeadline ==
  [][removed' # removed => mem.status = "deleting" /\ now < mem.deadline]_vars

\* A deletion that was accepted completes, or is marked stale.
DeletionEnds == mem.status = "deleting" ~> mem.status # "deleting"
=============================================================================
