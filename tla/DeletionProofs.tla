---------------------------- MODULE DeletionProofs ----------------------------
(***************************************************************************)
(* Theorems about Deletion: that only what a receipt records is removed,   *)
(* in its window only, that a completed receipt tells the truth, and that  *)
(* an attempt can be repeated, for any number of objects that succeed each *)
(* other, requests, changes by others and faults.                          *)
(***************************************************************************)
EXTENDS Deletion, TLAPS

-----------------------------------------------------------------------------
(* The inductive invariant                                                 *)

Entries == [uid: 0..MaxUids, ending: BOOLEAN, bound: BOOLEAN]

Types ==
  /\ mem \in Receipts /\ disk \in Receipts /\ poisoned \in BOOLEAN
  /\ lock \in Locks \cup {Free} /\ now \in 0..MaxTime
  /\ objs \in [Objects -> Entries]
  /\ pods \in BOOLEAN /\ consumer \in BOOLEAN
  /\ outside \in Nat
  /\ removed \subseteq Objects \X (1..MaxUids)

\* A status is its receipt's, and a receipt that is made names what
\* inspection insists on.
ReceiptGood(s) ==
  /\ s.stage = "none" <=> s.status = "up"
  /\ s.stage = "done" <=> s.status = "gone"
  /\ s.stage # "none" => \A o \in {"release", "workload", "world"} : s.plan[o] # 0

\* The file is memory, or ahead of it; never does a receipt change its plan.
Durable ==
  /\ ~poisoned => mem = disk
  /\ mem.stage # "none" =>
       disk.stage # "none" /\ disk.plan = mem.plan /\ disk.mode = mem.mode

\* An object under a name is the recorded one or a later one.
NotReborn(plan) == \A o \in Objects : plan[o] # 0 => Absent(o) \/ objs[o].uid >= plan[o]

\* What a receipt s has to remove is gone.
Cleared(s, o) ==
  s.plan[o] # 0 /\ (o \in Claims => s.mode = "purge") => ~Is(o, s.plan[o])
ClearedAll(s) == \A o \in Objects : Cleared(s, o)
Truthful == \A s \in {mem, disk} : s.stage = "done" => ClearedAll(s)

\* What the holder of the lock has done and relies on.
Holder ==
  LET step == lock.step
  IN /\ step = "accept" =>
          /\ mem.stage = "none"
          /\ \A o \in {"release", "workload", "world"} : lock.plan[o] # 0
     /\ step \in Removals \cup {"finished", "failed"} =>
          mem.stage = "open" /\ mem.status = "deleting"
     /\ step = "uninstall" =>
          \A o \in {"release", "workload"} : Absent(o) \/ Is(o, mem.plan[o])
     /\ step \in {"workload", "references", "world", "seed", "secret", "release", "finished"} =>
          Absent("release")
     /\ step \in {"references", "world", "seed", "secret", "release", "finished"} =>
          Cleared(mem, "workload")
     /\ step \in {"seed", "secret", "release", "finished"} => Cleared(mem, "world")
     /\ step \in {"secret", "release", "finished"} => Cleared(mem, "seed")
     /\ step \in {"release", "finished"} => Cleared(mem, "secret")
     /\ lock.looked =>
          /\ step \in Objects \ {"release"}
          /\ step \in Claims => mem.mode = "purge"

\* While nobody else has changed anything, an object is the recorded one or
\* gone, and a claim goes only when it is purged and the release is gone.
Undisturbed ==
  outside = 0 =>
    /\ ~consumer
    /\ \A o \in Objects :
         /\ objs[o].bound
         /\ \A plan \in {disk.plan, lock.plan} :
              plan[o] # 0 => Absent(o) \/ Is(o, plan[o])
    /\ \A o \in Claims :
         \/ objs[o].ending
         \/ Absent(o) /\ (disk.plan[o] # 0 \/ lock.plan[o] # 0)
         => disk.stage # "none" /\ disk.mode = "purge" /\ Absent("release")

IInv ==
  /\ Types /\ ReceiptGood(mem) /\ ReceiptGood(disk) /\ Durable
  /\ NotReborn(disk.plan) /\ NotReborn(lock.plan)
  /\ Truthful /\ Holder /\ Undisturbed /\ OnlyRecordedRemoved

-----------------------------------------------------------------------------
(* The store and the lock                                                  *)

LEMMA Bounds ==
  /\ Window \in Nat /\ MaxUids \in Nat \ {0} /\ MaxTime \in Nat /\ 0 \in 0..MaxUids
BY DeletionAssumption

LEMMA AtFacts ==
  ASSUME NEW step \in {"accept", "finished", "failed"} \cup Removals
  PROVE  /\ At(step).step = step /\ At(step).plan = NoPlan /\ ~At(step).looked
         /\ At(step) \in Locks
<1>1. NoPlan \in Plans /\ "keep" \in Modes /\ 0 \in 0..MaxTime
  BY Bounds DEF NoPlan, Plans, Modes
<1>2. Free \in [step: {"free"}, mode: Modes, plan: Plans, deadline: 0..MaxTime, looked: BOOLEAN]
  BY <1>1 DEF Free
<1>3. At(step).step = step /\ At(step).plan = NoPlan /\ ~At(step).looked
  BY <1>2 DEF At, Free
<1>4. At(step) \in Locks
  BY <1>2 DEF At, Locks
<1> QED BY <1>3, <1>4

LEMMA FreeFacts == Free.step = "free" /\ Free.plan = NoPlan /\ ~Free.looked
BY DEF Free

LEMMA NoPlanFacts == \A o \in Objects : NoPlan[o] = 0
BY DEF NoPlan

LEMMA FollowingFacts ==
  /\ Following["uninstall"] = "workload" /\ Following["workload"] = "references"
  /\ Following["references"] = "world" /\ Following["world"] = "seed"
  /\ Following["seed"] = "secret" /\ Following["secret"] = "release"
  /\ Following["release"] = "finished"
BY DEF Following

LEMMA UpdateFacts ==
  ASSUME Durable, NEW next, Update(next)
  PROVE  /\ \/ mem' = mem /\ disk' = disk
            \/ mem' = mem /\ disk' = next
            \/ mem' = next /\ disk' = next
         /\ poisoned => mem' = mem /\ disk' = disk
         /\ ~poisoned' => mem' = disk'
BY DEF Durable, Update, Commit, Refuse, store

\* A receipt that is rewritten keeps its plan.
LEMMA Rewritten ==
  ASSUME IInv, NEW next \in Receipts, Update(next), poisoned' \in BOOLEAN,
         mem.stage = "open", next.stage \in {"open", "done"},
         next.plan = mem.plan, next.mode = mem.mode,
         ReceiptGood(next), next.stage = "done" => ClearedAll(next), objs' = objs
  PROVE  /\ mem' \in Receipts /\ disk' \in Receipts
         /\ ReceiptGood(mem)' /\ ReceiptGood(disk)' /\ Durable' /\ Truthful'
         /\ disk'.plan = disk.plan /\ disk'.mode = disk.mode
         /\ disk'.stage # "none" /\ disk.stage # "none"
<1>1. /\ mem \in Receipts /\ disk \in Receipts /\ ReceiptGood(mem) /\ ReceiptGood(disk)
      /\ Durable /\ Truthful /\ disk.plan = mem.plan /\ disk.mode = mem.mode
      /\ disk.stage # "none"
  BY DEF IInv, Types, Durable
<1>2. /\ mem' \in {mem, next} /\ disk' \in {disk, next} /\ (~poisoned' => mem' = disk')
  BY <1>1, UpdateFacts
<1>3. ReceiptGood(mem)' /\ ReceiptGood(disk)'
  BY <1>1, <1>2 DEF ReceiptGood
<1>4. Durable'
  BY <1>1, <1>2 DEF Durable
<1>5. Truthful'
  <2>1. ASSUME NEW s \in {mem, disk, next}, s.stage = "done" PROVE ClearedAll(s)
    BY <1>1, <2>1 DEF Truthful
  <2>2. ASSUME NEW s, ClearedAll(s) PROVE ClearedAll(s)'
    BY <2>2 DEF ClearedAll, Cleared, Is
  <2> QED BY <1>2, <2>1, <2>2 DEF Truthful
<1> QED BY <1>1, <1>2, <1>3, <1>4, <1>5

\* Receipts are written with what the lock and the store hold.
LEMMA WrittenFacts ==
  ASSUME IInv
  PROVE  /\ lock.step = "accept" =>
              [stage |-> "open", mode |-> lock.mode, plan |-> lock.plan,
               deadline |-> lock.deadline, status |-> "deleting"] \in Receipts
         /\ now + Window <= MaxTime =>
              [mem EXCEPT !.deadline = now + Window, !.status = "deleting"] \in Receipts
         /\ MarkStale(mem) \in Receipts /\ Completed(mem) \in Receipts /\ Failed \in Receipts
<1>1. mem \in Receipts /\ lock \in Locks \cup {Free} /\ now \in 0..MaxTime
  BY DEF IInv, Types
<1>2. lock.step = "accept" =>
        [stage |-> "open", mode |-> lock.mode, plan |-> lock.plan,
         deadline |-> lock.deadline, status |-> "deleting"] \in Receipts
  BY <1>1, FreeFacts DEF Locks, Receipts
<1>3. now + Window <= MaxTime => now + Window \in 0..MaxTime
  BY <1>1, Bounds
<1> QED BY <1>1, <1>2, <1>3 DEF MarkStale, Completed, Failed, Receipts

\* What a step may do to the receipt, in memory and in the file.
LEMMA StoreStep ==
  ASSUME IInv, Next
  PROVE  /\ mem' \in Receipts /\ disk' \in Receipts /\ poisoned' \in BOOLEAN
         /\ ReceiptGood(mem)' /\ ReceiptGood(disk)' /\ Durable'
         /\ disk.stage # "none" =>
              disk'.stage # "none" /\ disk'.plan = disk.plan /\ disk'.mode = disk.mode
         /\ disk.stage = "none" /\ disk' # disk =>
              Accept /\ disk'.plan = lock.plan /\ disk'.stage = "open"
         /\ \A s \in {mem', disk'} : s.stage = "done" =>
              s \in {mem, disk} \/ (Finish /\ ClearedAll(s))
<1>1. /\ mem \in Receipts /\ disk \in Receipts /\ poisoned \in BOOLEAN
      /\ lock \in Locks \cup {Free} /\ now \in 0..MaxTime
      /\ ReceiptGood(mem) /\ ReceiptGood(disk) /\ Durable /\ Holder
  BY DEF IInv, Types
<1>2. ASSUME UNCHANGED <<mem, disk>>, poisoned' \in BOOLEAN, ~poisoned' => mem = disk
      PROVE  /\ ReceiptGood(mem)' /\ ReceiptGood(disk)' /\ Durable'
  BY <1>1, <1>2 DEF ReceiptGood, Durable
<1>3. CASE Accept
  <2> DEFINE next == [stage |-> "open", mode |-> lock.mode, plan |-> lock.plan,
                      deadline |-> lock.deadline, status |-> "deleting"]
  <2>1. Update(next) /\ lock.step = "accept"
    BY <1>3 DEF Accept
  <2>2. next \in Receipts
    BY <2>1, WrittenFacts
  <2>3. next.stage = "open" /\ next.plan = lock.plan /\ next.mode = lock.mode /\ next.status = "deleting"
    OBVIOUS
  <2>4. mem.stage = "none" /\ ReceiptGood(next)
    BY <1>1, <2>1, <2>3 DEF Holder, ReceiptGood
  <2> HIDE DEF next
  <2>5. poisoned' \in BOOLEAN
    BY <1>1, <2>1 DEF Update, Commit, Refuse, store
  <2>6. /\ mem' \in {mem, next} /\ disk' \in {disk, next} /\ (~poisoned' => mem' = disk')
        /\ (mem' = next => disk' = next) /\ (poisoned => mem' = mem /\ disk' = disk)
    BY <1>1, <2>1, <2>3, <2>4, UpdateFacts
  <2>7. ReceiptGood(mem)' /\ ReceiptGood(disk)'
    BY <1>1, <2>4, <2>6 DEF ReceiptGood
  <2>8. Durable'
    BY <2>4, <2>6 DEF Durable
  <2>9. disk.stage # "none" => disk' = disk
    BY <1>1, <2>4, <2>6 DEF Durable
  <2> QED BY <1>1, <1>3, <2>2, <2>3, <2>5, <2>6, <2>7, <2>8, <2>9
<1>4. CASE Retry
  <2> DEFINE next == [mem EXCEPT !.deadline = now + Window, !.status = "deleting"]
  <2>1. Update(next) /\ next \in Receipts /\ mem.stage = "open" /\ objs' = objs
    BY <1>4, WrittenFacts DEF Retry, cluster
  <2>2. /\ next.stage = "open" /\ next.plan = mem.plan /\ next.mode = mem.mode
        /\ next.status = "deleting"
    BY <1>1, <2>1 DEF Receipts
  <2> HIDE DEF next
  <2>3. ReceiptGood(next) /\ poisoned' \in BOOLEAN
    BY <1>1, <2>1, <2>2 DEF ReceiptGood, Update, Commit, Refuse, store
  <2>4. \A s \in {mem', disk'} : s \in {mem, disk, next}
    BY <1>1, <2>1, UpdateFacts
  <2> QED BY <2>1, <2>2, <2>3, <2>4, Rewritten
<1>5. ASSUME NEW next, Update(next), next \in {MarkStale(mem), Failed}, mem.stage = "open",
             mem.status \in {"deleting", "stale"}, objs' = objs
      PROVE  /\ mem' \in Receipts /\ disk' \in Receipts /\ poisoned' \in BOOLEAN
             /\ ReceiptGood(mem)' /\ ReceiptGood(disk)' /\ Durable'
             /\ disk'.stage # "none" /\ disk.stage # "none"
             /\ disk'.plan = disk.plan /\ disk'.mode = disk.mode
             /\ \A s \in {mem', disk'} : s.stage = "done" => s \in {mem, disk}
  <2>1. /\ next.stage = "open" /\ next.plan = mem.plan /\ next.mode = mem.mode
        /\ next.status \in {"deleting", "stale"} /\ next \in Receipts
    BY <1>1, <1>5, WrittenFacts DEF Receipts, MarkStale, Failed
  <2>2. ReceiptGood(next) /\ poisoned' \in BOOLEAN
    BY <1>1, <1>5, <2>1 DEF ReceiptGood, Update, Commit, Refuse, store
  <2>3. \A s \in {mem', disk'} : s \in {mem, disk, next}
    BY <1>1, <1>5, UpdateFacts
  <2> QED BY <1>5, <2>1, <2>2, <2>3, Rewritten
<1>6. mem.stage = "open" => mem.status \in {"deleting", "stale"}
  BY <1>1 DEF ReceiptGood, Receipts
<1>7. CASE ReconcileBegin /\ Expired
  BY <1>5, <1>6, <1>7 DEF ReconcileBegin, cluster
<1>8. CASE Fail
  BY <1>1, <1>5, <1>6, <1>8 DEF Fail, cluster, Holder
<1>9. CASE Finish
  <2>1. mem.stage = "open" /\ lock.step = "finished" /\ objs' = objs
    BY <1>1, <1>9 DEF Finish, cluster, Holder
  <2>2. CASE Expired
    BY <1>5, <1>6, <1>9, <2>1, <2>2 DEF Finish
  <2>3. CASE ~Expired
    <3> DEFINE next == Completed(mem)
    <3>1. Update(next) /\ next \in Receipts
      BY <1>9, <2>3, WrittenFacts DEF Finish
    <3>2. /\ next.stage = "done" /\ next.plan = mem.plan /\ next.mode = mem.mode
          /\ next.status = "gone"
      BY <1>1 DEF Receipts, Completed
    <3> HIDE DEF next
    <3>3. ReceiptGood(next) /\ poisoned' \in BOOLEAN
      BY <1>1, <2>1, <3>1, <3>2 DEF ReceiptGood, Update, Commit, Refuse, store
    <3>4. ClearedAll(next)
      <4>1. ASSUME NEW o \in Objects PROVE Cleared(mem, o)
        BY <1>1, <2>1 DEF Holder, Objects, Claims, Cleared, Absent, Is
      <4> QED BY <3>2, <4>1 DEF ClearedAll, Cleared
    <3>5. \A s \in {mem', disk'} : s \in {mem, disk, next}
      BY <1>1, <3>1, UpdateFacts
    <3> QED BY <1>9, <2>1, <3>1, <3>2, <3>3, <3>4, <3>5, Rewritten
  <2> QED BY <2>2, <2>3
<1>10. CASE Crash \/ Relaunch
  BY <1>1, <1>10 DEF Crash, Relaunch, Restarted, ReceiptGood, Durable
<1>11. CASE UNCHANGED store \/ PoisonElsewhere
  BY <1>1, <1>2, <1>11 DEF store, PoisonElsewhere, Durable
<1>12. Accept \/ Retry \/ (ReconcileBegin /\ Expired) \/ Fail \/ Finish \/ Crash \/ Relaunch
         \/ UNCHANGED store \/ PoisonElsewhere
  BY DEF Next, Attempt, Removing, Inspect, ReconcileBegin, ReconcileNothing, Check, Uninstall,
         Look, Delete, DeleteWhen, KeepClaim, References, ReleaseGone, CallFails, Vanish,
         OutsideChange, Tick, vars, store
<1> QED BY <1>1, <1>3, <1>4, <1>7, <1>8, <1>9, <1>10, <1>11, <1>12,
           <1>5, <1>6

-----------------------------------------------------------------------------
(* The cluster                                                             *)

\* What a step does to an object: nothing, mark it as ending, remove it, and,
\* by others only, replace it or unbind it.
LEMMA ObjectStep ==
  ASSUME IInv, Next, NEW o \in Objects, objs'[o] # objs[o]
  PROVE  /\ Uninstall \/ Delete \/ Vanish \/ OutsideChange
         /\ OutsideChange \/ objs'[o] \in {Gone(o), Ending(o)}
         /\ objs'[o] \in Entries
         /\ objs'[o].uid = 0 \/ (~Absent(o) /\ objs'[o].uid >= objs[o].uid)
<1>1. objs \in [Objects -> Entries] /\ lock \in Locks \cup {Free} /\ MaxUids \in Nat
  BY Bounds DEF IInv, Types
<1>2. /\ Gone(o) \in Entries /\ Gone(o).uid = 0
      /\ Ending(o) \in Entries /\ Ending(o).uid = objs[o].uid
  BY <1>1, Bounds DEF Gone, Ending, Entries
<1>3. CASE Uninstall
  <2>1. objs'[o] = Gone(o) \/ (objs'[o] = Ending(o) /\ ~Absent(o))
    BY <1>1, <1>3 DEF Uninstall, Objects
  <2> QED BY <1>1, <1>2, <1>3, <2>1 DEF Entries
<1>4. CASE Delete
  <2>1. objs'[o] = Gone(o) \/ (objs'[o] = Ending(o) /\ o = lock.step)
    BY <1>1, <1>4 DEF Delete, DeleteWhen
  <2>2. objs'[o].uid = 0 \/ ~Absent(o)
    BY <1>1, <1>2, <2>1 DEF Absent
  <2> QED BY <1>1, <1>2, <1>4, <2>1, <2>2 DEF Entries
<1>5. CASE Vanish
  <2>1. objs'[o] = Gone(o)
    BY <1>1, <1>5 DEF Vanish
  <2> QED BY <1>2, <1>5, <2>1
<1>6. CASE OutsideChange
  <2>1. PICK q \in Objects :
          /\ ~Absent(q)
          /\ \/ objs' = [objs EXCEPT ![q] = Gone(q)]
             \/ /\ objs[q].uid < MaxUids
                /\ objs' = [objs EXCEPT ![q] = [uid |-> @.uid + 1, ending |-> FALSE, bound |-> TRUE]]
             \/ q \in Claims /\ objs' = [objs EXCEPT ![q].bound = ~@]
    BY <1>1, <1>6 DEF OutsideChange
  <2>2. q = o
    BY <1>1, <2>1
  <2>3. CASE objs' = [objs EXCEPT ![q] = Gone(q)]
    BY <1>1, <1>2, <1>6, <2>2, <2>3
  <2>4. CASE /\ objs[q].uid < MaxUids
             /\ objs' = [objs EXCEPT ![q] = [uid |-> @.uid + 1, ending |-> FALSE, bound |-> TRUE]]
    <3>1. objs'[o] = [uid |-> objs[o].uid + 1, ending |-> FALSE, bound |-> TRUE]
      BY <1>1, <2>2, <2>4
    <3>2. objs[o].uid \in 0..MaxUids
      BY <1>1 DEF Entries
    <3> QED BY <1>1, <1>6, <2>1, <2>2, <2>4, <3>1, <3>2 DEF Entries
  <2>5. CASE objs' = [objs EXCEPT ![q].bound = ~@]
    <3>1. objs'[o] = [objs[o] EXCEPT !.bound = ~objs[o].bound]
      BY <1>1, <2>2, <2>5
    <3>2. objs'[o] \in Entries /\ objs'[o].uid = objs[o].uid /\ objs[o].uid \in 0..MaxUids
      BY <1>1, <3>1 DEF Entries
    <3> QED BY <1>1, <1>6, <2>1, <2>2, <3>2
  <2> QED BY <2>1, <2>3, <2>4, <2>5
<1>7. Uninstall \/ Delete \/ Vanish \/ OutsideChange
  BY DEF Next, Attempt, Removing, Inspect, Accept, Retry, ReconcileBegin, ReconcileNothing, Check,
         Look, KeepClaim, References, ReleaseGone, CallFails, Finish, Fail, Tick, PoisonElsewhere,
         Crash, Relaunch, Restarted, vars, cluster
<1> QED BY <1>3, <1>4, <1>5, <1>6, <1>7

\* Which steps leave what alone.
LEMMA Untouched ==
  ASSUME IInv, Next
  PROVE  /\ objs' # objs => Uninstall \/ Delete \/ Vanish \/ OutsideChange
         /\ removed' # removed => Uninstall \/ Delete
         /\ UNCHANGED <<outside, consumer>> \/ OutsideChange
         /\ now' # now => Tick
         /\ pods' # pods => Uninstall \/ Vanish
         /\ lock' # lock =>
              \/ Inspect \/ Accept \/ ReconcileBegin \/ Removing \/ CallFails \/ Finish \/ Fail
              \/ Crash \/ Relaunch
         /\ mem' # mem => Accept \/ Retry \/ ReconcileBegin \/ Finish \/ Fail \/ Crash \/ Relaunch
BY DEF Next, Attempt, Removing, Inspect, Accept, Retry, ReconcileBegin, ReconcileNothing, Check,
       Uninstall, Look, Delete, DeleteWhen, KeepClaim, References, ReleaseGone, CallFails, Finish,
       Fail, Vanish, OutsideChange, Tick, PoisonElsewhere, Crash, Relaunch, Restarted, vars, store,
       cluster, others

LEMMA TypesStep ==
  ASSUME IInv, Next
  PROVE  Types'
<1>1. /\ Types /\ objs \in [Objects -> Entries] /\ lock \in Locks \cup {Free} /\ now \in 0..MaxTime
      /\ removed \subseteq Objects \X (1..MaxUids) /\ mem \in Receipts /\ outside \in Nat
      /\ pods \in BOOLEAN /\ consumer \in BOOLEAN
  BY DEF IInv, Types
<1>2. mem' \in Receipts /\ disk' \in Receipts /\ poisoned' \in BOOLEAN
  BY StoreStep
<1>3. objs' \in [Objects -> Entries]
  <2>1. ASSUME NEW o \in Objects PROVE objs'[o] \in Entries
    BY <1>1, ObjectStep
  <2>2. objs' = [o \in Objects |-> objs'[o]]
    BY <1>1, Untouched DEF Uninstall, Delete, DeleteWhen, Vanish, OutsideChange
  <2> QED BY <2>1, <2>2
<1>4. lock' \in Locks \cup {Free}
  <2>1. CASE Inspect
    <3>1. PICK mode \in Modes :
            lock' = [At("accept") EXCEPT !.mode = mode, !.plan = Planned, !.deadline = now + Window]
      BY <2>1 DEF Inspect
    <3>2. Planned \in Plans
      BY <1>1, Bounds DEF Planned, Plans, Entries
    <3>3. now + Window \in 0..MaxTime
      BY <1>1, <2>1, Bounds DEF Inspect
    <3>4. At("accept") \in Locks
      BY AtFacts
    <3> QED BY <3>1, <3>2, <3>3, <3>4 DEF Locks
  <2>2. CASE Accept \/ Finish \/ Fail \/ Crash \/ Relaunch
    BY <2>2 DEF Accept, Finish, Fail, Crash, Relaunch, Restarted
  <2>3. CASE ReconcileBegin \/ CallFails
    BY <1>1, <2>3, AtFacts DEF ReconcileBegin, CallFails, Removals
  <2>4. CASE Removing
    <3>1. ASSUME Proceed, lock.step \in Removals \ {"check"} PROVE lock' \in Locks
      BY <3>1, FollowingFacts, AtFacts DEF Proceed, Removals
    <3>2. ASSUME GiveUp PROVE lock' \in Locks
      BY <3>2, AtFacts DEF GiveUp
    <3>3. CASE Check \/ Uninstall
      BY <2>4, <3>1, <3>2, <3>3, AtFacts DEF Check, Uninstall, Removals
    <3>4. CASE Look
      <4>1. lock \in Locks
        BY <1>1, <3>4, FreeFacts DEF Look, Objects, Claims
      <4>2. [lock EXCEPT !.looked = TRUE] \in Locks
        BY <4>1 DEF Locks
      <4>3. lock.step \in Removals \ {"check"}
        BY <3>4 DEF Look, Objects, Claims, Removals
      <4> QED BY <3>1, <3>2, <3>4, <4>2, <4>3 DEF Look
    <3>5. CASE Delete
      <4>1. lock.step \in Removals \ {"check"}
        BY <3>5 DEF Delete, DeleteWhen, IInv, Holder, Objects, Claims, Removals
      <4> QED BY <3>1, <3>2, <3>5, <4>1 DEF Delete, DeleteWhen
    <3>6. CASE KeepClaim \/ References \/ ReleaseGone
      <4>1. lock.step \in Removals \ {"check"}
        BY <3>6 DEF KeepClaim, References, ReleaseGone, Claims, Removals
      <4> QED BY <3>1, <3>2, <3>6, <4>1 DEF KeepClaim, References, ReleaseGone
    <3> QED BY <2>4, <3>3, <3>4, <3>5, <3>6 DEF Removing
  <2> QED BY <1>1, <2>1, <2>2, <2>3, <2>4, Untouched
<1>5. now' \in 0..MaxTime
  BY <1>1, Bounds, Untouched DEF Tick
<1>6. pods' \in BOOLEAN
  BY <1>1, Untouched DEF Uninstall, Vanish
<1>7. consumer' \in BOOLEAN /\ outside' \in Nat
  <2>1. OutsideChange => outside' = outside + 1 /\ consumer' \in BOOLEAN
    BY <1>1, Zenon DEF OutsideChange
  <2> QED BY <1>1, <2>1, Untouched
<1>8. removed' \subseteq Objects \X (1..MaxUids)
  <2>1. ASSUME NEW o \in Objects PROVE Asked(o) \subseteq Objects \X (1..MaxUids)
    BY <1>1, Bounds DEF Asked, Absent, Entries
  <2>2. CASE Uninstall
    BY <1>1, <2>1, <2>2 DEF Uninstall, Objects
  <2>3. CASE Delete
    <3>1. lock.step \in Objects
      BY <2>3 DEF Delete, DeleteWhen, IInv, Holder
    <3> QED BY <1>1, <2>1, <2>3, <3>1 DEF Delete, DeleteWhen
  <2> QED BY <1>1, <2>2, <2>3, Untouched
<1> QED BY <1>2, <1>3, <1>4, <1>5, <1>6, <1>7, <1>8 DEF Types

-----------------------------------------------------------------------------
(* What is gone stays gone                                                 *)

\* Where the recorded object is not found, it is not found later.
LEMMA StaysGone ==
  ASSUME IInv, Next, NEW o \in Objects, NEW u \in Nat \ {0}
  PROVE  /\ Absent(o) \/ objs[o].uid >= u => objs'[o].uid = 0 \/ objs'[o].uid >= u
         /\ Absent(o) => objs'[o].uid = 0
         /\ ~Is(o, u) /\ (Absent(o) \/ objs[o].uid >= u) => objs'[o].uid # u
<1>1. objs[o] \in Entries /\ objs'[o] \in Entries
  BY TypesStep DEF IInv, Types
<1>2. objs[o].uid \in Nat /\ objs'[o].uid \in Nat
  BY <1>1, Bounds DEF Entries
<1>3. objs'[o] = objs[o] \/ objs'[o].uid = 0 \/ (~Absent(o) /\ objs'[o].uid >= objs[o].uid)
  BY ObjectStep
<1> QED BY <1>2, <1>3 DEF Absent, Is

LEMMA PlanTypes ==
  ASSUME IInv
  PROVE  /\ disk.plan \in Plans /\ mem.plan \in Plans /\ lock.plan \in Plans
         /\ \A plan \in Plans : \A o \in Objects : plan[o] \in Nat
<1>1. mem \in Receipts /\ disk \in Receipts /\ lock \in Locks \cup {Free}
  BY DEF IInv, Types
<1>2. NoPlan \in Plans
  BY Bounds DEF NoPlan, Plans
<1> QED BY <1>1, <1>2, FreeFacts, Bounds DEF Receipts, Locks, Plans

LEMMA LockPlan ==
  ASSUME IInv, Next
  PROVE  \/ lock'.plan = lock.plan
         \/ \A o \in Objects : lock'.plan[o] = 0
         \/ Inspect /\ lock'.plan = Planned
<1>1. lock \in Locks \cup {Free} /\ Holder
  BY DEF IInv, Types
<1>2. CASE Inspect
  <2>1. PICK mode \in Modes :
          lock' = [At("accept") EXCEPT !.mode = mode, !.plan = Planned, !.deadline = now + Window]
    BY <1>2 DEF Inspect
  <2>2. lock'.plan = Planned
    BY <2>1, AtFacts DEF Locks
  <2> QED BY <1>2, <2>2
<1>3. CASE Accept \/ Finish \/ Fail \/ Crash \/ Relaunch
  BY <1>3, FreeFacts, NoPlanFacts DEF Accept, Finish, Fail, Crash, Relaunch, Restarted
<1>4. ASSUME NEW step, lock' = At(step) PROVE lock'.plan = NoPlan
  BY <1>4 DEF At, Free
<1>5. CASE ReconcileBegin \/ CallFails
  BY <1>4, <1>5, NoPlanFacts DEF ReconcileBegin, CallFails
<1>6. CASE Removing
  <2>1. lock.looked => lock \in Locks
    BY <1>1, FreeFacts
  <2>2. CASE Look
    <3>1. lock \in Locks
      BY <1>1, <2>2, FreeFacts DEF Look, Objects, Claims
    <3>2. lock' = [lock EXCEPT !.looked = TRUE] => lock'.plan = lock.plan
      BY <3>1 DEF Locks
    <3> QED BY <1>4, <2>2, <3>2, NoPlanFacts DEF Look, Proceed, GiveUp
  <2> QED BY <1>4, <1>6, <2>2, NoPlanFacts
          DEF Removing, Check, Uninstall, Delete, DeleteWhen, KeepClaim, References, ReleaseGone,
              Proceed, GiveUp
<1> QED BY <1>2, <1>3, <1>5, <1>6, Untouched

LEMMA NotRebornStep ==
  ASSUME IInv, Next
  PROVE  NotReborn(disk.plan)' /\ NotReborn(lock.plan)'
<1>1. NotReborn(disk.plan) /\ NotReborn(lock.plan) /\ objs \in [Objects -> Entries]
  BY DEF IInv, Types
<1>2. ASSUME NEW plan \in Plans, NotReborn(plan), NEW o \in Objects, plan[o] # 0
      PROVE  objs'[o].uid = 0 \/ objs'[o].uid >= plan[o]
  BY <1>2, StaysGone, PlanTypes DEF NotReborn
<1>3. disk'.plan = disk.plan \/ disk'.plan = lock.plan
  BY StoreStep
<1>4. NotReborn(disk.plan)'
  BY <1>1, <1>2, <1>3, PlanTypes DEF NotReborn, Absent
<1>5. Inspect => objs' = objs /\ \A o \in Objects : Planned[o] \in {0, objs[o].uid}
  BY DEF Inspect, Planned, cluster
<1>6. \A o \in Objects : objs[o].uid \in Nat
  BY <1>1, Bounds DEF Entries
<1>7. NotReborn(lock.plan)'
  BY <1>1, <1>2, <1>5, <1>6, LockPlan, PlanTypes DEF NotReborn, Absent
<1> QED BY <1>4, <1>7

LEMMA ClearedStep ==
  ASSUME IInv, Next, NEW s \in {mem, disk}, s.stage # "none", NEW o \in Objects, Cleared(s, o),
         NEW t, t.plan = s.plan, t.mode = s.mode
  PROVE  t.plan[o] # 0 /\ (o \in Claims => t.mode = "purge") => objs'[o].uid # t.plan[o]
<1>1. s.plan = disk.plan /\ s.plan \in Plans
  BY PlanTypes DEF IInv, Durable
<1>2. s.plan[o] # 0 => Absent(o) \/ objs[o].uid >= s.plan[o]
  BY <1>1 DEF IInv, NotReborn
<1> QED BY <1>1, <1>2, StaysGone, PlanTypes DEF Cleared

LEMMA TruthfulStep ==
  ASSUME IInv, Next
  PROVE  Truthful'
<1>1. ASSUME NEW s \in {mem', disk'}, s.stage = "done", NEW o \in Objects,
             s.plan[o] # 0, o \in Claims => s.mode = "purge"
      PROVE  objs'[o].uid # s.plan[o]
  <2>1. CASE s \in {mem, disk}
    <3>1. Cleared(s, o)
      BY <1>1, <2>1 DEF IInv, Truthful, ClearedAll
    <3> QED BY <1>1, <2>1, <3>1, ClearedStep
  <2>2. CASE Finish /\ ClearedAll(s)
    BY <1>1, <2>2 DEF Finish, cluster, ClearedAll, Cleared, Is
  <2> QED BY <1>1, <2>1, <2>2, StoreStep
<1> QED BY <1>1 DEF Truthful, ClearedAll, Cleared, Is

-----------------------------------------------------------------------------
(* The holder of the lock                                                  *)

\* While the lock is held for a removal, the receipt stays as it is.
LEMMA HeldFacts ==
  ASSUME IInv, lock.step \in Removals \cup {"finished", "failed"}
  PROVE  /\ mem \in Receipts /\ mem.stage = "open" /\ mem.status = "deleting"
         /\ disk.stage # "none" /\ disk.plan = mem.plan /\ disk.mode = mem.mode
         /\ mem.plan \in Plans /\ mem.mode \in Modes
         /\ \A o \in {"release", "workload", "world"} : mem.plan[o] # 0
BY PlanTypes DEF IInv, Types, Holder, Durable, ReceiptGood, Receipts

LEMMA FreeHolder ==
  ASSUME lock' = Free
  PROVE  Holder'
BY FreeFacts DEF Holder, Removals

LEMMA FailedHolder ==
  ASSUME mem' = mem, mem.stage = "open", mem.status = "deleting", lock' = At("failed")
  PROVE  Holder'
<1>1. lock'.step = "failed" /\ ~lock'.looked
  BY AtFacts
<1> QED BY <1>1 DEF Holder

\* An attempt goes on when what its step removes is gone.
LEMMA ProceedHolder ==
  ASSUME IInv, Next, mem' = mem, lock.step \in Removals \ {"check"}, Proceed,
         objs'["release"].uid = 0,
         lock.step \in {"workload", "world", "seed", "secret"} =>
           (mem.plan[lock.step] # 0 /\ (lock.step \in Claims => mem.mode = "purge")
              => objs'[lock.step].uid # mem.plan[lock.step])
  PROVE  Holder'
<1>1. mem.stage = "open" /\ mem.status = "deleting" /\ Holder
  BY HeldFacts DEF IInv
<1>2. /\ lock'.step = Following[lock.step] /\ ~lock'.looked
      /\ Following[lock.step] \in Removals \cup {"finished"}
  BY FollowingFacts, AtFacts DEF Proceed, Removals
<1>3. ASSUME NEW o \in Objects, Cleared(mem, o) PROVE Cleared(mem, o)'
  BY <1>1, <1>3, ClearedStep DEF Cleared, Is
<1>4. \A o \in {"workload", "world", "seed", "secret"} : lock.step = o => Cleared(mem, o)'
  BY DEF Cleared, Is
<1>5. Absent("release")'
  BY DEF Absent
<1>6. "workload" \in Objects /\ "world" \in Objects /\ "seed" \in Objects /\ "secret" \in Objects
  BY DEF Objects, Claims
<1>7. CASE lock.step \in {"uninstall", "workload", "references"}
  BY <1>1, <1>2, <1>3, <1>4, <1>5, <1>6, <1>7, FollowingFacts DEF Holder
<1>8. CASE lock.step \in {"world", "seed"}
  BY <1>1, <1>2, <1>3, <1>4, <1>5, <1>6, <1>8, FollowingFacts DEF Holder
<1>9. CASE lock.step \in {"secret", "release"}
  BY <1>1, <1>2, <1>3, <1>4, <1>5, <1>6, <1>9, FollowingFacts DEF Holder
<1> QED BY <1>7, <1>8, <1>9 DEF Removals

LEMMA RemovingHolder ==
  ASSUME IInv, Next, Removing
  PROVE  Holder'
<1>1. lock.step \in Removals /\ mem' = mem
  BY DEF Removing, Check, Uninstall, Look, Delete, DeleteWhen, KeepClaim, References, ReleaseGone,
         store, IInv, Holder, Removals, Objects, Claims
<1>2. /\ mem.stage = "open" /\ mem.status = "deleting" /\ mem.plan \in Plans
      /\ mem.mode \in Modes /\ \A o \in {"release", "workload", "world"} : mem.plan[o] # 0
  BY <1>1, HeldFacts
<1>3. Holder /\ objs \in [Objects -> Entries]
  BY DEF IInv, Types
<1>4. GiveUp => Holder'
  BY <1>1, <1>2, FailedHolder DEF GiveUp
<1>5. lock.step \in {"workload", "references", "world", "seed", "secret", "release"} =>
        Absent("release") /\ objs'["release"].uid = 0
  BY <1>3, StaysGone, Bounds DEF Holder, Objects
<1>6. CASE Check
  <2>1. objs' = objs
    BY <1>6 DEF Check, cluster
  <2>2. CASE lock' = At("failed")
    BY <1>1, <1>2, <2>2, FailedHolder
  <2>3. CASE Absent("release") /\ lock' = At("workload")
    <3>1. lock'.step = "workload" /\ ~lock'.looked /\ Absent("release")'
      BY <2>1, <2>3, AtFacts DEF Absent, Removals
    <3> QED BY <1>1, <1>2, <3>1 DEF Holder
  <2>4. CASE SafeToRemove /\ lock' = At("uninstall")
    <3>1. lock'.step = "uninstall" /\ ~lock'.looked
      BY <2>4, AtFacts DEF Removals
    <3>2. \A o \in {"release", "workload"} : (Absent(o) \/ Is(o, mem.plan[o]))'
      BY <1>1, <1>2, <2>1, <2>4 DEF SafeToRemove, Absent, Is, Plan, Objects
    <3> QED BY <1>1, <1>2, <3>1, <3>2 DEF Holder
  <2> QED BY <1>6, <2>2, <2>3, <2>4 DEF Check
<1>7. CASE Uninstall
  <2>1. CASE Proceed /\ objs' = [objs EXCEPT !["release"] = Gone("release"), !["workload"] = Gone("workload")]
    <3>1. objs'["release"].uid = 0
      BY <1>3, <2>1 DEF Gone, Objects, Entries
    <3> QED BY <1>1, <1>7, <2>1, <3>1, ProceedHolder DEF Uninstall, Removals
  <2> QED BY <1>4, <1>7, <2>1 DEF Uninstall
<1>8. CASE Look
  <2>1. lock.step \in {"workload", "world", "seed", "secret"} /\ objs' = objs
    BY <1>8 DEF Look, Objects, Claims, cluster
  <2>2. CASE Proceed /\ (mem.plan[lock.step] = 0 \/ Absent(lock.step))
    BY <1>1, <1>5, <2>1, <2>2, ProceedHolder DEF Absent, Removals
  <2>3. CASE lock' = [lock EXCEPT !.looked = TRUE]
    <3>1. lock \in Locks
      BY <2>1, FreeFacts DEF IInv, Types
    <3>2. lock'.step = lock.step /\ lock'.plan = lock.plan
      BY <2>3, <3>1 DEF Locks
    <3>3. lock.step \in Claims => mem.mode = "purge"
      BY <1>2, <1>8, <2>1 DEF Look, Deletes, Keep, Modes, Claims
    <3>4. Holder => Holder'
      BY <1>1, <2>1, <3>2, <3>3 DEF Holder, Absent, Is, Cleared, Objects, Claims
    <3> QED BY <1>3, <3>4
  <2> QED BY <1>4, <1>8, <2>2, <2>3 DEF Look, Plan
<1>9. CASE Delete
  <2>1. lock.step \in {"workload", "world", "seed", "secret"}
    BY <1>3, <1>9 DEF Delete, DeleteWhen, Holder, Objects, Claims
  <2>2. CASE Proceed /\ objs' = [objs EXCEPT ![lock.step] = Gone(lock.step)]
    <3>1. objs'[lock.step].uid = 0
      BY <1>3, <2>1, <2>2 DEF Gone, Objects, Claims, Entries
    <3> QED BY <1>1, <1>5, <2>1, <2>2, <3>1, ProceedHolder DEF Removals
  <2> QED BY <1>4, <1>9, <2>2 DEF Delete, DeleteWhen
<1>10. CASE KeepClaim
  <2>1. lock.step \in {"world", "seed"} /\ mem.mode = "keep"
    BY <1>10 DEF KeepClaim, Claims, Keep
  <2>2. Proceed => Holder'
    BY <1>1, <1>5, <2>1, ProceedHolder DEF Removals, Claims
  <2> QED BY <1>4, <1>10, <2>2 DEF KeepClaim
<1>11. CASE References \/ ReleaseGone
  <2>1. lock.step \in {"references", "release"}
    BY <1>11 DEF References, ReleaseGone
  <2>2. Proceed => Holder'
    BY <1>1, <1>5, <2>1, ProceedHolder DEF Removals
  <2> QED BY <1>4, <1>11, <2>2 DEF References, ReleaseGone
<1> QED BY <1>6, <1>7, <1>8, <1>9, <1>10, <1>11 DEF Removing

LEMMA HolderStep ==
  ASSUME IInv, Next
  PROVE  Holder'
<1>1. /\ Holder /\ ReceiptGood(mem) /\ mem \in Receipts /\ lock \in Locks \cup {Free}
      /\ objs \in [Objects -> Entries]
  BY DEF IInv, Types
<1>2. CASE Removing
  BY <1>2, RemovingHolder
<1>3. CASE Inspect
  <2>1. PICK mode \in Modes :
          lock' = [At("accept") EXCEPT !.mode = mode, !.plan = Planned, !.deadline = now + Window]
    BY <1>3 DEF Inspect
  <2>2. lock'.step = "accept" /\ lock'.plan = Planned /\ ~lock'.looked
    BY <2>1, AtFacts DEF Locks
  <2>3. mem' = mem /\ mem.stage = "none"
    BY <1>3 DEF Inspect, store
  <2>4. \A o \in {"release", "workload", "world"} : Planned[o] # 0
    BY <1>3 DEF Inspect, Planned, Absent, Objects, Claims
  <2> QED BY <2>2, <2>3, <2>4 DEF Holder, Removals
<1>4. CASE Accept \/ Finish \/ Fail \/ Crash \/ Relaunch
  BY <1>4, FreeHolder DEF Accept, Finish, Fail, Crash, Relaunch, Restarted
<1>5. CASE ReconcileBegin
  <2>1. CASE lock' = Free
    BY <2>1, FreeHolder
  <2>2. CASE lock' = At("check") /\ mem' = mem
    <3>1. lock'.step = "check" /\ ~lock'.looked
      BY <2>2, AtFacts DEF Removals
    <3>2. mem.stage = "open" /\ mem.status = "deleting"
      BY <1>1, <1>5 DEF ReconcileBegin, ReceiptGood, Receipts
    <3> QED BY <2>2, <3>1, <3>2 DEF Holder
  <2> QED BY <1>5, <2>1, <2>2 DEF ReconcileBegin, store
<1>6. CASE CallFails
  BY <1>6, FailedHolder, HeldFacts DEF CallFails, store
<1>7. CASE lock' = lock /\ mem' = mem
  <2>1. CASE lock = Free
    BY <1>7, <2>1, FreeHolder
  <2>2. CASE lock # Free
    <3>1. ASSUME NEW o \in Objects, Absent(o) PROVE Absent(o)'
      BY <3>1, StaysGone, Bounds DEF Absent
    <3>2. ASSUME NEW o \in Objects, Cleared(mem, o), mem.stage = "open" PROVE Cleared(mem, o)'
      BY <1>7, <3>2, ClearedStep DEF Cleared, Is
    <3>3. ASSUME lock.step = "uninstall", NEW o \in {"release", "workload"}
          PROVE  (Absent(o) \/ Is(o, mem.plan[o]))'
      <4>1. o \in Objects /\ (Absent(o) \/ Is(o, mem.plan[o]))
        BY <1>1, <3>3 DEF Holder, Objects
      <4>2. CASE objs'[o] = objs[o]
        BY <1>7, <4>1, <4>2 DEF Absent, Is
      <4>3. CASE objs'[o] # objs[o]
        <5>1. ~OutsideChange
          <6>1. ASSUME OutsideChange
                PROVE  \E q \in Objects : Replaceable(q) /\ \A i \in Objects \ {q} : objs'[i] = objs[i]
            BY <1>1, <4>3, <6>1 DEF OutsideChange
          <6> QED BY <3>3, <4>1, <4>3, <6>1 DEF Replaceable
        <5>2. objs'[o] \in {Gone(o), Ending(o)}
          BY <4>1, <4>3, <5>1, ObjectStep
        <5> QED BY <1>1, <1>7, <4>1, <5>2 DEF Absent, Is, Gone, Ending, Entries
      <4> QED BY <4>2, <4>3
    <3> QED BY <1>1, <1>7, <3>1, <3>2, <3>3 DEF Holder, Objects, Claims, Removals
  <2> QED BY <2>1, <2>2
<1>8. CASE Retry
  BY <1>8, FreeHolder DEF Retry
<1> QED BY <1>2, <1>3, <1>4, <1>5, <1>6, <1>7, <1>8, Untouched

-----------------------------------------------------------------------------
(* What is removed, and what is left alone                                 *)

LEMMA RemovedStep ==
  ASSUME IInv, Next
  PROVE  OnlyRecordedRemoved'
<1>1. OnlyRecordedRemoved /\ objs \in [Objects -> Entries] /\ Holder
  BY DEF IInv, Types
<1>2. ASSUME NEW r \in removed
      PROVE  /\ disk'.stage # "none" /\ disk'.plan[r[1]] = r[2]
             /\ r[1] \in Claims => disk'.mode = "purge"
  BY <1>1, <1>2, StoreStep DEF OnlyRecordedRemoved
<1>3. ASSUME NEW r \in removed', r \notin removed
      PROVE  /\ disk'.stage # "none" /\ disk'.plan[r[1]] = r[2]
             /\ r[1] \in Claims => disk'.mode = "purge"
  <2>1. CASE Uninstall
    <3>1. PICK o \in {"release", "workload"} : r \in Asked(o)
      BY <1>3, <2>1 DEF Uninstall
    <3>2. r = <<o, objs[o].uid>> /\ ~Absent(o)
      BY <3>1 DEF Asked
    <3>3. lock.step = "uninstall" /\ disk' = disk
      BY <2>1 DEF Uninstall, store
    <3>4. Is(o, mem.plan[o]) /\ disk.plan = mem.plan /\ disk.stage # "none"
      BY <1>1, <3>1, <3>2, <3>3, HeldFacts DEF Holder, Removals
    <3>5. r[1] = o /\ r[2] = objs[o].uid /\ o \notin Claims
      BY <3>1, <3>2 DEF Claims
    <3> QED BY <3>3, <3>4, <3>5 DEF Is
  <2>2. CASE Delete
    <3> DEFINE o == lock.step
    <3>1. r \in Asked(o) /\ Is(o, mem.plan[o]) /\ lock.looked /\ disk' = disk
      BY <1>3, <2>2 DEF Delete, DeleteWhen, store, Plan
    <3>2. r = <<o, objs[o].uid>>
      BY <3>1 DEF Asked
    <3>3. o \in Removals /\ (o \in Claims => mem.mode = "purge")
      BY <1>1, <3>1 DEF Holder, Objects, Claims, Removals
    <3>4. disk.plan = mem.plan /\ disk.stage # "none" /\ disk.mode = mem.mode
      BY <3>3, HeldFacts
    <3>5. r[1] = o /\ r[2] = objs[o].uid
      BY <3>2
    <3> QED BY <3>1, <3>3, <3>4, <3>5 DEF Is
  <2> QED BY <1>3, <2>1, <2>2, Untouched
<1> QED BY <1>2, <1>3 DEF OnlyRecordedRemoved

\* A claim is removed when the release is gone and the receipt says so.
LEMMA ClaimStep ==
  ASSUME IInv, Next, ~OutsideChange, NEW o \in Claims, objs'[o] # objs[o]
  PROVE  \/ objs[o].ending
         \/ disk.stage # "none" /\ disk.mode = "purge" /\ Absent("release")
<1>1. objs \in [Objects -> Entries] /\ Holder /\ o \in Objects
  BY DEF IInv, Types, Objects
<1>2. CASE Uninstall
  BY <1>1, <1>2 DEF Uninstall, Claims
<1>3. CASE Delete
  <2>1. lock.step = o /\ lock.looked
    BY <1>1, <1>3 DEF Delete, DeleteWhen
  <2>2. lock.step \in Removals /\ mem.mode = "purge" /\ Absent("release")
    BY <1>1, <2>1 DEF Holder, Claims, Removals
  <2> QED BY <2>2, HeldFacts
<1>4. CASE Vanish
  BY <1>1, <1>4 DEF Vanish
<1> QED BY <1>1, <1>2, <1>3, <1>4, ObjectStep

LEMMA UndisturbedStep ==
  ASSUME IInv, Next
  PROVE  Undisturbed'
<1> SUFFICES ASSUME outside' = 0
             PROVE  /\ ~consumer'
                    /\ \A o \in Objects :
                         /\ objs'[o].bound
                         /\ \A plan \in {disk'.plan, lock'.plan} :
                              plan[o] # 0 => objs'[o].uid = 0 \/ objs'[o].uid = plan[o]
                    /\ \A o \in Claims :
                         \/ objs'[o].ending
                         \/ objs'[o].uid = 0 /\ (disk'.plan[o] # 0 \/ lock'.plan[o] # 0)
                         => disk'.stage # "none" /\ disk'.mode = "purge" /\ objs'["release"].uid = 0
  BY DEF Undisturbed, Absent, Is
<1>1. ~OutsideChange /\ outside = 0 /\ consumer' = consumer
  BY Untouched DEF OutsideChange, IInv, Types
<1>2. /\ ~consumer /\ objs \in [Objects -> Entries]
      /\ \A o \in Objects :
           /\ objs[o].bound
           /\ \A plan \in {disk.plan, lock.plan} : plan[o] # 0 => objs[o].uid = 0 \/ objs[o].uid = plan[o]
      /\ \A o \in Claims :
           \/ objs[o].ending
           \/ objs[o].uid = 0 /\ (disk.plan[o] # 0 \/ lock.plan[o] # 0)
           => disk.stage # "none" /\ disk.mode = "purge" /\ objs["release"].uid = 0
  BY <1>1 DEF IInv, Types, Undisturbed, Absent, Is
<1>3. ASSUME NEW o \in Objects
      PROVE  objs'[o].bound /\ (objs'[o].uid = 0 \/ objs'[o].uid = objs[o].uid)
  <2>1. objs'[o] \in {objs[o], Gone(o), Ending(o)}
    BY <1>1, ObjectStep
  <2> QED BY <1>2, <2>1 DEF Gone, Ending, Entries
<1>4. /\ disk'.plan = disk.plan \/ disk'.plan = lock.plan
      /\ disk.stage # "none" => disk'.stage # "none" /\ disk'.mode = disk.mode
  BY StoreStep
<1>5. \/ lock'.plan = lock.plan
      \/ \A o \in Objects : lock'.plan[o] = 0
      \/ objs' = objs /\ \A o \in Objects : lock'.plan[o] \in {0, objs[o].uid}
  BY LockPlan DEF Inspect, Planned, cluster
<1>6. ASSUME NEW o \in Objects
      PROVE  /\ objs'[o].bound
             /\ \A plan \in {disk'.plan, lock'.plan} :
                  plan[o] # 0 => objs'[o].uid = 0 \/ objs'[o].uid = plan[o]
  BY <1>2, <1>3, <1>4, <1>5
<1>7. ASSUME NEW o \in Claims,
             \/ objs'[o].ending
             \/ objs'[o].uid = 0 /\ (disk'.plan[o] # 0 \/ lock'.plan[o] # 0)
      PROVE  disk'.stage # "none" /\ disk'.mode = "purge" /\ objs'["release"].uid = 0
  <2>1. o \in Objects /\ "release" \in Objects
    BY DEF Objects
  <2>2. objs["release"].uid = 0 => objs'["release"].uid = 0
    BY <1>3, <2>1
  <2>3. CASE objs'[o] # objs[o]
    BY <1>1, <1>2, <1>4, <2>2, <2>3, ClaimStep DEF Absent
  <2>4. CASE objs'[o] = objs[o]
    BY <1>2, <1>4, <1>5, <1>7, <2>1, <2>2, <2>4
  <2> QED BY <2>3, <2>4
<1> QED BY <1>1, <1>2, <1>6, <1>7

-----------------------------------------------------------------------------
(* The theorems                                                            *)

LEMMA InitIInv == Init => IInv
<1> SUFFICES ASSUME Init PROVE IInv
  OBVIOUS
<1>1. mem = NoReceipt /\ disk = NoReceipt /\ lock = Free
  BY DEF Init
<1>2. NoReceipt \in Receipts /\ NoReceipt.stage = "none" /\ NoReceipt.plan = NoPlan /\ NoReceipt.status = "up"
  BY Bounds DEF NoReceipt, Receipts, NoPlan, Plans, Modes
<1>3. PICK seed \in {0, 1} :
        objs = [o \in Objects |-> [uid |-> IF o = "seed" THEN seed ELSE 1,
                                   ending |-> FALSE, bound |-> TRUE]]
  BY DEF Init
<1>4. objs \in [Objects -> Entries] /\ \A o \in Objects : objs[o].bound /\ ~objs[o].ending
  BY <1>3, Bounds DEF Entries
<1>5. Types
  <2>1. poisoned \in BOOLEAN /\ pods \in BOOLEAN /\ consumer \in BOOLEAN
    BY Zenon DEF Init
  <2>2. now = 0 /\ outside = 0 /\ removed = {}
    BY DEF Init
  <2> QED BY <1>1, <1>2, <1>4, <2>1, <2>2, Bounds DEF Types
<1>6. ReceiptGood(mem) /\ ReceiptGood(disk) /\ Durable /\ Truthful
  BY <1>1, <1>2 DEF ReceiptGood, Durable, Truthful
<1>7. NotReborn(disk.plan) /\ NotReborn(lock.plan)
  BY <1>1, <1>2, FreeFacts, NoPlanFacts DEF NotReborn
<1>8. Holder
  BY <1>1, FreeFacts DEF Holder, Removals
<1>9. Undisturbed
  <2>1. ~consumer
    BY Zenon DEF Init
  <2>2. \A o \in Objects : disk.plan[o] = 0 /\ lock.plan[o] = 0
    BY <1>1, <1>2, FreeFacts, NoPlanFacts
  <2> QED BY <1>4, <2>1, <2>2 DEF Undisturbed, Objects
<1>10. OnlyRecordedRemoved
  BY DEF Init, OnlyRecordedRemoved
<1> QED BY <1>5, <1>6, <1>7, <1>8, <1>9, <1>10 DEF IInv

LEMMA NextIInv == IInv /\ [Next]_vars => IInv'
<1>1. ASSUME IInv, Next PROVE IInv'
  BY <1>1, TypesStep, StoreStep, NotRebornStep, TruthfulStep, HolderStep, UndisturbedStep,
     RemovedStep DEF IInv
<1>2. ASSUME IInv, UNCHANGED vars PROVE IInv'
  BY <1>2 DEF vars, store, cluster, others, IInv, Types, ReceiptGood, Durable, NotReborn, Truthful,
         ClearedAll, Cleared, Holder, Undisturbed, OnlyRecordedRemoved, Absent, Is
<1> QED BY <1>1, <1>2

\* In every reachable state the receipt in memory and in the file, the step of
\* the holder of the lock and what is left in the cluster agree.
THEOREM InvariantHolds == Spec => []IInv
BY InitIInv, NextIInv, PTL DEF Spec

\* Every variable keeps its type, and the status of a server is its receipt's.
THEOREM TypeCorrect == Spec => []TypeOK
<1>1. IInv => TypeOK
  BY DEF IInv, Types, ReceiptGood, Entries, TypeOK
<1> QED BY <1>1, InvariantHolds, PTL

\* C2 has removed nothing but what the receipt in the file records.
THEOREM RemovesTheRecorded == Spec => []OnlyRecordedRemoved
<1>1. IInv => OnlyRecordedRemoved
  BY DEF IInv
<1> QED BY <1>1, InvariantHolds, PTL

\* When a receipt is completed, everything it had to remove is gone.
THEOREM CompletedTruthfully == Spec => []CompletedIsClean
<1>1. IInv => CompletedIsClean
  BY DEF IInv, Truthful, ClearedAll, Cleared, CompletedIsClean
<1> QED BY <1>1, InvariantHolds, PTL

\* An attempt that was cut off anywhere passes its checks the next time.
THEOREM AttemptsResume == Spec => []Resumable
<1>1. ASSUME IInv, mem.stage = "open", outside = 0, ~pods, \A o \in Objects : ~objs[o].ending
      PROVE  SafeToRemove
  <2>1. /\ disk.stage # "none" /\ disk.plan = mem.plan /\ disk.mode = mem.mode
        /\ mem.plan["world"] # 0 /\ mem.mode \in Modes
    BY <1>1 DEF IInv, Types, Durable, ReceiptGood, Receipts
  <2>2. \A o \in Objects : objs[o].bound /\ (Plan[o] # 0 => Absent(o) \/ Is(o, Plan[o]))
    BY <1>1, <2>1 DEF IInv, Undisturbed, Plan
  <2>3. \A o \in Claims : Plan[o] # 0 /\ Absent(o) => ~Keep /\ Absent("release")
    BY <1>1, <2>1 DEF IInv, Undisturbed, Plan, Keep
  <2>4. \A o \in Claims : Plan[o] # 0 /\ ~Absent(o) => Retained(o, Plan[o])
    BY <1>1, <2>2 DEF Retained, Objects
  <2>5. ~Referenced(~Absent("release"))
    BY <1>1 DEF Referenced, IInv, Undisturbed
  <2> QED BY <2>1, <2>2, <2>3, <2>4, <2>5 DEF SafeToRemove, Plan, Claims
<1>2. IInv => Resumable
  BY <1>1 DEF Resumable
<1> QED BY <1>2, InvariantHolds, PTL

\* Nothing is removed after the window, or of a stale deletion.
THEOREM DeadlineStops == Spec => StopsAtDeadline
<1>1. ASSUME IInv, [Next]_vars, removed' # removed
      PROVE  mem.status = "deleting" /\ now < mem.deadline
  <2>1. Uninstall \/ Delete
    BY <1>1, Untouched DEF vars
  <2>2. InTime /\ lock.step \in Removals
    BY <1>1, <2>1 DEF Uninstall, Delete, DeleteWhen, IInv, Holder, Removals, Objects, Claims
  <2>3. mem.status = "deleting" /\ mem.deadline \in Nat /\ now \in Nat
    BY <1>1, <2>2, HeldFacts, Bounds DEF IInv, Types, Receipts
  <2> QED BY <2>2, <2>3 DEF InTime, Expired
<1>2. IInv /\ [Next]_vars => [removed' # removed => mem.status = "deleting" /\ now < mem.deadline]_vars
  BY <1>1
<1> QED BY <1>2, InvariantHolds, PTL DEF Spec, StopsAtDeadline
=============================================================================
