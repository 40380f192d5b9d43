--------------------------- MODULE BackupRunsProofs ---------------------------
(***************************************************************************)
(* Theorems about BackupRuns: that a run shown as succeeded can be         *)
(* restored, that an occurrence of a schedule is run once, that a run      *)
(* shown as running is held, and that an interrupted one has left nothing, *)
(* for any schedules, backends, retentions and numbers of runs, edits and  *)
(* faults.                                                                 *)
(***************************************************************************)
EXTENDS BackupRuns, TLAPS

-----------------------------------------------------------------------------
(* The inductive invariant                                                 *)

Stores == [runs : [Runs -> RunRecords], schedules : [Schedules -> ScheduleRecords]]
Jobs ==
  [step : {"idle", "scan", "publish", "complete", "fail", "reject", "prune", "pruning"},
   key : Keys, schedule : Schedules \cup {Nothing}, backend : Backends, run : 0..MaxRuns,
   manifest : BOOLEAN, doomed : SUBSET Runs, pruned : SUBSET Runs, todo : SUBSET Requests]
Erasers == [step : {"idle", "remove", "forget"}, run : 0..MaxRuns, backend : Backends]

Types ==
  /\ mem \in Stores /\ disk \in Stores
  /\ poisoned \in BOOLEAN /\ (~poisoned => mem = disk)
  /\ phase \in {"down", "recovering", "serving"} /\ now \in 1..MaxTime
  /\ copies \in [Runs -> Copies]
  /\ job \in Jobs /\ eraser \in Erasers
  /\ drawn \in 0..MaxRuns /\ edits \in 0..MaxEdits /\ faults \in 0..MaxFaults
  /\ begun \subseteq Runs /\ left \subseteq Runs

Scheduled == Keys \ {Manual}

\* A run, or what a repository has of it, bears a key; c is what the
\* repositories hold.
Bears(st, c, r, k) ==
  \/ st.runs[r].status # "none" /\ st.runs[r].key = k
  \/ c[r].state # "none" /\ c[r].key = k

\* The schedule of a key will never name its occurrence again, or only while
\* it is due.
Over(st, k) == st.schedules[k.schedule].next = 0 \/ st.schedules[k.schedule].next > k.due
Upcoming(st, k) ==
  Over(st, k) \/ (st.schedules[k.schedule].next = k.due /\ st.schedules[k.schedule].enabled)

\* Ids above d were not drawn; a schedule that was deleted is not due.
Fresh(st, c, d) == \A r \in Runs : r > d => st.runs[r].status = "none" /\ c[r].state = "none"
Dead(st) == \A s \in Schedules : ~st.schedules[s].live => st.schedules[s].next = 0

\* A bundle and the run of its id agree; without a run there is no key.
Agrees(st, c) ==
  \A r \in Runs :
    /\ st.runs[r].status = "none" => st.runs[r].key = Manual
    /\ st.runs[r].status # "none" /\ c[r].state # "none" =>
         st.runs[r].backend = c[r].backend /\ st.runs[r].key = c[r].key

Kept1(st, c, b) ==
  \A r \in Runs : st.runs[r].status = "succeeded" =>
    r \in b \/ (c[r].state = "published" /\ c[r].backend = st.runs[r].backend)

\* An interrupted run has left nothing in the local repository.
Left(st, c) ==
  \A r \in Runs :
    st.runs[r].status = "interrupted" /\ st.runs[r].backend = Local => c[r].state = "none"

Unique(st, c) ==
  \A q, r \in Runs, k \in Scheduled : Bears(st, c, q, k) /\ Bears(st, c, r, k) => q = r

\* A key that is borne is of the past, and of a run that ended it is over.
Past(st, c, t) ==
  \A r \in Runs, k \in Scheduled : Bears(st, c, r, k) =>
    /\ k.due <= t /\ Upcoming(st, k)
    /\ st.runs[r].status # "running" => Over(st, k)

\* A store, as it is in memory or in the file.
Good(st, c, b, d, t) ==
  /\ st \in Stores
  /\ Fresh(st, c, d) /\ Dead(st) /\ Agrees(st, c) /\ Kept1(st, c, b) /\ Left(st, c)
  /\ Unique(st, c) /\ Past(st, c, t)

\* The run of the job, until its end is written: it is shown as running, in the
\* file too while it is published; once published, its bundle is there.
HoldsRun(st) ==
  /\ st.runs[job.run].status = "running" /\ st.runs[job.run].key = job.key
  /\ st.runs[job.run].backend = job.backend
Holding ==
  /\ job.step \in {"publish", "complete", "fail"} => job.run \in 1..drawn /\ HoldsRun(mem)
  /\ job.step = "publish" => HoldsRun(disk)
  /\ job.step = "complete" =>
       /\ copies[job.run].state = "published" /\ copies[job.run].backend = job.backend
       /\ copies[job.run].key = job.key
  /\ job.step \in {"idle", "scan"} => job.key = Manual
  /\ job.step = "reject" => job.key # Manual
  /\ job.step = "prune" => job.schedule # Nothing
  /\ job.key # Manual => job.key.due <= now

\* What is left to do at time t, while the job works for a key: no run bears
\* its key unless it is shown as running.
ToDo(todo, key, st, c, t) ==
  /\ \A q \in todo :
       /\ q.key \in Scheduled /\ q.key.due <= t /\ Upcoming(st, q.key)
       /\ q.key.schedule # key.schedule
       /\ \A r \in Runs : Bears(st, c, r, q.key) => st.runs[r].status = "running"
  /\ \A p, q \in todo : p.key.schedule = q.key.schedule => p = q

\* Whoever removes a run has found it ended.
Removing ==
  /\ eraser.step # "idle" => eraser.run \in 1..drawn /\ mem.runs[eraser.run].status # "running"
  /\ \A r \in job.doomed \cup job.pruned : r \in 1..drawn /\ mem.runs[r].status # "running"

Starting ==
  /\ phase # "serving" => job = Idle /\ eraser = NoEraser
  /\ phase = "recovering" =>
       \A r \in Runs, k \in Scheduled : Bears(mem, copies, r, k) => Over(mem, k)

IInv ==
  /\ Types
  /\ Good(mem, copies, begun, drawn, now) /\ Good(disk, copies, begun, drawn, now)
  /\ Holding /\ ToDo(job.todo, job.key, mem, copies, now) /\ Removing /\ Starting /\ RunningIsHeld

-----------------------------------------------------------------------------
(* Constants and records                                                   *)

LEMMA Bounds ==
  /\ Local \in Backends /\ MaxRuns \in Nat /\ MaxTime \in Nat \ {0} /\ MaxEdits \in Nat
  /\ MaxFaults \in Nat /\ Nothing \notin Schedules /\ Nothing \notin Backends
  /\ 0 \in Times /\ 0 \in 0..MaxRuns
BY BackupAssumption DEF Times

LEMMA TimeFacts ==
  ASSUME NEW t \in 1..MaxTime
  PROVE  t \in Times /\ t + 1 \in Times /\ t + 1 \in Times \ {0} /\ t \in Times \ {0} /\ t \in Nat
BY Bounds DEF Times

LEMMA KeyFacts ==
  /\ Manual \in Keys /\ Manual.schedule = Nothing
  /\ \A k \in Scheduled : k.schedule \in Schedules /\ k.due \in Nat /\ k.due > 0 /\ k \in Keys
  /\ \A k \in Keys : k # Manual => k \in Scheduled
  /\ \A s \in Schedules, d \in Times \ {0} : [schedule |-> s, due |-> d] \in Scheduled
BY Bounds DEF Scheduled, Keys, Manual, Times

LEMMA StoreFacts ==
  ASSUME NEW st \in Stores
  PROVE  /\ st.runs \in [Runs -> RunRecords] /\ st.schedules \in [Schedules -> ScheduleRecords]
         /\ \A r \in Runs :
              /\ st.runs[r] \in RunRecords /\ st.runs[r].key \in Keys
              /\ st.runs[r].backend \in Backends /\ st.runs[r].manifest \in BOOLEAN
              /\ st.runs[r].created \in Times /\ st.runs[r].schedule \in Schedules \cup {Nothing}
              /\ st.runs[r].status \in {"none", "running", "succeeded", "failed", "interrupted"}
         /\ \A s \in Schedules :
              /\ st.schedules[s] \in ScheduleRecords /\ st.schedules[s].next \in Nat
              /\ st.schedules[s].next \in Times /\ st.schedules[s].backend \in Backends
              /\ st.schedules[s].live \in BOOLEAN /\ st.schedules[s].enabled \in BOOLEAN
BY DEF Stores, RunRecords, ScheduleRecords, Times

LEMMA NoRunFacts == NoRun \in RunRecords /\ NoRun.status = "none" /\ NoRun.key = Manual
BY Bounds, KeyFacts DEF NoRun, RunRecords

LEMMA NoScheduleFacts ==
  NoSchedule \in ScheduleRecords /\ NoSchedule.next = 0 /\ ~NoSchedule.live
BY Bounds DEF NoSchedule, ScheduleRecords

LEMMA CopyFacts ==
  /\ NoCopy \in Copies /\ NoCopy.state = "none"
  /\ \A c \in Copies : c.key \in Keys /\ c.backend \in Backends /\ c.created \in Times
                         /\ c.state \in {"none", "staged", "published"}
BY Bounds, KeyFacts DEF NoCopy, Copies

LEMMA IdleFacts ==
  /\ Idle \in Jobs /\ Idle.step = "idle" /\ Idle.key = Manual /\ Idle.todo = {}
  /\ Idle.doomed = {} /\ Idle.pruned = {} /\ Idle.schedule = Nothing
  /\ NoEraser \in Erasers /\ NoEraser.step = "idle"
BY Bounds, KeyFacts DEF Idle, Jobs, NoEraser, Erasers

\* What is known of a store through memory and its file.
LEMMA UpdateFacts ==
  ASSUME Types, NEW next \in Stores, Commit(next) \/ Refuse(next)
  PROVE  /\ mem' \in {mem, next} /\ disk' \in {disk, next}
         /\ mem' \in Stores /\ disk' \in Stores /\ poisoned' \in BOOLEAN
         /\ ~poisoned' => mem' = disk'
         /\ faults' \in 0..MaxFaults
         /\ Commit(next) => mem' = next /\ disk' = next
         /\ ~Commit(next) => mem' = mem
<1>1. CASE Commit(next)
  BY <1>1 DEF Types, Commit
<1>2. CASE Refuse(next) /\ ~Commit(next)
  <2>1. CASE UNCHANGED store
    BY <1>2, <2>1 DEF Types, store
  <2>2. CASE /\ ~poisoned /\ faults < MaxFaults /\ faults' = faults + 1 /\ mem' = mem
             /\ \/ disk' = disk /\ poisoned' = poisoned
                \/ disk' = next /\ poisoned' = TRUE
    <3>1. faults' \in 0..MaxFaults
      BY <2>2, Bounds DEF Types
    <3>2. mem \in Stores /\ disk \in Stores /\ mem = disk /\ poisoned \in BOOLEAN
      BY <2>2 DEF Types
    <3>3. poisoned' \in BOOLEAN /\ (~poisoned' => mem' = disk') /\ disk' \in {disk, next}
      BY <2>2, <3>2
    <3> QED BY <1>2, <2>2, <3>1, <3>2, <3>3
  <2> QED BY <1>2, <2>1, <2>2 DEF Refuse, store
<1> QED BY <1>1, <1>2

LEMMA RefuseFacts ==
  ASSUME Types, NEW next, Refuse(next)
  PROVE  mem' = mem /\ ~Commit(next)
BY DEF Types, Refuse, Commit, store

-----------------------------------------------------------------------------
(* What the operators do to a store                                        *)

\* Schedules are reset, or advanced beyond the time t.
LEMMA SchedulesMove ==
  ASSUME NEW st, NEW u \in Stores, NEW c, NEW b, NEW d, NEW t \in Nat,
         Good(st, c, b, d, t), u.runs = st.runs, Dead(u),
         \A s \in Schedules : u.schedules[s] = st.schedules[s] \/ u.schedules[s].next \in {0, t + 1}
  PROVE  /\ Good(u, c, b, d, t)
         /\ \A k \in Scheduled : k.due <= t =>
              (Over(st, k) => Over(u, k)) /\ (Upcoming(st, k) => Upcoming(u, k))
<1>1. ASSUME NEW k \in Scheduled, k.due <= t
      PROVE  (Over(st, k) => Over(u, k)) /\ (Upcoming(st, k) => Upcoming(u, k))
  <2>1. k.schedule \in Schedules /\ k.due \in Nat
    BY KeyFacts
  <2>2. CASE u.schedules[k.schedule] = st.schedules[k.schedule]
    BY <2>2 DEF Over, Upcoming
  <2>3. CASE u.schedules[k.schedule].next \in {0, t + 1}
    BY <1>1, <2>1, <2>3 DEF Over, Upcoming
  <2> QED BY <2>1, <2>2, <2>3
<1>2. Fresh(u, c, d) /\ Agrees(u, c) /\ Kept1(u, c, b) /\ Left(u, c)
  BY DEF Good, Fresh, Agrees, Kept1, Left
<1>3. \A r, k : Bears(u, c, r, k) <=> Bears(st, c, r, k)
  BY DEF Bears
<1>4. Unique(u, c) /\ Past(u, c, t)
  BY <1>1, <1>3 DEF Good, Unique, Past
<1> QED BY <1>1, <1>2, <1>4 DEF Good

LEMMA AdvancedFacts ==
  ASSUME NEW st \in Stores, Dead(st), now \in 1..MaxTime, NEW s \in Schedules \cup {Nothing}
  PROVE  LET u == Advanced(st, s)
         IN /\ u \in Stores /\ u.runs = st.runs /\ Dead(u)
            /\ \A x \in Schedules : x # s => u.schedules[x] = st.schedules[x]
            /\ s # Nothing => u.schedules[s].next \in {0, now + 1}
            /\ \A x \in Schedules :
                 u.schedules[x] = st.schedules[x] \/ u.schedules[x].next \in {0, now + 1}
<1> DEFINE sched == [st.schedules[s] EXCEPT !.next = now + 1]
           q == [st.schedules EXCEPT ![s] = sched]
           u == [st EXCEPT !.schedules = q]
<1>1. CASE s # Nothing /\ st.schedules[s].live
  <2>1. s \in Schedules /\ now + 1 \in Times
    BY <1>1, TimeFacts
  <2>2. sched \in ScheduleRecords /\ sched.next = now + 1 /\ sched.live
    BY <1>1, <2>1, StoreFacts DEF ScheduleRecords
  <2>3. Advanced(st, s) = u
    BY <1>1 DEF Advanced, Stores
  <2> HIDE DEF sched
  <2>4. q \in [Schedules -> ScheduleRecords] /\ q[s] = sched
          /\ \A x \in Schedules : x # s => q[x] = st.schedules[x]
    BY <2>1, <2>2, StoreFacts
  <2> HIDE DEF q
  <2>5. u \in Stores /\ u.schedules = q /\ u.runs = st.runs
    BY <2>4 DEF Stores
  <2> HIDE DEF u
  <2>6. Dead(u)
    BY <2>2, <2>4, <2>5 DEF Dead
  <2> QED BY <1>1, <2>2, <2>3, <2>4, <2>5, <2>6
<1>2. CASE ~(s # Nothing /\ st.schedules[s].live)
  <2>1. Advanced(st, s) = st
    BY <1>2 DEF Advanced
  <2>2. s # Nothing => st.schedules[s].next = 0
    BY <1>2 DEF Dead
  <2> QED BY <2>1, <2>2
<1> QED BY <1>1, <1>2

LEMMA WithRunFacts ==
  ASSUME NEW st \in Stores, NEW r \in Runs, NEW run \in RunRecords
  PROVE  LET u == WithRun(st, r, run)
         IN /\ u \in Stores /\ u.schedules = st.schedules /\ u.runs[r] = run
            /\ \A q \in Runs \ {r} : u.runs[q] = st.runs[q]
<1> DEFINE q == [st.runs EXCEPT ![r] = run]
<1>1. q \in [Runs -> RunRecords] /\ q[r] = run /\ \A x \in Runs \ {r} : q[x] = st.runs[x]
  BY StoreFacts
<1>2. WithRun(st, r, run) = [st EXCEPT !.runs = q]
  BY DEF WithRun, Stores
<1> HIDE DEF q
<1> QED BY <1>1, <1>2 DEF Stores

LEMMA ForgottenFacts ==
  ASSUME NEW st \in Stores, NEW rs
  PROVE  LET u == Forgotten(st, rs)
         IN /\ u \in Stores /\ u.schedules = st.schedules
            /\ \A q \in Runs : u.runs[q] = IF q \in rs THEN NoRun ELSE st.runs[q]
<1> DEFINE q == [r \in Runs |-> IF r \in rs THEN NoRun ELSE st.runs[r]]
<1>1. q \in [Runs -> RunRecords]
  BY StoreFacts, NoRunFacts
<1>2. Forgotten(st, rs) = [st EXCEPT !.runs = q]
  BY DEF Forgotten
<1> HIDE DEF q
<1>3. [st EXCEPT !.runs = q] \in Stores /\ [st EXCEPT !.runs = q].schedules = st.schedules
        /\ [st EXCEPT !.runs = q].runs = q
  BY <1>1 DEF Stores
<1> QED BY <1>2, <1>3 DEF q

\* Runs that ended are forgotten.
LEMMA ForgottenGood ==
  ASSUME NEW st, NEW c, NEW b, NEW d, NEW t, NEW rs, Good(st, c, b, d, t),
         \A r \in Runs : r \in rs => st.runs[r].status # "running"
  PROVE  /\ Good(Forgotten(st, rs), c, b, d, t)
         /\ \A r \in Runs, k \in Scheduled :
              Bears(Forgotten(st, rs), c, r, k) => Bears(st, c, r, k)
<1> DEFINE u == Forgotten(st, rs)
<1>1. /\ u \in Stores /\ u.schedules = st.schedules
      /\ \A q \in Runs : u.runs[q] = IF q \in rs THEN NoRun ELSE st.runs[q]
  BY ForgottenFacts DEF Good
<1> HIDE DEF u
<1>2. \A r \in Runs :
        \/ u.runs[r] = st.runs[r]
        \/ u.runs[r].status = "none" /\ u.runs[r].key = Manual /\ st.runs[r].status # "running"
  BY <1>1, NoRunFacts
<1>3. Fresh(u, c, d) /\ Agrees(u, c) /\ Kept1(u, c, b) /\ Left(u, c) /\ Dead(u)
  BY <1>1, <1>2 DEF Good, Fresh, Agrees, Kept1, Left, Dead
<1>4. \A r \in Runs, k \in Scheduled : Bears(u, c, r, k) => Bears(st, c, r, k)
  BY <1>2 DEF Bears
<1>5. \A k : (Over(u, k) <=> Over(st, k)) /\ (Upcoming(u, k) <=> Upcoming(st, k))
  BY <1>1 DEF Over, Upcoming
<1>6. Unique(u, c) /\ Past(u, c, t)
  BY <1>2, <1>4, <1>5 DEF Good, Unique, Past
<1> QED BY <1>1, <1>3, <1>4, <1>6 DEF Good, u


\* A run that is admitted bears a key that none bears.
LEMMA EntryGood ==
  ASSUME NEW st, NEW c, NEW b, NEW d \in Nat, NEW t, Good(st, c, b, d, t), d + 1 \in Runs,
         NEW run \in RunRecords, run.status = "running",
         run.key # Manual =>
           /\ run.key.due <= t /\ Upcoming(st, run.key)
           /\ \A r \in Runs : ~Bears(st, c, r, run.key)
  PROVE  LET u == WithRun(st, d + 1, run)
         IN /\ Good(u, c, b, d + 1, t) /\ Good(st, c, b, d + 1, t)
            /\ u \in Stores /\ u.schedules = st.schedules /\ u.runs[d + 1] = run
            /\ \A q \in Runs \ {d + 1} : u.runs[q] = st.runs[q]
            /\ \A r \in Runs, k \in Scheduled :
                 Bears(u, c, r, k) => Bears(st, c, r, k) \/ (r = d + 1 /\ k = run.key)
<1> DEFINE u == WithRun(st, d + 1, run)
<1>1. /\ u \in Stores /\ u.schedules = st.schedules /\ u.runs[d + 1] = run
      /\ \A q \in Runs \ {d + 1} : u.runs[q] = st.runs[q]
  BY WithRunFacts DEF Good
<1> HIDE DEF u
<1>2. /\ \A r \in Runs : r > d + 1 => r > d /\ r # d + 1
      /\ st.runs[d + 1].status = "none" /\ c[d + 1].state = "none"
  BY Bounds DEF Good, Fresh, Runs
<1>3. Fresh(u, c, d + 1) /\ Fresh(st, c, d + 1)
  BY <1>1, <1>2 DEF Good, Fresh
<1>4. Dead(u) /\ Agrees(u, c) /\ Kept1(u, c, b) /\ Left(u, c)
  BY <1>1, <1>2 DEF Good, Dead, Agrees, Kept1, Left
<1>5. \A r \in Runs, k \in Scheduled :
        Bears(u, c, r, k) => Bears(st, c, r, k) \/ (r = d + 1 /\ k = run.key)
  BY <1>1 DEF Bears
<1>6. \A k : (Over(u, k) <=> Over(st, k)) /\ (Upcoming(u, k) <=> Upcoming(st, k))
  BY <1>1 DEF Over, Upcoming
<1>7. \A k \in Scheduled : k # Manual
  BY DEF Scheduled
<1>8. Unique(u, c)
  BY <1>5, <1>7 DEF Good, Unique
<1>9. Past(u, c, t)
  BY <1>1, <1>5, <1>6, <1>7 DEF Good, Past
<1>10. Good(u, c, b, d + 1, t) /\ Good(st, c, b, d + 1, t)
  BY <1>1, <1>3, <1>4, <1>8, <1>9 DEF Good
<1> QED BY <1>1, <1>5, <1>10 DEF u

\* A run ends, and with it the occurrence it bears.
LEMMA EndedGood ==
  ASSUME NEW st, NEW c, NEW b, NEW d, NEW t \in Nat, Good(st, c, b, d, t),
         NEW r \in Runs, st.runs[r].status = "running",
         NEW u \in Stores, Dead(u),
         \A q \in Runs \ {r} : u.runs[q] = st.runs[q],
         u.runs[r].status \in {"succeeded", "failed"},
         u.runs[r].key = st.runs[r].key, u.runs[r].backend = st.runs[r].backend,
         u.runs[r].status = "succeeded" =>
           c[r].state = "published" /\ c[r].backend = st.runs[r].backend,
         \A s \in Schedules : u.schedules[s] = st.schedules[s] \/ u.schedules[s].next \in {0, t + 1},
         st.runs[r].key # Manual => u.schedules[st.runs[r].key.schedule].next \in {0, t + 1}
  PROVE  /\ Good(u, c, b, d, t)
         /\ \A q \in Runs, k \in Scheduled : Bears(u, c, q, k) <=> Bears(st, c, q, k)
<1>1. Fresh(u, c, d) /\ Agrees(u, c) /\ Kept1(u, c, b) /\ Left(u, c)
  BY DEF Good, Fresh, Agrees, Kept1, Left
<1>2. \A q \in Runs, k \in Scheduled : Bears(u, c, q, k) <=> Bears(st, c, q, k)
  BY DEF Bears
<1>3. Unique(u, c)
  BY <1>2 DEF Good, Unique
<1>4. ASSUME NEW q \in Runs, NEW k \in Scheduled, Bears(u, c, q, k)
      PROVE  k.due <= t /\ Upcoming(u, k) /\ (u.runs[q].status # "running" => Over(u, k))
  <2>1. /\ k.due <= t /\ Upcoming(st, k) /\ (st.runs[q].status # "running" => Over(st, k))
        /\ k.schedule \in Schedules /\ k.due \in Nat /\ k # Manual
    BY <1>2, <1>4, KeyFacts DEF Good, Past, Scheduled
  <2>2. CASE q = r
    <3>1. k = st.runs[r].key
      BY <1>2, <1>4, <2>2 DEF Good, Agrees, Bears
    <3> QED BY <2>1, <3>1 DEF Over, Upcoming
  <2>3. CASE q # r
    <3>1. CASE u.schedules[k.schedule] = st.schedules[k.schedule]
      BY <2>1, <2>3, <3>1 DEF Over, Upcoming
    <3>2. CASE u.schedules[k.schedule].next \in {0, t + 1}
      BY <2>1, <3>2 DEF Over, Upcoming
    <3> QED BY <2>1, <3>1, <3>2
  <2> QED BY <2>2, <2>3
<1>5. Past(u, c, t)
  BY <1>4 DEF Past
<1> QED BY <1>1, <1>2, <1>3, <1>5 DEF Good

\* A bundle is published under the id of a run that is shown as running.
LEMMA PublishedGood ==
  ASSUME NEW st, NEW c \in [Runs -> Copies], NEW b, NEW d, NEW t, Good(st, c, b, d, t),
         NEW r \in Runs, st.runs[r].status = "running",
         NEW copy \in Copies, copy.key = st.runs[r].key, copy.backend = st.runs[r].backend
  PROVE  LET e == [c EXCEPT ![r] = copy]
         IN /\ Good(st, e, b, d, t)
            /\ \A q \in Runs, k \in Scheduled : Bears(st, e, q, k) => Bears(st, c, q, k)
<1> DEFINE e == [c EXCEPT ![r] = copy]
<1>1. e[r] = copy /\ \A q \in Runs \ {r} : e[q] = c[q]
  OBVIOUS
<1> HIDE DEF e
<1>2. Fresh(st, e, d) /\ Agrees(st, e) /\ Kept1(st, e, b) /\ Left(st, e)
  BY <1>1 DEF Good, Fresh, Agrees, Kept1, Left
<1>3. \A q \in Runs, k \in Scheduled : Bears(st, e, q, k) => Bears(st, c, q, k)
  BY <1>1 DEF Bears
<1>4. Unique(st, e) /\ Past(st, e, t)
  BY <1>3 DEF Good, Unique, Past
<1>5. Good(st, e, b, d, t)
  BY <1>2, <1>4 DEF Good
<1> QED BY <1>3, <1>5 DEF e

\* A bundle is removed, and its deletion has begun.
LEMMA ErasedGood ==
  ASSUME NEW st, NEW c \in [Runs -> Copies], NEW b, NEW d, NEW t, Good(st, c, b, d, t),
         NEW r \in Runs
  PROVE  LET e == [c EXCEPT ![r] = NoCopy]
         IN /\ Good(st, e, b \cup {r}, d, t)
            /\ \A q \in Runs, k \in Scheduled : Bears(st, e, q, k) => Bears(st, c, q, k)
<1> DEFINE e == [c EXCEPT ![r] = NoCopy]
<1>1. e[r].state = "none" /\ \A q \in Runs \ {r} : e[q] = c[q]
  BY CopyFacts
<1> HIDE DEF e
<1>2. Fresh(st, e, d) /\ Agrees(st, e) /\ Kept1(st, e, b \cup {r}) /\ Left(st, e)
  BY <1>1 DEF Good, Fresh, Agrees, Kept1, Left
<1>3. \A q \in Runs, k \in Scheduled : Bears(st, e, q, k) => Bears(st, c, q, k)
  BY <1>1 DEF Bears
<1>4. Unique(st, e) /\ Past(st, e, t)
  BY <1>3 DEF Good, Unique, Past
<1>5. Good(st, e, b \cup {r}, d, t)
  BY <1>2, <1>4 DEF Good
<1> QED BY <1>3, <1>5 DEF e

\* A stage is published, or removed.
LEMMA ResolvedGood ==
  ASSUME NEW st, NEW c \in [Runs -> Copies], NEW b, NEW d, NEW t, Good(st, c, b, d, t),
         NEW r \in Runs, c[r].state = "staged", NEW state \in {"none", "published"}
  PROVE  LET e == [c EXCEPT ![r].state = state]
         IN /\ e \in [Runs -> Copies] /\ Good(st, e, b, d, t)
            /\ \A q \in Runs, k \in Scheduled : Bears(st, e, q, k) => Bears(st, c, q, k)
<1> DEFINE e == [c EXCEPT ![r].state = state]
<1>1. /\ e[r].state = state /\ e[r].backend = c[r].backend /\ e[r].key = c[r].key
      /\ \A q \in Runs \ {r} : e[q] = c[q]
      /\ e \in [Runs -> Copies]
  BY DEF Copies
<1> HIDE DEF e
<1>2. Fresh(st, e, d) /\ Agrees(st, e) /\ Kept1(st, e, b) /\ Left(st, e)
  BY <1>1 DEF Good, Fresh, Agrees, Kept1, Left
<1>3. \A q \in Runs, k \in Scheduled : Bears(st, e, q, k) => Bears(st, c, q, k)
  BY <1>1 DEF Bears
<1>4. Unique(st, e) /\ Past(st, e, t)
  BY <1>3 DEF Good, Unique, Past
<1>5. Good(st, e, b, d, t)
  BY <1>2, <1>4 DEF Good
<1> QED BY <1>1, <1>3, <1>5 DEF e

\* The recovery: a local bundle has a run that succeeded, and none is running.
LEMMA ReconciledFacts ==
  ASSUME mem \in Stores, copies \in [Runs -> Copies],
         NEW b, NEW d, NEW t, Good(mem, copies, b, d, t), LocalCopies({"staged"}) = {},
         \A r \in Runs, k \in Scheduled : Bears(mem, copies, r, k) => Over(mem, k)
  PROVE  LET found == LocalCopies({"published"})
             u == Reconciled(found)
         IN /\ u \in Stores /\ Good(u, copies, b, d, t)
            /\ \A r \in Runs : u.runs[r].status # "running"
            /\ \A r \in found : u.runs[r].status = "succeeded"
<1> DEFINE found == LocalCopies({"published"})
           old(r) == mem.runs[r]
           made(r) == [status |-> "succeeded", key |-> copies[r].key, schedule |-> Nothing,
                       backend |-> Local, manifest |-> TRUE, created |-> copies[r].created]
           new(r) == IF r \in found
                       THEN IF old(r).status = "none" THEN made(r)
                            ELSE [old(r) EXCEPT !.status = "succeeded", !.manifest = TRUE]
                     ELSE IF old(r).status = "running" THEN [old(r) EXCEPT !.status = "interrupted"]
                     ELSE old(r)
           q == [r \in Runs |-> new(r)]
           u == [mem EXCEPT !.runs = q]
<1>1. Reconciled(found) = u
  BY DEF Reconciled
<1>2. /\ \A r \in found : r \in Runs /\ copies[r].state = "published" /\ copies[r].backend = Local
      /\ \A r \in Runs : copies[r].backend = Local /\ r \notin found => copies[r].state = "none"
  BY CopyFacts DEF LocalCopies
<1> HIDE DEF found
<1>3. ASSUME NEW r \in Runs
      PROVE  /\ new(r) \in RunRecords /\ new(r).status # "running"
             /\ r \in found => new(r).status = "succeeded"
             /\ r \notin found => new(r).status = old(r).status \/ new(r).status = "interrupted"
             /\ r \notin found /\ old(r).status = "none" => new(r).status = "none"
             /\ r \notin found \/ old(r).status # "none" =>
                  new(r).key = old(r).key /\ new(r).backend = old(r).backend
             /\ r \in found /\ old(r).status = "none" =>
                  new(r).key = copies[r].key /\ new(r).backend = Local
  <2>1. old(r) \in RunRecords /\ copies[r] \in Copies
    BY StoreFacts
  <2>2. made(r) \in RunRecords
    BY <2>1, CopyFacts, Bounds DEF RunRecords
  <2>3. [old(r) EXCEPT !.status = "succeeded", !.manifest = TRUE] \in RunRecords
    BY <2>1 DEF RunRecords
  <2>4. [old(r) EXCEPT !.status = "interrupted"] \in RunRecords
    BY <2>1 DEF RunRecords
  <2> QED BY <2>1, <2>2, <2>3, <2>4 DEF RunRecords
<1> HIDE DEF new, old
<1>4. q \in [Runs -> RunRecords]
  BY <1>3
<1> HIDE DEF q
<1>5. u \in Stores /\ u.runs = q /\ u.schedules = mem.schedules
  BY <1>4 DEF Stores
<1> HIDE DEF u
<1>6. /\ \A r \in Runs : u.runs[r].status # "running"
      /\ \A r \in found : u.runs[r].status = "succeeded"
  BY <1>2, <1>3, <1>5 DEF q
<1>7. ASSUME NEW r \in Runs
      PROVE  /\ u.runs[r].status = "succeeded" => r \in found \/ mem.runs[r].status = "succeeded"
             /\ mem.runs[r].status = "none" => u.runs[r].status = "none" \/ r \in found
             /\ mem.runs[r].status # "none" =>
                  u.runs[r].key = mem.runs[r].key /\ u.runs[r].backend = mem.runs[r].backend
             /\ u.runs[r].status = "none" =>
                  mem.runs[r].status = "none" /\ u.runs[r].key = mem.runs[r].key
             /\ r \in found /\ mem.runs[r].status = "none" =>
                  u.runs[r].key = copies[r].key /\ u.runs[r].backend = Local
             /\ u.runs[r].status = "interrupted" => r \notin found /\ mem.runs[r].status # "none"
  BY <1>3, <1>5 DEF q, old
<1>8. /\ Fresh(u, copies, d) /\ Dead(u) /\ Agrees(u, copies) /\ Kept1(u, copies, b)
      /\ Left(u, copies)
  <2>1. Fresh(u, copies, d)
    BY <1>2, <1>7 DEF Good, Fresh
  <2>2. Dead(u)
    BY <1>5 DEF Good, Dead
  <2>3. Agrees(u, copies)
    BY <1>2, <1>7 DEF Good, Agrees
  <2>4. Kept1(u, copies, b)
    BY <1>2, <1>7 DEF Good, Agrees, Kept1
  <2>5. Left(u, copies)
    BY <1>2, <1>7 DEF Good, Agrees, Left
  <2> QED BY <2>1, <2>2, <2>3, <2>4, <2>5
<1>9. \A r \in Runs, k \in Scheduled : Bears(u, copies, r, k) => Bears(mem, copies, r, k)
  BY <1>2, <1>7 DEF Bears
<1>10. Unique(u, copies)
  BY <1>9 DEF Good, Unique
<1>11. Past(u, copies, t)
  <2>1. \A k : Over(u, k) <=> Over(mem, k)
    BY <1>5 DEF Over
  <2> QED BY <1>9, <2>1 DEF Good, Past, Upcoming
<1> QED BY <1>1, <1>5, <1>6, <1>8, <1>10, <1>11 DEF Good, found

-----------------------------------------------------------------------------
(* Steps of the job                                                        *)

LEMMA ToDoKept ==
  ASSUME NEW todo, NEW key, NEW st, NEW c, NEW t \in Nat, ToDo(todo, key, st, c, t),
         NEW rest \in SUBSET todo, NEW other, NEW u, NEW e, NEW v \in Nat, v >= t,
         \A q \in rest :
           /\ q.key.schedule # other.schedule
           /\ Upcoming(st, q.key) => Upcoming(u, q.key)
           /\ \A r \in Runs : Bears(u, e, r, q.key) =>
                Bears(st, c, r, q.key) /\ (st.runs[r].status = "running" => u.runs[r].status = "running")
  PROVE  ToDo(rest, other, u, e, v)
<1>1. \A q \in rest : q.key.due \in Nat /\ q.key.due <= v
  BY KeyFacts DEF ToDo
<1> QED BY <1>1 DEF ToDo

LEMMA DoneFacts ==
  ASSUME NEW todo \in SUBSET Requests, Done(todo)
  PROVE  /\ job' \in Jobs /\ job'.step \in {"idle", "scan"} /\ job'.key = Manual
         /\ job'.todo = todo /\ job'.doomed = {} /\ job'.pruned = {}
<1>1. Idle \in Jobs /\ Idle.step = "idle" /\ Idle.key = Manual /\ Idle.todo = {}
        /\ Idle.doomed = {} /\ Idle.pruned = {}
  BY IdleFacts
<1> QED BY <1>1 DEF Done, Jobs

LEMMA FailedFacts ==
  ASSUME NEW todo \in SUBSET Requests, NEW key \in Keys, Failed(key, todo)
  PROVE  /\ job' \in Jobs /\ job'.step \in {"idle", "scan", "reject"}
         /\ job'.key \in {Manual, key} /\ (job'.step = "reject" <=> job'.key # Manual)
         /\ job'.todo = todo /\ job'.doomed = {} /\ job'.pruned = {}
<1>1. CASE key = Manual
  BY <1>1, DoneFacts DEF Failed
<1>2. CASE key # Manual
  <2>1. job' = [Idle EXCEPT !.step = "reject", !.key = key, !.todo = todo]
    BY <1>2 DEF Failed
  <2>2. Idle \in Jobs /\ Idle.doomed = {} /\ Idle.pruned = {}
    BY IdleFacts
  <2> QED BY <1>2, <2>1, <2>2 DEF Jobs
<1> QED BY <1>1, <1>2

LEMMA Typed ==
  ASSUME IInv
  PROVE  /\ mem \in Stores /\ disk \in Stores /\ copies \in [Runs -> Copies]
         /\ now \in Nat /\ now \in 1..MaxTime /\ drawn \in Nat /\ drawn \in 0..MaxRuns
         /\ 1..drawn \subseteq Runs
         /\ job \in Jobs /\ job.todo \in SUBSET Requests /\ job.key \in Keys
         /\ job.backend \in Backends /\ job.schedule \in Schedules \cup {Nothing}
         /\ eraser \in Erasers
         /\ Dead(mem) /\ Dead(disk)
         /\ Good(mem, copies, begun, drawn, now) /\ Good(disk, copies, begun, drawn, now)
         /\ ToDo(job.todo, job.key, mem, copies, now)
         /\ job.step # "idle" => phase = "serving"
BY Bounds, IdleFacts DEF IInv, Types, Good, Runs, Jobs, Starting

\* The job is at rest, or about to advance a schedule.
LEMMA Resting ==
  ASSUME IInv, job'.step \in {"idle", "scan", "reject"},
         job'.step = "reject" <=> job'.key # Manual,
         job'.key # Manual => job'.key.due <= now',
         job'.doomed = {}, job'.pruned = {}, drawn' \in Nat, drawn <= drawn',
         eraser'.step # "idle" => eraser' = eraser /\ mem'.runs[eraser.run].status # "running"
  PROVE  Holding' /\ Removing'
<1>1. Holding'
  BY DEF Holding
<1>2. Removing'
  BY Typed DEF IInv, Removing
<1> QED BY <1>1, <1>2

\* The snapshot of what is due.
LEMMA ScanBeginStep ==
  ASSUME IInv, ScanBegin
  PROVE  IInv'
<1> DEFINE due == {s \in Schedules : Due(s)}
           request(s) == [key |-> [schedule |-> s, due |-> mem.schedules[s].next],
                          schedule |-> s, backend |-> mem.schedules[s].backend]
           todo == {request(s) : s \in due}
<1>1. /\ phase = "serving" /\ job.step = "idle" /\ Done(todo)
      /\ UNCHANGED <<mem, disk, poisoned, faults, phase, now, copies, eraser, drawn, edits, begun, left>>
  BY DEF ScanBegin, Free, store
<1>2. ASSUME NEW s \in due
      PROVE  /\ request(s) \in Requests /\ request(s).key \in Scheduled
             /\ request(s).key.schedule = s /\ request(s).key.due <= now
             /\ Upcoming(mem, request(s).key) /\ ~Over(mem, request(s).key)
  <2>1. /\ s \in Schedules /\ mem.schedules[s].enabled /\ mem.schedules[s].next \in 1..now
        /\ mem.schedules[s].next \in Times \ {0} /\ mem.schedules[s].backend \in Backends
        /\ mem.schedules[s].next \in Nat /\ now \in Nat
    BY Typed, StoreFacts DEF Due
  <2>2. [schedule |-> s, due |-> mem.schedules[s].next] \in Scheduled
    BY <2>1, KeyFacts
  <2> QED BY <2>1, <2>2, KeyFacts DEF Requests, Upcoming, Over
<1> HIDE DEF due, request
<1>3. todo \in SUBSET Requests
  BY <1>2
<1>4. /\ job' \in Jobs /\ job'.step \in {"idle", "scan"} /\ job'.key = Manual
      /\ job'.todo = todo /\ job'.doomed = {} /\ job'.pruned = {}
  BY <1>1, <1>3, DoneFacts
<1>5. ToDo(todo, Manual, mem, copies, now)
  <2>1. ASSUME NEW s \in due, NEW r \in Runs, Bears(mem, copies, r, request(s).key)
        PROVE  mem.runs[r].status = "running"
    BY <1>2, <2>1, Typed DEF Good, Past
  <2>2. \A s \in due : request(s).key.schedule # Nothing
    BY <1>2, Bounds DEF due
  <2> HIDE DEF todo
  <2>3. \A q \in todo : \E s \in due : q = request(s)
    BY DEF todo
  <2> QED BY <1>2, <2>1, <2>2, <2>3, KeyFacts DEF ToDo
<1>6. Types'
  BY <1>1, <1>4 DEF IInv, Types
<1>7. Holding' /\ Removing'
  BY <1>1, <1>4, Resting, Typed DEF IInv, Removing
<1>8. Starting' /\ RunningIsHeld'
  BY <1>1 DEF IInv, Starting, RunningIsHeld
<1>9. ToDo(job.todo, job.key, mem, copies, now)'
  BY <1>1, <1>4, <1>5
<1> QED BY <1>1, <1>6, <1>7, <1>8, <1>9 DEF IInv

\* executeBackup begins, for a request that no run but a running one bears.
LEMMA AdmitStep ==
  ASSUME IInv, NEW request \in Requests, NEW todo \in SUBSET Requests,
         phase = "serving", job.step \in {"idle", "scan"},
         request.key # Manual =>
           /\ request.key.due <= now /\ Upcoming(mem, request.key)
           /\ \A r \in Runs : Bears(mem, copies, r, request.key) => mem.runs[r].status = "running",
         ToDo(todo, Manual, mem, copies, now),
         \A q \in todo : q.key.schedule # request.key.schedule,
         Admit(request, todo), UNCHANGED <<phase, now, copies, eraser, edits, begun, left>>
  PROVE  IInv'
<1> DEFINE r1 == drawn + 1
           run == [status |-> "running", key |-> request.key, schedule |-> request.schedule,
                   backend |-> request.backend, manifest |-> FALSE, created |-> now]
           entry == WithRun(mem, r1, run)
<1>1. request.key \in Keys /\ request.backend \in Backends /\ request.schedule \in Schedules \cup {Nothing}
  BY DEF Requests
<1>2. ToDo(todo, request.key, mem, copies, now)
  BY DEF ToDo
<1>3. \A r \in Runs : mem.runs[r].status = "running" => r \in left
  BY DEF IInv, RunningIsHeld
<1>4. Starting'
  BY DEF Starting
<1>5. ASSUME UNCHANGED <<store, drawn>>, Done(todo) \/ Failed(request.key, todo)
      PROVE  IInv'
  <2>1. /\ job' \in Jobs /\ job'.step \in {"idle", "scan", "reject"} /\ job'.todo = todo
        /\ job'.key \in {Manual, request.key} /\ (job'.step = "reject" <=> job'.key # Manual)
        /\ job'.doomed = {} /\ job'.pruned = {}
    BY <1>1, <1>5, DoneFacts, FailedFacts
  <2>2. Types'
    BY <1>5, <2>1 DEF IInv, Types, store
  <2>3. Holding' /\ Removing'
    BY <1>5, <2>1, Resting, Typed DEF IInv, Removing, store
  <2>4. ToDo(job.todo, job.key, mem, copies, now)'
    BY <1>2, <1>5, <2>1 DEF store
  <2>5. RunningIsHeld'
    BY <1>3, <1>5 DEF RunningIsHeld, store
  <2> QED BY <1>4, <1>5, <2>2, <2>3, <2>4, <2>5 DEF IInv, store
<1>6. ASSUME ~Answered(request.key), drawn < MaxRuns, drawn' = r1,
             \/ /\ Commit(entry)
                /\ job' = [Idle EXCEPT !.step = "publish", !.key = request.key,
                             !.schedule = request.schedule, !.backend = request.backend,
                             !.run = r1, !.todo = todo]
             \/ Refuse(entry) /\ Failed(request.key, todo)
      PROVE  IInv'
  <2>1. r1 \in Runs /\ r1 \in 0..MaxRuns /\ drawn \in Nat /\ r1 \notin 1..drawn
          /\ drawn' \in 0..MaxRuns /\ 1..drawn \subseteq 1..r1 /\ r1 \in 1..r1
    BY <1>6, Typed, Bounds DEF Runs
  <2>2. run \in RunRecords
    BY <1>1, Typed, TimeFacts DEF RunRecords
  <2>3. ASSUME request.key # Manual, NEW r \in Runs, Bears(mem, copies, r, request.key)
        PROVE  FALSE
    BY <1>6, <2>3, Typed DEF Answered, Bears, Good, Agrees
  <2> DEFINE k == run.key
  <2>4. run.status = "running" /\ run.key = request.key /\ run.backend = request.backend
    OBVIOUS
  <2> HIDE DEF run, r1, k
  <2>5. /\ Good(entry, copies, begun, r1, now) /\ Good(mem, copies, begun, r1, now)
        /\ entry \in Stores /\ entry.schedules = mem.schedules /\ entry.runs[r1] = run
        /\ \A q \in Runs \ {r1} : entry.runs[q] = mem.runs[q]
        /\ \A r \in Runs, l \in Scheduled :
             Bears(entry, copies, r, l) => Bears(mem, copies, r, l) \/ (r = r1 /\ l = run.key)
    BY <2>1, <2>2, <2>3, <2>4, Typed, EntryGood DEF r1
  <2>6. Good(disk, copies, begun, r1, now)
    BY <2>1, Typed DEF Good, Fresh, r1, Runs
  <2> HIDE DEF entry
  <2>7. Good(mem, copies, begun, drawn, now)' /\ Good(disk, copies, begun, drawn, now)'
    BY <1>6, <2>5, <2>6, UpdateFacts DEF IInv
  <2>8. CASE Refuse(entry) /\ Failed(request.key, todo)
    <3>1. mem' = mem
      BY <2>5, <2>8, UpdateFacts, RefuseFacts DEF IInv
    <3>2. /\ job' \in Jobs /\ job'.step \in {"idle", "scan", "reject"} /\ job'.todo = todo
          /\ job'.key \in {Manual, request.key} /\ (job'.step = "reject" <=> job'.key # Manual)
          /\ job'.doomed = {} /\ job'.pruned = {}
      BY <1>1, <1>6, <2>8, FailedFacts
    <3>3. /\ mem' \in Stores /\ disk' \in Stores /\ poisoned' \in BOOLEAN
          /\ (~poisoned' => mem' = disk') /\ faults' \in 0..MaxFaults
      BY <2>5, <2>8, UpdateFacts DEF IInv
    <3>4. Types'
      BY <2>1, <3>2, <3>3 DEF IInv, Types
    <3>5. Holding' /\ Removing'
      <4>1. drawn' \in Nat /\ drawn <= drawn'
        BY <1>6, <2>1 DEF r1
      <4> QED BY <3>1, <3>2, <4>1, Resting, Typed DEF IInv, Removing
    <3>6. ToDo(job.todo, job.key, mem, copies, now)'
      BY <1>2, <3>1, <3>2
    <3>7. RunningIsHeld'
      BY <1>3, <3>1 DEF RunningIsHeld
    <3> QED BY <1>4, <2>7, <3>4, <3>5, <3>6, <3>7 DEF IInv
  <2>9. CASE /\ Commit(entry)
             /\ job' = [Idle EXCEPT !.step = "publish", !.key = request.key,
                          !.schedule = request.schedule, !.backend = request.backend,
                          !.run = r1, !.todo = todo]
    <3>1. mem' = entry /\ disk' = entry
      BY <2>9 DEF Commit
    <3>2. /\ job'.step = "publish" /\ job'.key = request.key /\ job'.backend = request.backend
          /\ job'.run = r1 /\ job'.todo = todo /\ job'.doomed = {} /\ job'.pruned = {}
      BY <2>9, IdleFacts DEF Jobs
    <3>3. job' \in Jobs
      BY <1>1, <2>1, <2>9, IdleFacts DEF Jobs
    <3>4. /\ mem' \in Stores /\ disk' \in Stores /\ poisoned' \in BOOLEAN
          /\ (~poisoned' => mem' = disk') /\ faults' \in 0..MaxFaults
      BY <2>5, <2>9, UpdateFacts DEF IInv
    <3>5. Types'
      BY <2>1, <3>3, <3>4 DEF IInv, Types
    <3>6. Holding'
      <4>1. r1 \in 1..drawn'
        BY <1>6, <2>1
      <4> QED BY <2>4, <2>5, <3>1, <3>2, <4>1 DEF Holding, HoldsRun
    <3>7. Removing'
      <4>1. \A r \in 1..drawn : r \in Runs \ {r1} /\ r \in 1..drawn'
        BY <1>6, <2>1, Typed
      <4> QED BY <2>5, <3>1, <3>2, <4>1 DEF IInv, Removing
    <3>8. ToDo(job.todo, job.key, mem, copies, now)'
      <4>1. ASSUME NEW q \in todo
            PROVE  /\ q.key \in Scheduled /\ q.key.due <= now /\ Upcoming(entry, q.key)
                   /\ q.key.schedule # request.key.schedule
                   /\ \A r \in Runs : Bears(entry, copies, r, q.key) => entry.runs[r].status = "running"
        <5>1. /\ q.key \in Scheduled /\ q.key.due <= now /\ Upcoming(mem, q.key)
              /\ q.key # request.key
              /\ \A r \in Runs : Bears(mem, copies, r, q.key) => mem.runs[r].status = "running"
          BY DEF ToDo
        <5>2. Upcoming(entry, q.key)
          BY <2>5, <5>1 DEF Upcoming, Over
        <5> QED BY <2>4, <2>5, <5>1, <5>2
      <4> QED BY <3>1, <3>2, <4>1 DEF ToDo
    <3>9. RunningIsHeld'
      BY <1>3, <2>5, <3>1, <3>2 DEF RunningIsHeld
    <3> QED BY <1>4, <2>7, <3>5, <3>6, <3>7, <3>8, <3>9 DEF IInv
  <2> QED BY <1>6, <2>8, <2>9
<1> QED BY <1>5, <1>6 DEF Admit

\* The scheduler goes on with what it found due.
LEMMA ScanNextStep ==
  ASSUME IInv, ScanNext
  PROVE  IInv'
<1>1. PICK request \in job.todo : Admit(request, job.todo \ {request})
  BY DEF ScanNext
<1> DEFINE todo == job.todo \ {request}
<1>2. request \in Requests /\ todo \in SUBSET Requests /\ job.step = "scan" /\ phase = "serving"
  BY Typed DEF ScanNext
<1>3. job.key = Manual
  BY <1>2 DEF IInv, Holding
<1>4. ToDo(todo, Manual, mem, copies, now) /\ \A q \in todo : q.key.schedule # request.key.schedule
  BY <1>3, Typed DEF ToDo
<1>5. /\ request.key.due <= now /\ Upcoming(mem, request.key)
      /\ \A r \in Runs : Bears(mem, copies, r, request.key) => mem.runs[r].status = "running"
  BY Typed DEF ToDo
<1>6. UNCHANGED <<phase, now, copies, eraser, edits, begun, left>>
  BY DEF ScanNext
<1> HIDE DEF todo
<1>7. Admit(request, todo)
  BY <1>1 DEF todo
<1> QED BY <1>2, <1>4, <1>5, <1>6, <1>7, AdmitStep

\* A run that is asked for by hand.
LEMMA RunNowStep ==
  ASSUME IInv, RunNow
  PROVE  IInv'
<1>1. /\ phase = "serving" /\ job.step = "idle"
      /\ UNCHANGED <<phase, now, copies, eraser, edits, begun, left>>
  BY DEF RunNow, Free
<1>2. PICK request \in Requests : Admit(request, {}) /\ request.key = Manual
  <2>1. ASSUME NEW s \in Schedules \cup {Nothing}, NEW backend \in Backends
        PROVE  ManualRun(s, backend) \in Requests /\ ManualRun(s, backend).key = Manual
    BY KeyFacts DEF ManualRun, Requests
  <2>2. \A named \in ByHand : named.schedule \in Schedules \cup {Nothing} /\ named.backend \in Backends
    BY BackupAssumption
  <2>3. \A s \in Schedules : mem.schedules[s].backend \in Backends
    BY Typed, StoreFacts
  <2> QED BY <2>1, <2>2, <2>3 DEF RunNow
<1>3. ToDo({}, Manual, mem, copies, now)
  BY DEF ToDo
<1> QED BY <1>1, <1>2, <1>3, AdmitStep

\* The run of the job, while it is shown as running.
LEMMA HeldFacts ==
  ASSUME IInv, job.step \in {"publish", "complete", "fail"}
  PROVE  /\ job.run \in 1..drawn /\ job.run \in Runs /\ phase = "serving"
         /\ mem.runs[job.run] \in RunRecords /\ mem.runs[job.run].status = "running"
         /\ mem.runs[job.run].key = job.key /\ mem.runs[job.run].backend = job.backend
         /\ job.key # Manual => job.key \in Scheduled /\ job.key.due <= now
         /\ job.step = "complete" =>
              copies[job.run].state = "published" /\ copies[job.run].backend = job.backend
         /\ \A r \in Runs : mem.runs[r].status = "running" => r \in left \cup {job.run}
         /\ \A k : Bears(mem, copies, job.run, k) => k = job.key
<1>1. /\ job.run \in 1..drawn /\ job.run \in Runs /\ phase = "serving"
      /\ mem.runs[job.run].status = "running" /\ mem.runs[job.run] \in RunRecords
      /\ mem.runs[job.run].key = job.key /\ mem.runs[job.run].backend = job.backend
  BY Typed, StoreFacts DEF IInv, Holding, HoldsRun
<1>2. \A k : Bears(mem, copies, job.run, k) => k = job.key
  BY <1>1, Typed DEF Good, Agrees, Bears
<1> QED BY <1>1, <1>2, Typed, KeyFacts DEF IInv, Holding, RunningIsHeld

LEMMA PublishStep ==
  ASSUME IInv, Publish
  PROVE  IInv'
<1> DEFINE r == job.run
<1>1. /\ job.step = "publish" /\ (Commit(mem) \/ Refuse(mem))
      /\ UNCHANGED <<phase, now, eraser, drawn, edits, begun, left>>
  BY DEF Publish
<1>2. /\ mem' = mem /\ disk' \in {disk, mem} /\ poisoned' \in BOOLEAN
      /\ (~poisoned' => mem' = disk') /\ faults' \in 0..MaxFaults
      /\ mem' \in Stores /\ disk' \in Stores
  BY <1>1, UpdateFacts, Typed DEF IInv
<1>3. job' \in Jobs /\ job'.step \in {"complete", "fail"} /\ job' = [job EXCEPT !.step = job'.step]
  BY Typed DEF Publish, Goto, Jobs
<1>4. /\ job'.run = r /\ job'.key = job.key /\ job'.backend = job.backend /\ job'.todo = job.todo
      /\ job'.doomed = job.doomed /\ job'.pruned = job.pruned
  BY <1>3, Typed DEF Jobs
<1>5. PICK e \in [Runs -> Copies] :
        /\ copies' = e
        /\ \A st : Good(st, copies, begun, drawn, now) /\ HoldsRun(st) =>
             Good(st, e, begun, drawn, now)
        /\ \A q \in Runs, k \in Scheduled : Bears(mem, e, q, k) => Bears(mem, copies, q, k)
        /\ job'.step = "complete" =>
             e[r].state = "published" /\ e[r].backend = job.backend /\ e[r].key = job.key
  <2>1. CASE copies' = copies /\ job'.step = "fail"
    BY <2>1, Typed
  <2>2. ASSUME NEW state \in {"none", "staged", "published"},
               copies' = [copies EXCEPT ![r] = Copy(state)],
               job'.step = "complete" => state = "published"
        PROVE  \E e \in [Runs -> Copies] :
                 /\ copies' = e
                 /\ \A st : Good(st, copies, begun, drawn, now) /\ HoldsRun(st) =>
                      Good(st, e, begun, drawn, now)
                 /\ \A q \in Runs, k \in Scheduled : Bears(mem, e, q, k) => Bears(mem, copies, q, k)
                 /\ job'.step = "complete" =>
                      e[r].state = "published" /\ e[r].backend = job.backend /\ e[r].key = job.key
    <3>1. r \in Runs /\ mem.runs[r] \in RunRecords
      BY <1>1, HeldFacts
    <3>2. /\ Copy(state) \in Copies /\ Copy(state).key = job.key /\ Copy(state).backend = job.backend
          /\ Copy(state).state = state
      BY <3>1, Typed DEF Copy, Copies, RunRecords
    <3> DEFINE copy == Copy(state)
               e == [copies EXCEPT ![r] = copy]
    <3> HIDE DEF copy
    <3>3. e \in [Runs -> Copies] /\ e[r] = copy /\ copies' = e
      BY <2>2, <3>1, <3>2, Typed DEF copy
    <3>4. \A st : Good(st, copies, begun, drawn, now) /\ HoldsRun(st) => Good(st, e, begun, drawn, now)
      BY <3>1, <3>2, PublishedGood, Typed DEF HoldsRun, copy
    <3>5. \A q \in Runs, k \in Scheduled : Bears(mem, e, q, k) => Bears(mem, copies, q, k)
      BY <1>1, <3>1, <3>2, PublishedGood, Typed, HeldFacts DEF copy
    <3> HIDE DEF e
    <3> QED BY <2>2, <3>2, <3>3, <3>4, <3>5 DEF copy
  <2>3. \A step : Goto(step) => job'.step = step
    BY Typed DEF Goto, Jobs
  <2>4. \/ Goto("complete") /\ copies' = [copies EXCEPT ![r] = Copy("published")]
        \/ Goto("fail") /\ \E state \in Remnants : copies' = [copies EXCEPT ![r] = Copy(state)]
        \/ Goto("fail") /\ copies' = copies
    BY DEF Publish
  <2>5. \/ copies' = copies /\ job'.step = "fail"
        \/ \E state \in {"none", "staged", "published"} :
             /\ copies' = [copies EXCEPT ![r] = Copy(state)]
             /\ job'.step = "complete" => state = "published"
    BY <2>3, <2>4 DEF Remnants
  <2> QED BY <2>1, <2>2, <2>5
<1>6. Types'
  BY <1>1, <1>2, <1>3, <1>5 DEF IInv, Types
<1>7. Good(mem, copies, begun, drawn, now)' /\ Good(disk, copies, begun, drawn, now)'
  BY <1>1, <1>2, <1>5, Typed DEF IInv, Holding
<1>8. Holding' /\ Removing' /\ Starting' /\ RunningIsHeld'
  <2>1. Holding'
    BY <1>1, <1>2, <1>3, <1>4, <1>5 DEF IInv, Holding, HoldsRun
  <2>2. Removing'
    BY <1>1, <1>2, <1>4 DEF IInv, Removing
  <2>3. Starting'
    BY <1>1, HeldFacts DEF Starting
  <2>4. RunningIsHeld'
    BY <1>1, <1>2, <1>3, <1>4, HeldFacts DEF RunningIsHeld
  <2> QED BY <2>1, <2>2, <2>3, <2>4
<1>9. ToDo(job.todo, job.key, mem, copies, now)'
  <2>1. ToDo(job.todo, job.key, mem, copies', now)
    BY <1>5, Typed DEF ToDo
  <2> QED BY <1>1, <1>2, <1>4, <2>1
<1> QED BY <1>6, <1>7, <1>8, <1>9 DEF IInv

\* The end of the run of the job, before it is written.
LEMMA EndedFacts ==
  ASSUME IInv, job.step \in {"complete", "fail"}, NEW status \in {"succeeded", "failed"},
         NEW manifest \in BOOLEAN, status = "succeeded" => job.step = "complete"
  PROVE  LET u == Ended(status, manifest)
         IN /\ u \in Stores /\ Good(u, copies, begun, drawn, now)
            /\ u.runs[job.run].status = status
            /\ \A q \in Runs \ {job.run} : u.runs[q] = mem.runs[q]
            /\ ToDo(job.todo, job.key, u, copies, now)
<1> DEFINE r == job.run
           run == [mem.runs[r] EXCEPT !.status = status, !.manifest = manifest]
           w == WithRun(mem, r, run)
           u == Advanced(w, job.key.schedule)
<1>1. /\ r \in Runs /\ mem.runs[r] \in RunRecords /\ mem.runs[r].status = "running"
      /\ mem.runs[r].key = job.key /\ mem.runs[r].backend = job.backend
      /\ job.key # Manual => job.key \in Scheduled
      /\ job.step = "complete" => copies[r].state = "published" /\ copies[r].backend = job.backend
      /\ \A k : Bears(mem, copies, r, k) => k = job.key
  BY HeldFacts
<1>2. /\ run \in RunRecords /\ run.status = status /\ run.key = job.key
      /\ run.backend = mem.runs[r].backend
  BY <1>1 DEF RunRecords
<1>3. Ended(status, manifest) = u
  BY DEF Ended
<1> HIDE DEF run
<1>4. /\ w \in Stores /\ w.schedules = mem.schedules /\ w.runs[r] = run
      /\ \A q \in Runs \ {r} : w.runs[q] = mem.runs[q]
  BY <1>1, <1>2, WithRunFacts, Typed
<1> HIDE DEF w
<1>5. Dead(w)
  BY <1>4, Typed DEF Dead
<1>6. job.key.schedule \in Schedules \cup {Nothing}
      /\ (job.key # Manual => job.key.schedule \in Schedules /\ job.key.schedule # Nothing)
  BY <1>1, KeyFacts, Bounds
<1>7. /\ u \in Stores /\ u.runs = w.runs /\ Dead(u)
      /\ \A x \in Schedules : x # job.key.schedule => u.schedules[x] = w.schedules[x]
      /\ job.key.schedule # Nothing => u.schedules[job.key.schedule].next \in {0, now + 1}
      /\ \A x \in Schedules : u.schedules[x] = w.schedules[x] \/ u.schedules[x].next \in {0, now + 1}
  BY <1>4, <1>5, <1>6, AdvancedFacts, Typed
<1> HIDE DEF u
<1>8. /\ Good(u, copies, begun, drawn, now)
      /\ \A q \in Runs, k \in Scheduled : Bears(u, copies, q, k) <=> Bears(mem, copies, q, k)
  <2>1. now \in Nat /\ Good(mem, copies, begun, drawn, now)
    BY Typed
  <2>2. u.runs[r] = run /\ \A q \in Runs \ {r} : u.runs[q] = mem.runs[q]
    BY <1>4, <1>7
  <2>3. \A x \in Schedules : u.schedules[x] = mem.schedules[x] \/ u.schedules[x].next \in {0, now + 1}
    BY <1>4, <1>7
  <2>4. mem.runs[r].key # Manual => u.schedules[mem.runs[r].key.schedule].next \in {0, now + 1}
    BY <1>1, <1>6, <1>7
  <2>5. /\ u.runs[r].status \in {"succeeded", "failed"}
        /\ u.runs[r].key = mem.runs[r].key /\ u.runs[r].backend = mem.runs[r].backend
        /\ u.runs[r].status = "succeeded" =>
             copies[r].state = "published" /\ copies[r].backend = mem.runs[r].backend
    BY <1>1, <1>2, <2>2
  <2> QED BY <1>1, <1>7, <2>1, <2>2, <2>3, <2>4, <2>5, EndedGood
<1>9. ToDo(job.todo, job.key, u, copies, now)
  <2>1. ASSUME NEW q \in job.todo
        PROVE  /\ Upcoming(u, q.key)
               /\ \A x \in Runs : Bears(u, copies, x, q.key) => u.runs[x].status = "running"
    <3>1. /\ q.key \in Scheduled /\ q.key.schedule # job.key.schedule /\ Upcoming(mem, q.key)
          /\ \A x \in Runs : Bears(mem, copies, x, q.key) => mem.runs[x].status = "running"
          /\ q.key.schedule \in Schedules
      BY Typed, KeyFacts DEF ToDo
    <3>2. u.schedules[q.key.schedule] = mem.schedules[q.key.schedule]
      BY <1>4, <1>7, <3>1
    <3> QED BY <1>1, <1>4, <1>7, <1>8, <3>1, <3>2 DEF Upcoming, Over
  <2> QED BY <2>1, Typed DEF ToDo
<1> QED BY <1>2, <1>3, <1>4, <1>7, <1>8, <1>9

LEMMA CompleteStep ==
  ASSUME IInv, Complete
  PROVE  IInv'
<1> DEFINE entry == Ended("succeeded", TRUE)
<1>1. /\ job.step = "complete"
      /\ \/ Commit(entry) /\ (IF job.schedule = Nothing THEN Done({}) ELSE Goto("prune"))
         \/ Refuse(entry) /\ job' = [job EXCEPT !.step = "fail", !.manifest = TRUE]
      /\ UNCHANGED <<phase, now, copies, eraser, drawn, edits, begun, left>>
  BY DEF Complete
<1>2. /\ entry \in Stores /\ Good(entry, copies, begun, drawn, now)
      /\ entry.runs[job.run].status = "succeeded"
      /\ \A q \in Runs \ {job.run} : entry.runs[q] = mem.runs[q]
      /\ ToDo(job.todo, job.key, entry, copies, now)
  BY <1>1, EndedFacts
<1> HIDE DEF entry
<1>3. /\ mem' \in {mem, entry} /\ disk' \in {disk, entry} /\ poisoned' \in BOOLEAN
      /\ (~poisoned' => mem' = disk') /\ faults' \in 0..MaxFaults
      /\ mem' \in Stores /\ disk' \in Stores
  BY <1>1, <1>2, UpdateFacts DEF IInv
<1>4. job' \in Jobs
  <2>1. Done({}) => job' \in Jobs
    BY DoneFacts
  <2> QED BY <1>1, <2>1, Typed DEF Goto, Jobs
<1>5. Types'
  BY <1>1, <1>3, <1>4 DEF IInv, Types
<1>6. Good(mem, copies, begun, drawn, now)' /\ Good(disk, copies, begun, drawn, now)'
  BY <1>1, <1>2, <1>3, Typed
<1>7. Starting'
  BY <1>1, HeldFacts DEF Starting
<1>8. CASE Refuse(entry) /\ job' = [job EXCEPT !.step = "fail", !.manifest = TRUE]
  <2>1. mem' = mem
    BY <1>8, RefuseFacts DEF IInv
  <2>2. /\ job'.step = "fail" /\ job'.run = job.run /\ job'.key = job.key /\ job'.todo = job.todo
        /\ job'.backend = job.backend /\ job'.doomed = job.doomed /\ job'.pruned = job.pruned
    BY <1>8, Typed DEF Jobs
  <2>3. Holding' /\ Removing'
    BY <1>1, <2>1, <2>2 DEF IInv, Holding, HoldsRun, Removing
  <2>4. RunningIsHeld'
    BY <1>1, <2>1, <2>2, HeldFacts DEF RunningIsHeld
  <2>5. ToDo(job.todo, job.key, mem, copies, now)'
    BY <1>1, <2>1, <2>2, Typed
  <2> QED BY <1>5, <1>6, <1>7, <2>3, <2>4, <2>5 DEF IInv
<1>9. CASE Commit(entry) /\ (IF job.schedule = Nothing THEN Done({}) ELSE Goto("prune"))
  <2>1. mem' = entry
    BY <1>9 DEF Commit
  <2>2. \A r \in Runs : mem'.runs[r].status = "running" => mem.runs[r].status = "running" /\ r # job.run
    BY <1>2, <2>1
  <2>3. RunningIsHeld'
    BY <1>1, <2>2, HeldFacts DEF RunningIsHeld
  <2>4. eraser.step # "idle" => eraser.run \in 1..drawn /\ mem'.runs[eraser.run].status # "running"
    BY <2>2, Typed DEF IInv, Removing
  <2>5. CASE job.schedule = Nothing
    <3>1. /\ job'.step \in {"idle", "scan"} /\ job'.key = Manual
          /\ job'.todo = {} /\ job'.doomed = {} /\ job'.pruned = {}
      BY <1>9, <2>5, DoneFacts
    <3>2. Holding' /\ Removing'
      BY <1>1, <2>4, <3>1, Resting, Typed
    <3>3. ToDo(job.todo, job.key, mem, copies, now)'
      BY <3>1 DEF ToDo
    <3> QED BY <1>5, <1>6, <1>7, <2>3, <3>2, <3>3 DEF IInv
  <2>6. CASE job.schedule # Nothing
    <3>1. /\ job'.step = "prune" /\ job'.key = job.key /\ job'.todo = job.todo
          /\ job'.schedule = job.schedule /\ job'.doomed = job.doomed /\ job'.pruned = job.pruned
      BY <1>9, <2>6, Typed DEF Goto, Jobs
    <3>2. Holding'
      BY <1>1, <2>6, <3>1 DEF IInv, Holding
    <3>3. Removing'
      BY <1>1, <2>2, <2>4, <3>1, Typed DEF IInv, Removing
    <3>4. ToDo(job.todo, job.key, mem, copies, now)'
      BY <1>1, <1>2, <2>1, <3>1
    <3> QED BY <1>5, <1>6, <1>7, <2>3, <3>2, <3>3, <3>4 DEF IInv
  <2> QED BY <2>5, <2>6
<1> QED BY <1>1, <1>8, <1>9

LEMMA FailStep ==
  ASSUME IInv, Fail
  PROVE  IInv'
<1> DEFINE entry == Ended("failed", job.manifest)
<1>1. /\ job.step = "fail" /\ Failed(job.key, job.todo)
      /\ \/ Commit(entry) /\ left' = left
         \/ Refuse(entry) /\ left' = left \cup {job.run}
      /\ UNCHANGED <<phase, now, copies, eraser, drawn, edits, begun>>
  BY DEF Fail
<1>2. job.manifest \in BOOLEAN
  BY Typed DEF Jobs
<1>3. /\ entry \in Stores /\ Good(entry, copies, begun, drawn, now)
      /\ entry.runs[job.run].status = "failed"
      /\ \A q \in Runs \ {job.run} : entry.runs[q] = mem.runs[q]
      /\ ToDo(job.todo, job.key, entry, copies, now)
  BY <1>1, <1>2, EndedFacts
<1> HIDE DEF entry
<1>4. /\ mem' \in {mem, entry} /\ disk' \in {disk, entry} /\ poisoned' \in BOOLEAN
      /\ (~poisoned' => mem' = disk') /\ faults' \in 0..MaxFaults
      /\ mem' \in Stores /\ disk' \in Stores
      /\ Commit(entry) => mem' = entry
  BY <1>1, <1>3, UpdateFacts DEF IInv
<1>5. /\ job' \in Jobs /\ job'.step \in {"idle", "scan", "reject"}
      /\ job'.key \in {Manual, job.key} /\ (job'.step = "reject" <=> job'.key # Manual)
      /\ job'.todo = job.todo /\ job'.doomed = {} /\ job'.pruned = {}
  BY <1>1, FailedFacts, Typed
<1>6. left' \subseteq Runs
  BY <1>1, HeldFacts DEF IInv, Types
<1>7. Types'
  BY <1>1, <1>4, <1>5, <1>6 DEF IInv, Types
<1>8. Good(mem, copies, begun, drawn, now)' /\ Good(disk, copies, begun, drawn, now)'
  BY <1>1, <1>3, <1>4, Typed
<1>9. \A r \in Runs : mem'.runs[r].status = "running" => mem.runs[r].status = "running"
  BY <1>1, <1>3, <1>4, HeldFacts
<1>10. Holding' /\ Removing'
  <2>1. eraser.step # "idle" => mem'.runs[eraser.run].status # "running"
    BY <1>9, Typed DEF IInv, Removing
  <2>2. job'.key # Manual => job'.key.due <= now
    BY <1>1, <1>5, HeldFacts
  <2> QED BY <1>1, <1>5, <2>1, <2>2, Resting, Typed
<1>11. Starting'
  BY <1>1, HeldFacts DEF Starting
<1>12. RunningIsHeld'
  <2>1. ASSUME NEW r \in Runs, mem'.runs[r].status = "running"
        PROVE  r \in left'
    <3>1. mem.runs[r].status = "running" /\ r \in left \cup {job.run}
      BY <1>1, <1>9, <2>1, HeldFacts
    <3>2. CASE Commit(entry) /\ left' = left
      BY <1>3, <1>4, <2>1, <3>1, <3>2
    <3>3. CASE Refuse(entry) /\ left' = left \cup {job.run}
      BY <3>1, <3>3
    <3> QED BY <1>1, <3>2, <3>3
  <2> QED BY <2>1 DEF RunningIsHeld
<1>13. ToDo(job.todo, job.key, mem, copies, now)'
  <2>1. ToDo(job.todo, job.key, mem', copies, now)
    BY <1>3, <1>4, Typed
  <2>2. job'.key = Manual => ToDo(job.todo, Manual, mem', copies, now)
    BY <2>1, KeyFacts, Bounds DEF ToDo
  <2> QED BY <1>1, <1>5, <2>1, <2>2
<1> QED BY <1>7, <1>8, <1>10, <1>11, <1>12, <1>13 DEF IInv

\* A step of the job that leaves the runs as they are: their store may only
\* advance schedules.
LEMMA RestStep ==
  ASSUME IInv, NEW next \in Stores, Commit(next) \/ Refuse(next) \/ UNCHANGED store,
         Good(next, copies, begun, drawn, now), 
         \A r \in Runs : next.runs[r].status = "running" => mem.runs[r].status = "running",
         ToDo(job.todo, Manual, next, copies, now),
         job.step \in {"reject", "prune", "pruning"}, Done(job.todo),
         UNCHANGED <<phase, now, copies, eraser, drawn, edits, begun, left>>
  PROVE  IInv'
<1>1. /\ mem' \in {mem, next} /\ disk' \in {disk, next} /\ poisoned' \in BOOLEAN
      /\ (~poisoned' => mem' = disk') /\ faults' \in 0..MaxFaults
      /\ mem' \in Stores /\ disk' \in Stores
  <2>1. CASE UNCHANGED store
    BY <2>1 DEF IInv, Types, store
  <2> QED BY <2>1, UpdateFacts DEF IInv
<1>2. /\ job' \in Jobs /\ job'.step \in {"idle", "scan"} /\ job'.key = Manual
      /\ job'.todo = job.todo /\ job'.doomed = {} /\ job'.pruned = {}
  BY DoneFacts, Typed
<1>3. Types'
  BY <1>1, <1>2 DEF IInv, Types
<1>4. Good(mem, copies, begun, drawn, now)' /\ Good(disk, copies, begun, drawn, now)'
  BY <1>1, Typed
<1>5. Holding' /\ Removing'
  <2>1. eraser.step # "idle" => mem'.runs[eraser.run].status # "running"
    BY <1>1, Typed DEF IInv, Removing
  <2> QED BY <1>2, <2>1, Resting, Typed
<1>6. Starting'
  BY Typed DEF Starting
<1>7. RunningIsHeld'
  BY <1>1 DEF IInv, RunningIsHeld
<1>8. ToDo(job.todo, job.key, mem, copies, now)'
  <2>1. ToDo(job.todo, Manual, mem, copies, now)
    BY Typed, KeyFacts, Bounds DEF ToDo
  <2> QED BY <1>1, <1>2, <2>1
<1> QED BY <1>3, <1>4, <1>5, <1>6, <1>7, <1>8 DEF IInv

LEMMA RejectStep ==
  ASSUME IInv, Reject
  PROVE  IInv'
<1> DEFINE next == Advanced(mem, job.key.schedule)
<1>1. /\ job.step = "reject" /\ Done(job.todo) /\ (Commit(next) \/ Refuse(next) \/ UNCHANGED store)
      /\ UNCHANGED <<phase, now, copies, eraser, drawn, edits, begun, left>>
  BY DEF Reject
<1>2. job.key.schedule \in Schedules \cup {Nothing}
  BY <1>1, Typed, KeyFacts DEF IInv, Holding
<1>3. /\ next \in Stores /\ next.runs = mem.runs /\ Dead(next)
      /\ \A x \in Schedules :
           next.schedules[x] = mem.schedules[x] \/ next.schedules[x].next \in {0, now + 1}
  BY <1>2, AdvancedFacts, Typed
<1> HIDE DEF next
<1>4. /\ Good(next, copies, begun, drawn, now)
      /\ \A k \in Scheduled : k.due <= now => (Upcoming(mem, k) => Upcoming(next, k))
  BY <1>3, SchedulesMove, Typed
<1>5. ToDo(job.todo, Manual, next, copies, now)
  BY <1>3, <1>4, Typed, KeyFacts, Bounds DEF ToDo, Bears
<1> QED BY <1>1, <1>3, <1>4, <1>5, RestStep

\* Retention dooms runs that succeeded.
LEMMA PruneStep ==
  ASSUME IInv, Prune
  PROVE  IInv'
<1> DEFINE s == job.schedule
           doomed == {r \in Candidates(s) \ Kept(s) : mem.runs[r].manifest}
<1>1. job.step = "prune" /\ UNCHANGED <<store, phase, now, copies, eraser, drawn, edits, begun, left>>
  BY DEF Prune
<1>2. ToDo(job.todo, Manual, mem, copies, now)
  BY Typed, KeyFacts, Bounds DEF ToDo
<1>3. CASE Done(job.todo)
  BY <1>1, <1>2, <1>3, RestStep, Typed
<1>4. CASE job' = [job EXCEPT !.step = "pruning", !.backend = mem.schedules[s].backend,
                              !.doomed = doomed]
  <2>1. \A r \in doomed : r \in Runs /\ mem.runs[r].status = "succeeded" /\ r \in 1..drawn
    BY Typed DEF Candidates, Good, Fresh, Runs
  <2> HIDE DEF doomed
  <2>2. mem.schedules[s].backend \in Backends
    BY <1>1, Typed, StoreFacts DEF IInv, Holding
  <2>3. /\ job'.step = "pruning" /\ job'.key = job.key /\ job'.todo = job.todo
        /\ job'.doomed = doomed /\ job'.pruned = job.pruned
    BY <1>4, Typed DEF Jobs
  <2>4. job' \in Jobs
    BY <1>4, <2>1, <2>2, Typed DEF Jobs
  <2>5. Types'
    BY <1>1, <2>4 DEF IInv, Types, store
  <2>6. Holding'
    BY <1>1, <2>3 DEF IInv, Holding
  <2>7. Removing'
    BY <1>1, <2>1, <2>3 DEF IInv, Removing, store
  <2>8. Starting' /\ RunningIsHeld'
    BY <1>1, <2>3, Typed DEF IInv, Starting, RunningIsHeld, store
  <2>9. ToDo(job.todo, job.key, mem, copies, now)'
    BY <1>1, <2>3, Typed DEF store
  <2> QED BY <1>1, <2>5, <2>6, <2>7, <2>8, <2>9 DEF IInv, store
<1> QED BY <1>3, <1>4 DEF Prune

\* A bundle is erased from a backend.
LEMMA EraseFacts ==
  ASSUME IInv, NEW r \in 1..drawn, NEW backend, EraseFails(r, backend),
         UNCHANGED <<store, now, drawn>>
  PROVE  /\ copies' \in [Runs -> Copies] /\ begun' \subseteq Runs
         /\ Good(mem, copies', begun', drawn, now) /\ Good(disk, copies', begun', drawn, now)
         /\ \A q \in Runs, k \in Scheduled : Bears(mem, copies', q, k) => Bears(mem, copies, q, k)
         /\ \A key : ToDo(job.todo, key, mem, copies, now) => ToDo(job.todo, key, mem, copies', now)
<1>1. CASE UNCHANGED <<copies, begun>>
  BY <1>1, Typed DEF IInv, Types
<1>2. CASE copies' = [copies EXCEPT ![r] = NoCopy] /\ begun' = begun \cup {r}
  <2>1. r \in Runs
    BY Typed
  <2>2. copies' \in [Runs -> Copies] /\ begun' \subseteq Runs
    BY <1>2, <2>1, CopyFacts, Typed DEF IInv, Types
  <2>3. /\ Good(mem, copies', begun', drawn, now) /\ Good(disk, copies', begun', drawn, now)
        /\ \A q \in Runs, k \in Scheduled : Bears(mem, copies', q, k) => Bears(mem, copies, q, k)
    BY <1>2, <2>1, ErasedGood, Typed
  <2> QED BY <2>2, <2>3 DEF ToDo
<1> QED BY <1>1, <1>2 DEF EraseFails, Erase

LEMMA PruneDeleteStep ==
  ASSUME IInv, PruneDelete
  PROVE  IInv'
<1>1. job.step = "pruning" /\ UNCHANGED <<store, phase, now, eraser, drawn, edits, left>>
  BY DEF PruneDelete
<1>2. PICK r \in job.doomed :
        /\ EraseFails(r, job.backend)
        /\ \/ job' = [job EXCEPT !.doomed = @ \ {r}, !.pruned = @ \cup {r}]
           \/ job' = [job EXCEPT !.doomed = @ \ {r}]
  BY DEF PruneDelete, EraseFails
<1>3. r \in 1..drawn /\ r \in Runs
  BY Typed DEF IInv, Removing
<1>4. /\ copies' \in [Runs -> Copies] /\ begun' \subseteq Runs
      /\ Good(mem, copies', begun', drawn, now) /\ Good(disk, copies', begun', drawn, now)
      /\ ToDo(job.todo, job.key, mem, copies', now)
  BY <1>1, <1>2, <1>3, EraseFacts, Typed
<1>5. /\ job'.step = "pruning" /\ job'.key = job.key /\ job'.todo = job.todo
      /\ \A q \in job'.doomed \cup job'.pruned : q \in job.doomed \cup job.pruned
      /\ job' \in Jobs
  <2> DEFINE doomed == job.doomed \ {r}
             pruned == job.pruned \cup {r}
  <2>1. doomed \subseteq Runs /\ pruned \subseteq Runs
    BY <1>3, Typed DEF Jobs
  <2>2. \A q : (q \in doomed => q \in job.doomed) /\ (q \in pruned => q \in job.doomed \cup job.pruned)
    OBVIOUS
  <2>3. \/ job' = [job EXCEPT !.doomed = doomed, !.pruned = pruned]
        \/ job' = [job EXCEPT !.doomed = doomed]
    BY <1>2, Typed DEF Jobs
  <2> HIDE DEF doomed, pruned
  <2>4. job' \in Jobs
    BY <2>1, <2>3, Typed DEF Jobs
  <2>5. job'.step = "pruning" /\ job'.key = job.key /\ job'.todo = job.todo
    BY <1>1, <2>3, Typed DEF Jobs
  <2>6. job'.doomed = doomed /\ job'.pruned \in {job.pruned, pruned}
    BY <2>3, Typed DEF Jobs
  <2> QED BY <2>2, <2>4, <2>5, <2>6
<1>7. Types'
  BY <1>1, <1>4, <1>5 DEF IInv, Types, store
<1>8. Holding'
  BY <1>1, <1>5 DEF IInv, Holding
<1>9. Removing'
  BY <1>1, <1>5 DEF IInv, Removing, store
<1>10. Starting' /\ RunningIsHeld'
  BY <1>1, <1>5, Typed DEF IInv, Starting, RunningIsHeld, store
<1>11. ToDo(job.todo, job.key, mem, copies, now)'
  BY <1>1, <1>4, <1>5 DEF store
<1>12. Good(mem, copies, begun, drawn, now)' /\ Good(disk, copies, begun, drawn, now)'
  BY <1>1, <1>4 DEF store
<1> QED BY <1>7, <1>8, <1>9, <1>10, <1>11, <1>12 DEF IInv

LEMMA PruneForgetStep ==
  ASSUME IInv, PruneForget
  PROVE  IInv'
<1> DEFINE next == Forgotten(mem, job.pruned)
<1>1. /\ job.step = "pruning" /\ Done(job.todo) /\ (Commit(next) \/ Refuse(next) \/ UNCHANGED store)
      /\ UNCHANGED <<phase, now, copies, eraser, drawn, edits, begun, left>>
  BY DEF PruneForget
<1>2. \A r \in Runs : r \in job.pruned => mem.runs[r].status # "running"
  BY DEF IInv, Removing
<1>3. /\ next \in Stores /\ next.schedules = mem.schedules
      /\ \A q \in Runs : next.runs[q] = IF q \in job.pruned THEN NoRun ELSE mem.runs[q]
      /\ Good(next, copies, begun, drawn, now)
      /\ \A r \in Runs, k \in Scheduled : Bears(next, copies, r, k) => Bears(mem, copies, r, k)
  <2>1. Good(mem, copies, begun, drawn, now)
    BY Typed
  <2>2. /\ Good(next, copies, begun, drawn, now)
        /\ \A r \in Runs, k \in Scheduled : Bears(next, copies, r, k) => Bears(mem, copies, r, k)
    BY <1>2, <2>1, ForgottenGood
  <2> QED BY <2>2, ForgottenFacts, Typed
<1> HIDE DEF next
<1>4. \A r \in Runs : next.runs[r].status = "running" => mem.runs[r].status = "running"
  BY <1>3, NoRunFacts
<1>5. ToDo(job.todo, Manual, next, copies, now)
  <2>1. \A r \in Runs : mem.runs[r].status = "running" => next.runs[r].status = "running"
    BY <1>2, <1>3
  <2>2. \A q \in job.todo : q.key \in Scheduled /\ q.key.schedule # Manual.schedule
    BY Typed, KeyFacts, Bounds DEF ToDo
  <2> QED BY <1>3, <2>1, <2>2, Typed DEF ToDo, Upcoming, Over
<1> QED BY <1>1, <1>3, <1>4, <1>5, RestStep

-----------------------------------------------------------------------------
(* Steps of the others                                                     *)

\* A request that does not take the lock writes the store: the runs that are
\* shown as running are left as they are.
LEMMA OtherStep ==
  ASSUME IInv, NEW next \in Stores, Commit(next) \/ Refuse(next) \/ UNCHANGED store,
         Good(next, copies, begun, drawn, now),
         \A r \in Runs : next.runs[r].status = "running" => mem.runs[r].status = "running",
         \A r \in Runs : mem.runs[r].status = "running" => next.runs[r] = mem.runs[r],
         ToDo(job.todo, job.key, next, copies, now),
         phase = "serving", eraser' \in {eraser, NoEraser}, edits' \in 0..MaxEdits,
         UNCHANGED <<phase, now, copies, job, drawn, begun, left>>
  PROVE  IInv'
<1>1. /\ mem' \in {mem, next} /\ disk' \in {disk, next} /\ poisoned' \in BOOLEAN
      /\ (~poisoned' => mem' = disk') /\ faults' \in 0..MaxFaults
      /\ mem' \in Stores /\ disk' \in Stores
  <2>1. CASE UNCHANGED store
    BY <2>1 DEF IInv, Types, store
  <2> QED BY <2>1, UpdateFacts DEF IInv
<1>2. Types'
  BY <1>1, IdleFacts DEF IInv, Types
<1>3. Good(mem, copies, begun, drawn, now)' /\ Good(disk, copies, begun, drawn, now)'
  BY <1>1, Typed
<1>4. Holding'
  <2>1. job.step \in {"publish", "complete", "fail"} =>
          next.runs[job.run] = mem.runs[job.run] /\ HoldsRun(mem)
    BY HeldFacts DEF HoldsRun
  <2>2. job.step \in {"publish", "complete", "fail"} => HoldsRun(next)
    BY <2>1 DEF HoldsRun
  <2>3. job.step \in {"publish", "complete", "fail"} => HoldsRun(mem)'
    BY <1>1, <2>1, <2>2 DEF HoldsRun
  <2>4. job.step = "publish" => HoldsRun(disk)'
    BY <1>1, <2>2 DEF IInv, Holding, HoldsRun
  <2> QED BY <2>3, <2>4 DEF IInv, Holding
<1>5. Removing'
  BY <1>1, IdleFacts, Typed DEF IInv, Removing
<1>6. Starting' /\ RunningIsHeld'
  BY <1>1 DEF IInv, Starting, RunningIsHeld
<1>7. ToDo(job.todo, job.key, mem, copies, now)'
  BY <1>1, Typed
<1> QED BY <1>2, <1>3, <1>4, <1>5, <1>6, <1>7 DEF IInv

LEMMA EraseBeginStep ==
  ASSUME IInv, NEW r \in Runs, EraseBegin(r)
  PROVE  IInv'
<1>1. /\ phase = "serving" /\ mem.runs[r].status \notin {"none", "running"}
      /\ eraser' = [step |-> IF mem.runs[r].manifest THEN "remove" ELSE "forget",
                    run |-> r, backend |-> mem.runs[r].backend]
      /\ UNCHANGED <<mem, disk, poisoned, faults, phase, now, copies, job, drawn, edits, begun, left>>
  BY DEF EraseBegin, store
<1>2. r \in 1..drawn /\ r \in 0..MaxRuns
  BY <1>1, Typed DEF Good, Fresh, Runs
<1>3. eraser' \in Erasers /\ eraser'.run = r
  BY <1>1, <1>2, Typed, StoreFacts DEF Erasers
<1>4. Types'
  BY <1>1, <1>3 DEF IInv, Types
<1>5. Holding' /\ Removing' /\ Starting' /\ RunningIsHeld'
  BY <1>1, <1>2, <1>3 DEF IInv, Holding, HoldsRun, Removing, Starting, RunningIsHeld
<1> QED BY <1>1, <1>4, <1>5 DEF IInv

LEMMA EraseRemoveStep ==
  ASSUME IInv, EraseRemove
  PROVE  IInv'
<1>1. /\ eraser.step = "remove" /\ EraseFails(eraser.run, eraser.backend)
      /\ eraser' = NoEraser \/ eraser' = [eraser EXCEPT !.step = "forget"]
      /\ UNCHANGED <<store, phase, now, job, drawn, edits, left>>
  BY DEF EraseRemove, EraseFails
<1>2. eraser.run \in 1..drawn /\ mem.runs[eraser.run].status # "running" /\ phase = "serving"
  BY <1>1, Typed, IdleFacts DEF IInv, Removing, Starting, Types
<1>3. /\ copies' \in [Runs -> Copies] /\ begun' \subseteq Runs
      /\ Good(mem, copies', begun', drawn, now) /\ Good(disk, copies', begun', drawn, now)
      /\ ToDo(job.todo, job.key, mem, copies', now)
      /\ job.step = "complete" => copies'[job.run] = copies[job.run]
  <2>1. job.step = "complete" => job.run # eraser.run
    BY <1>2, HeldFacts
  <2>2. job.step = "complete" => copies'[job.run] = copies[job.run]
    BY <1>1, <2>1, Typed, HeldFacts DEF EraseFails, Erase
  <2> QED BY <1>1, <1>2, <2>2, EraseFacts, Typed
<1>4. eraser' \in Erasers /\ (eraser'.step # "idle" => eraser'.run = eraser.run)
  BY <1>1, Typed, IdleFacts DEF Erasers
<1>5. Types'
  BY <1>1, <1>3, <1>4 DEF IInv, Types, store
<1>6. Holding'
  BY <1>1, <1>3 DEF IInv, Holding, HoldsRun, store
<1>7. Removing' /\ Starting' /\ RunningIsHeld'
  BY <1>1, <1>2, <1>4 DEF IInv, Removing, Starting, RunningIsHeld, store
<1> QED BY <1>1, <1>3, <1>5, <1>6, <1>7 DEF IInv, store

LEMMA EraseForgetStep ==
  ASSUME IInv, EraseForget
  PROVE  IInv'
<1> DEFINE r == eraser.run
           next == Forgotten(mem, {r})
<1>1. /\ eraser.step = "forget" /\ eraser' = NoEraser
      /\ Commit(next) \/ Refuse(next) \/ UNCHANGED store
      /\ UNCHANGED <<phase, now, copies, job, drawn, edits, begun, left>>
  BY DEF EraseForget
<1>2. r \in Runs /\ mem.runs[r].status # "running" /\ phase = "serving"
  BY <1>1, Typed, IdleFacts DEF IInv, Removing, Starting, Types
<1>3. /\ next \in Stores /\ next.schedules = mem.schedules
      /\ \A q \in Runs : next.runs[q] = IF q = r THEN NoRun ELSE mem.runs[q]
      /\ Good(next, copies, begun, drawn, now)
      /\ \A q \in Runs, k \in Scheduled : Bears(next, copies, q, k) => Bears(mem, copies, q, k)
  <2>1. Good(mem, copies, begun, drawn, now)
    BY Typed
  <2>2. /\ Good(next, copies, begun, drawn, now)
        /\ \A q \in Runs, k \in Scheduled : Bears(next, copies, q, k) => Bears(mem, copies, q, k)
    BY <1>2, <2>1, ForgottenGood
  <2>3. /\ next \in Stores /\ next.schedules = mem.schedules
        /\ \A q \in Runs : next.runs[q] = IF q \in {r} THEN NoRun ELSE mem.runs[q]
    BY ForgottenFacts, Typed
  <2> HIDE DEF next
  <2> QED BY <2>2, <2>3
<1> HIDE DEF next
<1>4. \A q \in Runs : (next.runs[q].status = "running" => mem.runs[q].status = "running")
                     /\ (mem.runs[q].status = "running" => next.runs[q] = mem.runs[q])
  BY <1>2, <1>3, NoRunFacts
<1>5. ToDo(job.todo, job.key, next, copies, now)
  <2>1. ToDo(job.todo, job.key, mem, copies, now) /\ \A q \in job.todo : q.key \in Scheduled
    BY Typed DEF ToDo
  <2> QED BY <1>3, <1>4, <2>1 DEF ToDo, Upcoming, Over
<1>6. edits' \in 0..MaxEdits
  BY <1>1 DEF IInv, Types
<1> QED BY <1>1, <1>2, <1>3, <1>4, <1>5, <1>6, OtherStep

\* A schedule is edited, or deleted.
LEMMA EditStep ==
  ASSUME IInv, NEW s \in Schedules, NEW sched \in ScheduleRecords, sched.next \in {0, now + 1},
         ~sched.live => sched.next = 0, Edit([mem EXCEPT !.schedules[s] = sched])
  PROVE  IInv'
<1> DEFINE scheds == [mem.schedules EXCEPT ![s] = sched]
           next == [mem EXCEPT !.schedules = scheds]
<1>1. /\ phase = "serving" /\ (Commit(next) \/ Refuse(next)) /\ edits < MaxEdits /\ edits' = edits + 1
      /\ UNCHANGED <<phase, now, copies, job, eraser, drawn, begun, left>>
  BY Typed DEF Edit, Stores
<1>2. scheds \in [Schedules -> ScheduleRecords] /\ scheds[s] = sched
        /\ \A x \in Schedules \ {s} : scheds[x] = mem.schedules[x]
  BY Typed, StoreFacts
<1> HIDE DEF scheds
<1>3. next \in Stores /\ next.runs = mem.runs /\ next.schedules = scheds
  BY <1>2, Typed DEF Stores
<1> HIDE DEF next
<1>4. Dead(next)
  BY <1>2, <1>3, Typed DEF Dead
<1>5. /\ Good(next, copies, begun, drawn, now)
      /\ \A k \in Scheduled : k.due <= now => (Upcoming(mem, k) => Upcoming(next, k))
  <2>1. \A x \in Schedules : next.schedules[x] = mem.schedules[x] \/ next.schedules[x].next \in {0, now + 1}
    BY <1>2, <1>3
  <2> QED BY <1>3, <1>4, <2>1, SchedulesMove, Typed
<1>6. ToDo(job.todo, job.key, next, copies, now)
  BY <1>3, <1>5, Typed DEF ToDo, Bears
<1>7. edits' \in 0..MaxEdits
  BY <1>1, Bounds DEF IInv, Types
<1> QED BY <1>1, <1>3, <1>5, <1>6, <1>7, OtherStep

LEMMA SaveScheduleStep ==
  ASSUME IInv, NEW s \in Schedules, NEW enabled \in BOOLEAN, NEW backend \in Backends,
         NEW retain \in Retentions, SaveSchedule(s, enabled, backend, retain)
  PROVE  IInv'
<1> DEFINE sched == [live |-> TRUE, enabled |-> enabled, backend |-> backend,
                     next |-> IF enabled THEN now + 1 ELSE 0, retain |-> retain]
<1>1. sched \in ScheduleRecords
  <2>1. (IF enabled THEN now + 1 ELSE 0) \in Times
    BY Typed, TimeFacts, Bounds
  <2> QED BY <2>1 DEF ScheduleRecords
<1>2. sched.next \in {0, now + 1} /\ sched.live
  OBVIOUS
<1>3. Edit([mem EXCEPT !.schedules[s] = sched])
  BY DEF SaveSchedule
<1> HIDE DEF sched
<1> QED BY <1>1, <1>2, <1>3, EditStep

LEMMA DeleteScheduleStep ==
  ASSUME IInv, NEW s \in Schedules, DeleteSchedule(s)
  PROVE  IInv'
<1>1. Edit([mem EXCEPT !.schedules[s] = NoSchedule])
  BY DEF DeleteSchedule
<1> QED BY <1>1, NoScheduleFacts, EditStep

LEMMA TickStep ==
  ASSUME IInv, Tick
  PROVE  IInv'
<1>1. /\ now < MaxTime /\ now' = now + 1
      /\ UNCHANGED <<mem, disk, poisoned, faults, phase, copies, job, eraser, drawn, edits, begun, left>>
  BY DEF Tick, store
<1>2. now' \in 1..MaxTime /\ now' \in Nat /\ now' >= now /\ now \in Nat
  BY <1>1, Typed, Bounds
<1>3. Types'
  BY <1>1, <1>2 DEF IInv, Types
<1>4. \A st : Good(st, copies, begun, drawn, now) => Good(st, copies, begun, drawn, now')
  BY <1>2, KeyFacts DEF Good, Past
<1>5. Holding'
  BY <1>1, <1>2, Typed, KeyFacts DEF IInv, Holding, HoldsRun
<1>6. ToDo(job.todo, job.key, mem, copies, now')
  BY <1>2, Typed, KeyFacts DEF ToDo
<1>7. Removing' /\ Starting' /\ RunningIsHeld'
  BY <1>1 DEF IInv, Removing, Starting, RunningIsHeld
<1> QED BY <1>1, <1>3, <1>4, <1>5, <1>6, <1>7 DEF IInv

-----------------------------------------------------------------------------
(* Crash and startup                                                       *)

LEMMA NoneAtWork ==
  ASSUME job' = Idle, eraser' = NoEraser
  PROVE  /\ job' \in Jobs /\ eraser' \in Erasers /\ Holding' /\ Removing'
         /\ ToDo(job.todo, job.key, mem, copies, now)'
BY IdleFacts DEF Holding, Removing, ToDo

LEMMA CrashStep ==
  ASSUME IInv, Crash
  PROVE  IInv'
<1>1. /\ phase' = "down" /\ faults < MaxFaults /\ faults' = faults + 1
      /\ poisoned' = FALSE /\ job' = Idle /\ eraser' = NoEraser
      /\ UNCHANGED <<now, drawn, edits, begun, left>>
  BY DEF Crash
<1>2. PICK file \in {mem, disk} : mem' = file /\ disk' = file
  BY DEF Crash
<1>3. copies' \in [Runs -> Copies] /\ Good(file, copies', begun, drawn, now)
  <2>1. CASE copies' = copies
    BY <1>2, <2>1, Typed
  <2>2. ASSUME job.step = "publish", NEW state \in Remnants,
               copies' = [copies EXCEPT ![job.run] = Copy(state)]
        PROVE  copies' \in [Runs -> Copies] /\ Good(file, copies', begun, drawn, now)
    <3>1. job.run \in Runs /\ mem.runs[job.run] \in RunRecords /\ HoldsRun(mem) /\ HoldsRun(disk)
      BY <2>2, HeldFacts DEF IInv, Holding
    <3>2. HoldsRun(file) /\ Good(file, copies, begun, drawn, now)
      BY <1>2, <3>1, Typed
    <3>3. Copy(state) \in Copies /\ Copy(state).key = job.key /\ Copy(state).backend = job.backend
      BY <2>2, <3>1, Typed DEF Copy, Copies, RunRecords, Remnants
    <3> DEFINE copy == Copy(state)
    <3>4. copy \in Copies /\ copy.key = job.key /\ copy.backend = job.backend
            /\ copies' = [copies EXCEPT ![job.run] = copy]
      BY <2>2, <3>3
    <3> HIDE DEF copy
    <3>5. Good(file, copies', begun, drawn, now)
      BY <3>1, <3>2, <3>4, PublishedGood, Typed DEF HoldsRun
    <3> QED BY <3>1, <3>4, <3>5, Typed
  <2> QED BY <2>1, <2>2 DEF Crash
<1>4. Types'
  <2>1. mem' \in Stores /\ disk' \in Stores /\ mem' = disk'
    BY <1>2, Typed
  <2>2. faults' \in 0..MaxFaults
    BY <1>1, Bounds DEF IInv, Types
  <2>3. poisoned' \in BOOLEAN
    BY <1>1
  <2> QED BY <1>1, <1>3, <2>1, <2>2, <2>3, NoneAtWork DEF IInv, Types
<1>5. Starting' /\ RunningIsHeld'
  BY <1>1 DEF Starting, RunningIsHeld
<1>6. Good(mem, copies, begun, drawn, now)' /\ Good(disk, copies, begun, drawn, now)'
  BY <1>1, <1>2, <1>3
<1> QED BY <1>1, <1>4, <1>5, <1>6, NoneAtWork DEF IInv

LEMMA LaunchStep ==
  ASSUME IInv, Launch
  PROVE  IInv'
<1> DEFINE scheds == [s \in Schedules |->
                        IF Due(s) THEN [mem.schedules[s] EXCEPT !.next = now + 1]
                        ELSE mem.schedules[s]]
           next == [mem EXCEPT !.schedules = scheds]
<1>1. /\ phase = "down" /\ phase' = "recovering" /\ Commit(next)
      /\ UNCHANGED <<now, copies, job, eraser, drawn, edits, begun, left>>
  BY DEF Launch
<1>2. job' = Idle /\ eraser' = NoEraser
  BY <1>1 DEF IInv, Starting
<1>3. ASSUME NEW s \in Schedules
      PROVE  /\ scheds[s] \in ScheduleRecords /\ scheds[s].live = mem.schedules[s].live
             /\ Due(s) => scheds[s].next = now + 1
             /\ ~Due(s) => scheds[s] = mem.schedules[s]
  <2>1. mem.schedules[s] \in ScheduleRecords /\ now + 1 \in Times
    BY Typed, TimeFacts, StoreFacts
  <2> QED BY <2>1 DEF ScheduleRecords
<1>4. scheds \in [Schedules -> ScheduleRecords]
  BY <1>3
<1> HIDE DEF scheds
<1>5. next \in Stores /\ next.runs = mem.runs /\ next.schedules = scheds
  BY <1>4, Typed DEF Stores
<1> HIDE DEF next
<1>6. Dead(next)
  <2>1. \A s \in Schedules : ~mem.schedules[s].live => ~Due(s)
    BY Typed DEF Dead, Due
  <2> QED BY <1>3, <1>5, <2>1, Typed DEF Dead
<1>7. Good(next, copies, begun, drawn, now)
  <2>1. \A s \in Schedules : next.schedules[s] = mem.schedules[s] \/ next.schedules[s].next \in {0, now + 1}
    BY <1>3, <1>5
  <2> QED BY <1>5, <1>6, <2>1, SchedulesMove, Typed
<1>8. mem' = next /\ disk' = next
  BY <1>1 DEF Commit
<1>9. Types'
  <2>1. /\ poisoned' \in BOOLEAN /\ faults' \in 0..MaxFaults
    BY <1>1, <1>5, UpdateFacts DEF IInv
  <2> QED BY <1>1, <1>5, <1>8, <2>1 DEF IInv, Types
<1>10. Starting'
  <2>1. ASSUME NEW r \in Runs, NEW k \in Scheduled, Bears(next, copies, r, k)
        PROVE  Over(next, k)
    <3>1. Bears(mem, copies, r, k)
      BY <1>5, <2>1 DEF Bears
    <3>2. k.due <= now /\ Upcoming(mem, k) /\ k.schedule \in Schedules /\ k.due \in Nat /\ k.due > 0
            /\ now \in Nat
      BY <3>1, Typed, KeyFacts DEF Good, Past
    <3>3. CASE Due(k.schedule)
      BY <1>3, <1>5, <3>2, <3>3 DEF Over
    <3>4. CASE ~Due(k.schedule)
      <4>1. next.schedules[k.schedule] = mem.schedules[k.schedule]
        BY <1>3, <1>5, <3>2, <3>4
      <4>2. Over(mem, k)
        BY <3>2, <3>4 DEF Upcoming, Due
      <4> QED BY <4>1, <4>2 DEF Over
    <3> QED BY <3>3, <3>4
  <2> QED BY <1>1, <1>2, <1>8, <2>1 DEF Starting
<1>11. RunningIsHeld'
  BY <1>1 DEF RunningIsHeld
<1> QED BY <1>1, <1>2, <1>7, <1>8, <1>9, <1>10, <1>11, NoneAtWork DEF IInv

LEMMA ResolveStep ==
  ASSUME IInv, Resolve
  PROVE  IInv'
<1>1. phase = "recovering" /\ UNCHANGED <<store, phase, now, job, eraser, drawn, edits, begun, left>>
  BY DEF Resolve
<1>2. job' = Idle /\ eraser' = NoEraser
  BY <1>1 DEF IInv, Starting
<1>3. PICK r \in Runs, state \in {"none", "published"} :
        copies[r].state = "staged" /\ copies' = [copies EXCEPT ![r].state = state]
  BY DEF Resolve, LocalCopies
<1>4. /\ copies' \in [Runs -> Copies]
      /\ Good(mem, copies', begun, drawn, now) /\ Good(disk, copies', begun, drawn, now)
      /\ \A q \in Runs, k \in Scheduled : Bears(mem, copies', q, k) => Bears(mem, copies, q, k)
  BY <1>3, ResolvedGood, Typed
<1>5. Types'
  BY <1>1, <1>4 DEF IInv, Types, store
<1>6. Starting' /\ RunningIsHeld'
  BY <1>1, <1>4 DEF IInv, Starting, Over, RunningIsHeld, store
<1> QED BY <1>1, <1>2, <1>4, <1>5, <1>6, NoneAtWork DEF IInv, store

\* The recovery writes what it found.
LEMMA ReconcileStep ==
  ASSUME IInv, Reconcile
  PROVE  IInv'
<1> DEFINE found == LocalCopies({"published"})
           next == Reconciled(found)
<1>1. /\ phase = "recovering" /\ phase' = "serving" /\ Commit(next) /\ left' = {}
      /\ LocalCopies({"staged"}) = {}
      /\ UNCHANGED <<now, copies, job, eraser, drawn, edits, begun>>
  BY DEF Reconcile
<1>2. job' = Idle /\ eraser' = NoEraser
        /\ \A r \in Runs, k \in Scheduled : Bears(mem, copies, r, k) => Over(mem, k)
  BY <1>1 DEF IInv, Starting
<1>3. /\ next \in Stores /\ Good(next, copies, begun, drawn, now)
      /\ \A r \in Runs : next.runs[r].status # "running"
      /\ \A r \in found : next.runs[r].status = "succeeded"
  BY <1>1, <1>2, ReconciledFacts, Typed
<1> HIDE DEF next
<1>4. mem' = next /\ disk' = next
  BY <1>1 DEF Commit
<1>5. Types'
  <2>1. poisoned' \in BOOLEAN /\ faults' \in 0..MaxFaults
    BY <1>1, <1>3, UpdateFacts DEF IInv
  <2>2. left' \subseteq Runs
    BY <1>1
  <2> QED BY <1>1, <1>3, <1>4, <2>1, <2>2 DEF IInv, Types
<1>6. Starting' /\ RunningIsHeld'
  BY <1>1, <1>3, <1>4 DEF Starting, RunningIsHeld
<1> QED BY <1>1, <1>2, <1>3, <1>4, <1>5, <1>6, NoneAtWork DEF IInv

LEMMA ReconcileFailsStep ==
  ASSUME IInv, ReconcileFails
  PROVE  IInv'
<1> DEFINE next == Reconciled(LocalCopies({"published"}))
<1>1. /\ phase = "recovering" /\ phase' = "serving"
      /\ (UNCHANGED store \/ (LocalCopies({"staged"}) = {} /\ Refuse(next)))
      /\ left' = {r \in Runs : mem.runs[r].status = "running"}
      /\ UNCHANGED <<now, copies, job, eraser, drawn, edits, begun>>
  BY DEF ReconcileFails
<1>2. job' = Idle /\ eraser' = NoEraser
        /\ \A r \in Runs, k \in Scheduled : Bears(mem, copies, r, k) => Over(mem, k)
  BY <1>1 DEF IInv, Starting
<1>3. LocalCopies({"staged"}) = {} => next \in Stores /\ Good(next, copies, begun, drawn, now)
  BY <1>2, ReconciledFacts, Typed
<1> HIDE DEF next
<1>4. /\ mem' = mem /\ poisoned' \in BOOLEAN
      /\ (~poisoned' => mem' = disk') /\ faults' \in 0..MaxFaults
      /\ mem' \in Stores /\ disk' \in Stores
      /\ disk' = disk \/ (disk' = next /\ LocalCopies({"staged"}) = {})
  <2>1. CASE UNCHANGED store
    BY <2>1 DEF IInv, Types, store
  <2>2. CASE LocalCopies({"staged"}) = {} /\ Refuse(next)
    BY <1>3, <2>2, RefuseFacts, UpdateFacts DEF IInv
  <2> QED BY <1>1, <2>1, <2>2
<1>5. Types'
  <2>1. left' \subseteq Runs
    BY <1>1
  <2> QED BY <1>1, <1>4, <2>1 DEF IInv, Types
<1>6. Good(mem, copies, begun, drawn, now)' /\ Good(disk, copies, begun, drawn, now)'
  BY <1>1, <1>3, <1>4, Typed
<1>7. Starting' /\ RunningIsHeld'
  BY <1>1, <1>4 DEF Starting, RunningIsHeld
<1> QED BY <1>1, <1>2, <1>5, <1>6, <1>7, NoneAtWork DEF IInv

-----------------------------------------------------------------------------
(* The theorems                                                            *)

LEMMA StutterStep ==
  ASSUME IInv, UNCHANGED vars
  PROVE  IInv'
BY DEF IInv, Types, Holding, HoldsRun, Removing, Starting, RunningIsHeld, vars, store

LEMMA InitIInv == Init => IInv
<1> SUFFICES ASSUME Init PROVE IInv
  OBVIOUS
<1>1. PICK retain \in Retentions :
        mem = [runs |-> [r \in Runs |-> NoRun],
               schedules |-> [s \in Schedules |->
                 [live |-> TRUE, enabled |-> TRUE, backend |-> Local, next |-> 2, retain |-> retain]]]
  BY DEF Init
<1> DEFINE sched == [live |-> TRUE, enabled |-> TRUE, backend |-> Local, next |-> 2, retain |-> retain]
<1>2. sched \in ScheduleRecords /\ sched.live
  <2>1. 2 \in Times
    BY Bounds DEF Times
  <2> QED BY <2>1, Bounds DEF ScheduleRecords
<1> HIDE DEF sched
<1>3. /\ mem \in Stores /\ \A r \in Runs : mem.runs[r] = NoRun
      /\ \A s \in Schedules : mem.schedules[s] = sched
  <2> DEFINE runs == [r \in Runs |-> NoRun]
             schedules == [s \in Schedules |-> sched]
  <2>1. mem = [runs |-> runs, schedules |-> schedules]
    BY <1>1 DEF sched
  <2>2. runs \in [Runs -> RunRecords] /\ schedules \in [Schedules -> ScheduleRecords]
    BY <1>2, NoRunFacts
  <2> HIDE DEF runs, schedules
  <2>3. mem \in Stores /\ mem.runs = runs /\ mem.schedules = schedules
    BY <2>1, <2>2 DEF Stores
  <2> QED BY <2>3 DEF runs, schedules
<1>4. copies \in [Runs -> Copies] /\ \A r \in Runs : copies[r] = NoCopy
  BY CopyFacts DEF Init
<1>5. /\ disk = mem /\ poisoned = FALSE /\ faults = 0 /\ phase = "serving" /\ now = 1
      /\ job = Idle /\ eraser = NoEraser /\ drawn = 0 /\ edits = 0 /\ begun = {} /\ left = {}
  BY DEF Init
<1>6. Types
  <2>1. now \in 1..MaxTime /\ drawn \in 0..MaxRuns /\ edits \in 0..MaxEdits /\ faults \in 0..MaxFaults
    BY <1>5, Bounds
  <2>2. poisoned \in BOOLEAN /\ (~poisoned => mem = disk)
    BY <1>5
  <2>3. begun \subseteq Runs /\ left \subseteq Runs
    BY <1>5
  <2> QED BY <1>3, <1>4, <1>5, <2>1, <2>2, <2>3, IdleFacts DEF Types
<1>7. Good(mem, copies, begun, drawn, now)
  BY <1>2, <1>3, <1>4, NoRunFacts, CopyFacts
     DEF Good, Fresh, Dead, Agrees, Kept1, Left, Unique, Past, Bears
<1>8. Holding /\ Removing /\ ToDo(job.todo, job.key, mem, copies, now)
  BY <1>5, IdleFacts DEF Holding, Removing, ToDo
<1>9. Starting /\ RunningIsHeld
  BY <1>3, <1>5, NoRunFacts DEF Starting, RunningIsHeld
<1> QED BY <1>5, <1>6, <1>7, <1>8, <1>9 DEF IInv

LEMMA NextIInv == IInv /\ [Next]_vars => IInv'
<1> SUFFICES ASSUME IInv, [Next]_vars PROVE IInv'
  OBVIOUS
<1>1. CASE Job
  BY <1>1, ScanNextStep, PublishStep, CompleteStep, FailStep, RejectStep, PruneStep,
     PruneDeleteStep, PruneForgetStep DEF Job
<1>2. CASE ScanBegin
  BY <1>2, ScanBeginStep
<1>3. CASE Request
  BY <1>3, RunNowStep, EraseBeginStep, SaveScheduleStep, DeleteScheduleStep DEF Request
<1>4. CASE EraseRemove \/ EraseForget \/ Tick \/ Crash
  BY <1>4, EraseRemoveStep, EraseForgetStep, TickStep, CrashStep
<1>5. CASE Startup
  BY <1>5, LaunchStep, ResolveStep, ReconcileStep, ReconcileFailsStep DEF Startup
<1>6. CASE UNCHANGED vars
  BY <1>6, StutterStep
<1> QED BY <1>1, <1>2, <1>3, <1>4, <1>5, <1>6 DEF Next

\* In every behaviour: what is in memory and what is in the file are both fit
\* to be served after a crash, and the job, the scheduler's list and the
\* removals under way agree with memory.
THEOREM InvariantHolds == Spec => []IInv
BY InitIInv, NextIInv, PTL DEF Spec

\* Every variable keeps its type, and memory and file differ only once the
\* store refuses every write.
THEOREM TypeCorrect == Spec => []TypeOK
<1>1. IInv => TypeOK
  BY DEF IInv, Types, TypeOK, Stores, Jobs, Erasers
<1> QED BY <1>1, InvariantHolds, PTL

\* A run that is shown as succeeded has its bundle in the repository it names
\* until its deletion has reached it.
THEOREM SucceededRestorable == Spec => []SucceededIsKept
<1>1. IInv => SucceededIsKept
  BY DEF IInv, Good, Kept1, SucceededIsKept
<1> QED BY <1>1, InvariantHolds, PTL

\* No two runs bear the same occurrence of a schedule.
THEOREM OccurrenceRunOnce == Spec => []OccurrenceOnce
<1>1. IInv => OccurrenceOnce
  <2> SUFFICES ASSUME IInv, NEW q \in Runs, NEW r \in Runs, q # r, mem.runs[q].status # "none",
                      mem.runs[q].key # Manual, mem.runs[q].key = mem.runs[r].key
               PROVE  FALSE
    BY DEF OccurrenceOnce
  <2> QED BY Typed, StoreFacts, KeyFacts DEF Good, Unique, Bears, Agrees
<1> QED BY <1>1, InvariantHolds, PTL

\* A run that is shown as running holds the lock, unless its end could not be
\* written.
THEOREM RunningHeld == Spec => []RunningIsHeld
<1>1. IInv => RunningIsHeld
  BY DEF IInv
<1> QED BY <1>1, InvariantHolds, PTL

\* A run that is listed as interrupted has left nothing in the local volume.
THEOREM InterruptedLeavesNothing == Spec => []InterruptedHasNothing
<1>1. IInv => InterruptedHasNothing
  BY DEF IInv, Good, Left, InterruptedHasNothing
<1> QED BY <1>1, InvariantHolds, PTL
=============================================================================
