------------------------- MODULE RebootSchedulerProofs -------------------------
(***************************************************************************)
(* Theorems about RebootScheduler: an occurrence is recorded once, and     *)
(* restarted in its time; what is open in the history waits for the        *)
(* restart that is pending; a warning that goes out is still true; and the *)
(* scheduler implements OccurrencePromise.  They hold for any servers,     *)
(* schedules, timings and limits.                                          *)
(***************************************************************************)
EXTENDS RebootScheduler, WellFoundedInduction, TLAPS

-----------------------------------------------------------------------------
(* The inductive invariant                                                 *)

Results  == {"awaiting", "uncertain", "completed", "failed", "skipped", "missed"}
Statuses == {"up", "parked", "seen stopped", "gone"}

\* The revision and occurrence last warned of.
Marks == Nat \X Nat

\* A schedule that exists, when o restarts were reserved.
Live(o) ==
  [def : Definitions, rev : Nat \ {0}, enabled : BOOLEAN, anchor : Nat, next : Nat,
   last : Nat, result : Results \cup {""}, op : 0..o, warned : Marks]

\* A schedule has a next run exactly when it is enabled.
Sound(sch, o) ==
  /\ sch \in [Ids -> {NoSchedule} \cup Live(o)]
  /\ \A id \in Ids : sch[id].next # 0 <=> sch[id].enabled

\* The next run was never recorded, and is not of the time before the timing
\* was set.
Ahead(sch, rec, sin) ==
  \A id \in Ids : sch[id].next # 0 => <<id, sch[id].next>> \notin rec /\ sch[id].next > sin[id]

Ended == {"completed", "failed"}

IsRecord(e) ==
  e = [n |-> e.n, schedule |-> e.schedule, server |-> e.server, at |-> e.at, op |-> e.op,
       result |-> e.result]

Execution(e, o, rec) ==
  /\ IsRecord(e)
  /\ e.schedule \in Ids /\ e.server \in Servers /\ e.at \in Nat \ {0} /\ e.op \in 0..o
  /\ e.result \in Results
  /\ (Active(e) \/ e.result \in Ended) <=> e.op # 0
  /\ <<e.schedule, e.at>> \in rec

\* An execution is known by its schedule and occurrence, and by its schedule
\* and restart.
Distinct(h) ==
  \A e, f \in h :
    e.schedule = f.schedule /\ (e.at = f.at \/ (e.op = f.op /\ e.op # 0)) => e = f

Shows(sch, h) ==
  \A id \in Ids, e \in h :
    sch[id].rev > 0 /\ e.schedule = id /\ e.at = sch[id].last =>
      sch[id].op = e.op /\ sch[id].result \in {e.result, "skipped"}

\* What is open waits for the restart of its server: unless a target may be
\* moved while a scan runs.
Awaits(h, srv) ==
  ~RetargetInScan =>
    \A e \in h : Active(e) /\ srv[e.server].status # "gone" => srv[e.server].restart = e.op

\* No two servers wait for the same restart.
OneServer(srv) == \A a, b \in Servers : srv[a].restart = srv[b].restart /\ srv[a].restart # 0 => a = b

ServerRecords(o) == [status : Statuses, deleting : BOOLEAN, restart : 0..o]
Warnings == [id : Ids, rev : Nat, next : Nat, sent : BOOLEAN]

Counters ==
  /\ now \in 1..MaxTime /\ drawn \in 0..NSchedules /\ ops \in Nat
  /\ recorded \subseteq Ids \X (1..now) /\ since \in [Ids -> 0..now]

\* The scheduler's snapshot names schedules that were drawn, under the server
\* they restart.
Snapshot ==
  /\ scan \in [phase : {"idle", "warn", "group", "claim"}, at : Nat, todo : [Servers -> SUBSET Ids]]
  /\ scan.phase # "claim" => scan.todo = [s \in Servers |-> {}]
  /\ \A s \in Servers : \A id \in scan.todo[s] :
       /\ id <= drawn
       /\ ~RetargetInScan /\ Exists(id) => schedules[id].def.server = s

Audit(sch, h, o, rec, sin) ==
  /\ Sound(sch, o) /\ Ahead(sch, rec, sin)
  /\ \A e \in h : Execution(e, o, rec)
  /\ Distinct(h) /\ Shows(sch, h)

IInv ==
  /\ Counters /\ Snapshot
  /\ Audit(schedules, history, ops, recorded, since)
  /\ \A id \in Ids : Exists(id) => id <= drawn
  /\ servers \in [Servers -> ServerRecords(ops)] /\ OneServer(servers) /\ Awaits(history, servers)
  /\ warnings \subseteq Warnings
  /\ lock = Free \/ lock \in [op : 1..ops, server : Servers, by : {"scan", "request"}]

-----------------------------------------------------------------------------
(* Times and occurrences                                                   *)

LEMMA Bounds ==
  /\ NServers \in Nat /\ NSchedules \in Nat /\ LateWindow \in Nat /\ MaxTime \in Nat \ {0}
  /\ Leads \subseteq Nat
  /\ \A t \in Timings :
       \/ t.mode = "interval" /\ t.every \in Nat \ {0}
       \/ t.mode = "civil" /\ t.at \subseteq Nat
BY SchedulerAssumption

\* A set of numbers that is not empty has its least member.
LEMMA LeastFacts ==
  ASSUME NEW S \in SUBSET Nat, S # {}
  PROVE  Least(S) \in S
<1> DEFINE R == OpToRel(<, Nat)
<1>1. IsWellFoundedOn(R, Nat)
  BY NatLessThanWellFounded
<1>2. \A x, y \in Nat : x < y => <<x, y>> \in R
  BY DEF OpToRel
<1> HIDE DEF R
<1>3. PICK x \in S : \A y \in S : ~(<<y, x>> \in R)
  BY <1>1, WFMin
<1>4. ASSUME NEW y \in S PROVE x <= y
  <2>1. x \in Nat /\ y \in Nat
    OBVIOUS
  <2>2. ~(y < x)
    BY <1>2, <1>3, <2>1
  <2> QED BY <2>1, <2>2
<1> QED BY <1>4 DEF Least

\* The first multiple beyond a number.
LEMMA NextMultiple ==
  ASSUME NEW a \in Nat, NEW e \in Nat \ {0}
  PROVE  (a \div e + 1) * e \in Nat /\ (a \div e + 1) * e > a
<1> DEFINE q == a \div e
           r == a % e
<1>1. q \in Nat /\ r \in 0..(e - 1) /\ a = e * q + r
  OBVIOUS
<1> HIDE DEF q, r
<1>2. (q + 1) * e = e * q + e
  BY <1>1
<1>3. e * q \in Nat
  BY <1>1
<1>4. (q + 1) * e \in Nat /\ (q + 1) * e > a
  BY <1>1, <1>2, <1>3
<1> QED BY <1>4 DEF q

\* nextReboot answers with a time that lies ahead, or with none.
LEMMA NextRunFacts ==
  ASSUME NEW timing \in Timings, NEW anchor \in Nat, NEW after \in Nat
  PROVE  /\ NextRun(timing, anchor, after) \in Nat
         /\ NextRun(timing, anchor, after) # 0 => NextRun(timing, anchor, after) > after
<1>1. CASE timing.mode = "civil"
  <2> DEFINE later == {t \in timing.at : t > after}
  <2>1. later \in SUBSET Nat /\ \A t \in later : t > after
    BY <1>1, Bounds
  <2>2. NextRun(timing, anchor, after) = IF later = {} THEN 0 ELSE Least(later)
    BY <1>1 DEF NextRun
  <2> HIDE DEF later
  <2>3. CASE later = {}
    BY <2>2, <2>3
  <2>4. CASE later # {}
    <3>1. Least(later) \in later
      BY <2>1, <2>4, LeastFacts
    <3>2. Least(later) \in Nat /\ Least(later) > after
      BY <2>1, <3>1
    <3> QED BY <2>2, <2>4, <3>2
  <2> QED BY <2>3, <2>4
<1>2. CASE timing.mode # "civil" /\ anchor >= after
  <2>1. timing.every \in Nat \ {0}
    BY <1>2, Bounds
  <2>2. NextRun(timing, anchor, after) = anchor + timing.every
    BY <1>2 DEF NextRun
  <2> QED BY <1>2, <2>1, <2>2
<1>3. CASE timing.mode # "civil" /\ ~(anchor >= after)
  <2> DEFINE a == after - anchor
             m == (a \div timing.every + 1) * timing.every
  <2>1. timing.every \in Nat \ {0} /\ a \in Nat
    BY <1>3, Bounds
  <2>2. m \in Nat /\ m > a
    BY <2>1, NextMultiple
  <2>3. NextRun(timing, anchor, after) = anchor + m
    BY <1>3 DEF NextRun
  <2> HIDE DEF m
  <2> QED BY <2>1, <2>2, <2>3
<1> QED BY <1>1, <1>2, <1>3

-----------------------------------------------------------------------------
(* Records                                                                 *)

LEMMA NoScheduleFacts ==
  /\ NoSchedule.rev = 0 /\ NoSchedule.next = 0 /\ NoSchedule.last = 0 /\ NoSchedule.op = 0
  /\ NoSchedule.anchor = 0
BY DEF NoSchedule

LEMMA NoScheduleOthers ==
  /\ NoSchedule.enabled = FALSE /\ NoSchedule.result = "" /\ NoSchedule.warned = <<0, 0>>
BY DEF NoSchedule

LEMMA LiveFacts ==
  ASSUME NEW o \in Nat, NEW s \in Live(o)
  PROVE  /\ s.rev \in Nat /\ s.rev > 0 /\ s.anchor \in Nat /\ s.next \in Nat /\ s.last \in Nat
         /\ s.op \in 0..o
<1>1. /\ s.rev \in Nat \ {0} /\ s.anchor \in Nat /\ s.next \in Nat /\ s.last \in Nat
      /\ s.op \in 0..o
  BY DEF Live
<1> QED BY <1>1

LEMMA LiveOthers ==
  ASSUME NEW o \in Nat, NEW s \in Live(o)
  PROVE  /\ s.def \in Definitions /\ s.enabled \in BOOLEAN
         /\ s.result \in Results \cup {""} /\ s.warned \in Marks
         /\ s.def.timing \in Timings /\ s.def.server \in Servers /\ s.def.lead \in Leads
<1>1. s.def \in Definitions
  BY DEF Live
<1>2. s.def.timing \in Timings /\ s.def.server \in Servers /\ s.def.lead \in Leads
  BY <1>1 DEF Definitions
<1>3. s.enabled \in BOOLEAN
  BY DEF Live
<1>4. s.result \in Results \cup {""} /\ s.warned \in Marks
  BY DEF Live
<1> QED BY <1>1, <1>2, <1>3, <1>4

\* What is known of a schedule.
LEMMA SoundFacts ==
  ASSUME NEW sch, NEW o \in Nat, Sound(sch, o), NEW id \in Ids
  PROVE  /\ sch[id].rev \in Nat /\ sch[id].next \in Nat /\ sch[id].last \in Nat
         /\ sch[id].op \in 0..o /\ sch[id].anchor \in Nat
         /\ sch[id].rev > 0 <=> sch[id] \in Live(o)
         /\ sch[id].next # 0 => sch[id] \in Live(o) /\ sch[id].rev > 0
<1>1. CASE sch[id] = NoSchedule
  <2>1. NoSchedule.rev = 0 /\ NoSchedule \notin Live(o)
    BY NoScheduleFacts, LiveFacts
  <2> QED BY <1>1, <2>1, NoScheduleFacts
<1>2. CASE sch[id] \in Live(o)
  BY <1>2, LiveFacts
<1> QED BY <1>1, <1>2 DEF Sound

LEMMA SoundOthers ==
  ASSUME NEW sch, NEW o \in Nat, Sound(sch, o), NEW id \in Ids
  PROVE  /\ sch[id] \in {NoSchedule} \cup Live(o)
         /\ sch[id].enabled \in BOOLEAN /\ sch[id].result \in Results \cup {""}
         /\ sch[id].warned \in Marks
         /\ sch[id].enabled <=> sch[id].next # 0
         /\ sch[id].enabled => sch[id] \in Live(o)
<1>1. sch[id].enabled <=> sch[id].next # 0
  BY DEF Sound
<1>2. <<0, 0>> \in Marks
  BY DEF Marks
<1>3. CASE sch[id] = NoSchedule
  <2>1. NoSchedule.warned \in Marks
    BY <1>2, NoScheduleOthers, Zenon
  <2> QED BY <1>1, <1>3, <2>1, NoScheduleOthers
<1>4. CASE sch[id] \in Live(o)
  BY <1>1, <1>4, LiveOthers
<1> QED BY <1>3, <1>4 DEF Sound

\* An execution of fewer restarts, or of fewer occurrences.
LEMMA Known ==
  ASSUME IInv
  PROVE  /\ now \in Nat /\ now \in 1..MaxTime /\ ops \in Nat /\ drawn \in Nat
         /\ recorded \subseteq Ids \X (1..now) /\ since \in [Ids -> 0..now]
         /\ Sound(schedules, ops) /\ Ahead(schedules, recorded, since)
         /\ Distinct(history) /\ Shows(schedules, history)
         /\ \A e \in history : Execution(e, ops, recorded)
         /\ servers \in [Servers -> ServerRecords(ops)] /\ OneServer(servers)
         /\ Awaits(history, servers) /\ warnings \subseteq Warnings
         /\ \A s \in Servers : servers[s].restart \in 0..ops
         /\ \A e \in history : e.op \in 0..ops /\ (Active(e) => e.op # 0)
<1>1. /\ now \in Nat /\ now \in 1..MaxTime /\ ops \in Nat /\ drawn \in Nat
      /\ recorded \subseteq Ids \X (1..now) /\ since \in [Ids -> 0..now]
  BY Bounds DEF IInv, Counters
<1>2. /\ Sound(schedules, ops) /\ Ahead(schedules, recorded, since)
      /\ Distinct(history) /\ Shows(schedules, history)
      /\ \A e \in history : Execution(e, ops, recorded)
      /\ servers \in [Servers -> ServerRecords(ops)] /\ OneServer(servers)
      /\ Awaits(history, servers) /\ warnings \subseteq Warnings
  BY DEF IInv, Audit
<1>3. \A s \in Servers : servers[s].restart \in 0..ops
  BY <1>2 DEF ServerRecords
<1>4. \A e \in history : e.op \in 0..ops /\ (Active(e) => e.op # 0)
  BY <1>2 DEF Execution
<1> QED BY <1>1, <1>2, <1>3, <1>4

LEMMA ExecutionFacts ==
  ASSUME NEW o \in Nat, NEW rec, NEW e, Execution(e, o, rec)
  PROVE  /\ e.schedule \in Ids /\ e.server \in Servers /\ e.at \in Nat /\ e.at # 0
         /\ e.op \in Nat /\ e.op <= o /\ e.result \in Results
         /\ Active(e) \/ e.result \in Ended <=> e.op # 0
         /\ <<e.schedule, e.at>> \in rec
<1>1. e.op \in 0..o /\ e.at \in Nat \ {0}
  BY DEF Execution
<1>2. /\ e.schedule \in Ids /\ e.server \in Servers /\ e.result \in Results
      /\ Active(e) \/ e.result \in Ended <=> e.op # 0
      /\ <<e.schedule, e.at>> \in rec
  BY DEF Execution
<1> QED BY <1>1, <1>2

LEMMA TrimmedFacts ==
  ASSUME NEW h
  PROVE  Trimmed(h) \subseteq h /\ \A e \in h : Active(e) => e \in Trimmed(h)
BY DEF Trimmed

\* Fewer executions.
LEMMA TrimmedGood ==
  ASSUME NEW sch, NEW h, NEW o, NEW rec, NEW sin, Audit(sch, h, o, rec, sin)
  PROVE  Audit(sch, Trimmed(h), o, rec, sin)
BY TrimmedFacts DEF Audit, Distinct, Shows

-----------------------------------------------------------------------------
(* What the operators do                                                   *)

LEMMA LiveMore ==
  ASSUME NEW o \in Nat, NEW p \in Nat, o <= p
  PROVE  Live(o) \subseteq Live(p)
<1>1. 0..o \subseteq 0..p
  OBVIOUS
<1> QED BY <1>1 DEF Live

\* recordAndAdvanceReboot: the occurrence of a schedule is dealt with.
LEMMA AdvancedFacts ==
  ASSUME NEW o \in Nat, NEW p \in Nat, o <= p, NEW s \in Live(o), now \in Nat,
         NEW op \in 0..p, NEW result \in Results
  PROVE  LET u == Advanced(s, op, result)
         IN /\ u \in Live(p) /\ u.last = s.next /\ u.op = op /\ u.result \in {result, "skipped"}
            /\ u.rev = s.rev /\ u.def = s.def
            /\ u.enabled <=> u.next # 0
            /\ u.next # 0 => u.next > now
<1> DEFINE next == NextRun(s.def.timing, s.anchor, now)
           enabled == (next # 0)
           outcome == IF next = 0 THEN "skipped" ELSE result
           u == [s EXCEPT !.last = s.next, !.op = op, !.next = next, !.enabled = enabled,
                          !.result = outcome]
<1>1. next \in Nat /\ (next # 0 => next > now)
  BY NextRunFacts, LiveFacts, LiveOthers
<1>2. enabled \in BOOLEAN
  OBVIOUS
<1>3. outcome \in Results /\ outcome \in {result, "skipped"}
  BY DEF Results
<1>4. Advanced(s, op, result) = u
  BY DEF Advanced, Live
<1>5. enabled <=> next # 0
  OBVIOUS
<1> HIDE DEF next, enabled, outcome
<1>6. s.next \in Nat /\ next \in Nat
  BY <1>1, LiveFacts
<1>7. s \in Live(p)
  BY LiveMore
<1>8. /\ u \in Live(p) /\ u.last = s.next /\ u.op = op /\ u.next = next /\ u.result = outcome
      /\ u.enabled = enabled /\ u.rev = s.rev /\ u.def = s.def
  BY <1>2, <1>3, <1>6, <1>7 DEF Live
<1> HIDE DEF u
<1>9. u.enabled <=> u.next # 0
  BY <1>5, <1>8, Zenon
<1> QED BY <1>1, <1>3, <1>4, <1>8, <1>9

\* What is recorded of some schedules, when o restarts were reserved before and
\* p after: a restart is new, or there is none.
Outcomes(ids, op, result, o, p) ==
  \A id \in ids :
    /\ schedules[id].next # 0 /\ op[id] \in {0, o + 1} /\ op[id] \in 0..p
    /\ result[id] \in Results
    /\ result[id] \in {"awaiting", "uncertain"} \cup Ended <=> op[id] # 0

\* The schedules show what is recorded of them, the others what they showed.
Updated(u, ids, op, result) ==
  /\ \A id \in ids :
       u[id].last = schedules[id].next /\ u[id].op = op[id] /\ u[id].result \in {result[id], "skipped"}
  /\ \A id \in Ids \ ids :
       u[id].rev > 0 =>
         /\ schedules[id].rev > 0 /\ u[id].last = schedules[id].last
         /\ u[id].op = schedules[id].op /\ u[id].result \in {schedules[id].result, "skipped"}

\* The occurrences are recorded from now on.
Marked(rec, rec2, ids) == rec \subseteq rec2 /\ \A id \in ids : <<id, schedules[id].next>> \in rec2

\* Occurrences that were never recorded are recorded.
LEMMA RecordedGood ==
  ASSUME Audit(schedules, history, ops, recorded, since), ops \in Nat,
         NEW ids, ids \subseteq Ids, NEW p, p = ops \/ p = ops + 1, NEW op, NEW result,
         Outcomes(ids, op, result, ops, p), Sound(schedules', p), Updated(schedules', ids, op, result),
         Marked(recorded, recorded', ids), Ahead(schedules', recorded', since'),
         history' = Recorded(history, ids, op, result)
  PROVE  /\ Audit(schedules', history', p, recorded', since')
         /\ \A e \in history : Active(e) => e \in history'
         /\ \A e \in history' : e \in history \/
              /\ e.schedule \in ids /\ e.at = schedules[e.schedule].next
              /\ e.op = op[e.schedule] /\ e.result = result[e.schedule]
              /\ e.server = schedules[e.schedule].def.server
<1> DEFINE made(id) == [n |-> Newest(history) + id, schedule |-> id, server |-> schedules[id].def.server,
                        at |-> schedules[id].next, op |-> op[id], result |-> result[id]]
           h1 == history \cup {made(id) : id \in ids}
           h2 == Trimmed(h1)
<1>1. history' = h2
  BY DEF Recorded
<1>2. /\ Sound(schedules, ops) /\ Ahead(schedules, recorded, since)
      /\ Distinct(history) /\ Shows(schedules, history)
      /\ \A e \in history : Execution(e, ops, recorded)
      /\ recorded \subseteq recorded' /\ \A id \in ids : <<id, schedules[id].next>> \in recorded'
  BY DEF Audit, Marked
<1>3. ASSUME NEW id \in ids
      PROVE  /\ Execution(made(id), p, recorded') /\ made(id).schedule = id
             /\ made(id).at = schedules[id].next /\ made(id).op = op[id]
             /\ made(id).result = result[id] /\ made(id).server = schedules[id].def.server
             /\ made(id).op \in {0, ops + 1}
             /\ <<made(id).schedule, made(id).at>> \notin recorded
  <2>1. /\ schedules[id].next \in Nat \ {0} /\ schedules[id].def.server \in Servers
        /\ <<id, schedules[id].next>> \notin recorded
    <3>1. schedules[id] \in Live(ops) /\ schedules[id].next \in Nat /\ schedules[id].next # 0
      BY <1>2, SoundFacts DEF Outcomes
    <3>2. schedules[id].def.server \in Servers
      BY <3>1, LiveOthers
    <3> QED BY <1>2, <3>1, <3>2 DEF Ahead
  <2> DEFINE m == made(id)
  <2>2. /\ m.n = Newest(history) + id /\ m.schedule = id /\ m.server = schedules[id].def.server
        /\ m.at = schedules[id].next /\ m.op = op[id] /\ m.result = result[id]
        /\ m = [n |-> m.n, schedule |-> m.schedule, server |-> m.server, at |-> m.at, op |-> m.op,
                 result |-> m.result]
    OBVIOUS
  <2> HIDE DEF m
  <2>3. Execution(m, p, recorded')
    BY <1>2, <2>1, <2>2 DEF Execution, IsRecord, Active, Outcomes
  <2>4. made(id).op \in {0, ops + 1}
    BY <2>2 DEF Outcomes, m
  <2> QED BY <2>1, <2>2, <2>3, <2>4 DEF m
<1> HIDE DEF made
<1>4. \A e \in h1 : e \in history \/ \E id \in ids : e = made(id)
  OBVIOUS
<1>5. \A e \in h1 : Execution(e, p, recorded')
  <2>1. 0..ops \subseteq 0..p
    OBVIOUS
  <2>2. ASSUME NEW e \in history PROVE Execution(e, p, recorded')
    <3>1. Execution(e, ops, recorded)
      BY <1>2
    <3>2. e.op \in 0..p /\ <<e.schedule, e.at>> \in recorded'
      BY <1>2, <2>1, <3>1 DEF Execution
    <3> QED BY <3>1, <3>2 DEF Execution
  <2> QED BY <1>3, <1>4, <2>2
<1>6. Distinct(h1)
  <2>1. ASSUME NEW e \in history PROVE e.op <= ops /\ e.op \in Nat /\ <<e.schedule, e.at>> \in recorded
    BY <1>2, ExecutionFacts
  <2>2. ASSUME NEW e \in history, NEW id \in ids
        PROVE  ~(e.schedule = made(id).schedule /\ (e.at = made(id).at \/ (e.op = made(id).op /\ e.op # 0)))
    <3>1. e.schedule = made(id).schedule => e.at # made(id).at
      BY <1>3, <2>1
    <3>2. made(id).op \in {0, ops + 1}
      BY <1>3
    <3>3. e.op \in Nat /\ e.op <= ops
      BY <2>1
    <3>4. e.op # made(id).op \/ e.op = 0
      BY <3>2, <3>3
    <3> QED BY <3>1, <3>4
  <2>3. ASSUME NEW a \in ids, NEW b \in ids, made(a).schedule = made(b).schedule
        PROVE  made(a) = made(b)
    BY <1>3, <2>3
  <2>4. ASSUME NEW e \in h1, NEW f \in h1,
               e.schedule = f.schedule, e.at = f.at \/ (e.op = f.op /\ e.op # 0)
        PROVE  e = f
    <3>1. CASE e \in history /\ f \in history
      BY <1>2, <2>4, <3>1 DEF Distinct
    <3>2. CASE e \in history /\ \E id \in ids : f = made(id)
      BY <2>2, <2>4, <3>2
    <3>3. CASE f \in history /\ \E id \in ids : e = made(id)
      BY <2>2, <2>4, <3>3
    <3>4. CASE (\E id \in ids : e = made(id)) /\ (\E id \in ids : f = made(id))
      BY <2>3, <2>4, <3>4
    <3> QED BY <1>4, <3>1, <3>2, <3>3, <3>4
  <2> QED BY <2>4 DEF Distinct
<1>7. Shows(schedules', h1)
  <2> SUFFICES ASSUME NEW id \in Ids, NEW e \in h1, schedules'[id].rev > 0, e.schedule = id, e.at = schedules'[id].last
               PROVE  schedules'[id].op = e.op /\ schedules'[id].result \in {e.result, "skipped"}
    BY DEF Shows
  <2>1. CASE e \in history /\ id \in ids
    <3>1. e.at = schedules[id].next /\ schedules[id].next # 0
      BY <2>1 DEF Updated, Outcomes
    <3>2. <<id, e.at>> \in recorded
      BY <1>2, <2>1, ExecutionFacts
    <3> QED BY <1>2, <3>1, <3>2 DEF Ahead
  <2>2. CASE e \in history /\ id \notin ids
    <3>1. /\ schedules[id].rev > 0 /\ schedules'[id].last = schedules[id].last
          /\ schedules'[id].op = schedules[id].op /\ schedules'[id].result \in {schedules[id].result, "skipped"}
      BY <2>2 DEF Updated
    <3>2. schedules[id].op = e.op /\ schedules[id].result \in {e.result, "skipped"}
      BY <1>2, <2>2, <3>1 DEF Shows
    <3> QED BY <3>1, <3>2
  <2>3. CASE \E x \in ids : e = made(x)
    <3>1. PICK x \in ids : e = made(x)
      BY <2>3
    <3>2. x = id /\ e.op = op[id] /\ e.result = result[id]
      BY <1>3, <3>1
    <3> QED BY <3>1, <3>2 DEF Updated
  <2> QED BY <1>4, <2>1, <2>2, <2>3
<1>8. Audit(schedules', h1, p, recorded', since')
  BY <1>5, <1>6, <1>7 DEF Audit
<1>9. \A e \in h1 : e \in history \/
        /\ e.schedule \in ids /\ e.at = schedules[e.schedule].next
        /\ e.op = op[e.schedule] /\ e.result = result[e.schedule]
        /\ e.server = schedules[e.schedule].def.server
  <2>1. ASSUME NEW id \in ids, NEW e, e = made(id)
        PROVE  /\ e.schedule \in ids /\ e.at = schedules[e.schedule].next
               /\ e.op = op[e.schedule] /\ e.result = result[e.schedule]
               /\ e.server = schedules[e.schedule].def.server
    BY <1>3, <2>1
  <2> QED BY <1>4, <2>1
<1>10. \A e \in history : e \in h1
  OBVIOUS
<1> HIDE DEF h1
<1> QED BY <1>1, <1>8, <1>9, <1>10, TrimmedGood, TrimmedFacts

\* A schedule is told the outcome of the restart it waited for, unless a later
\* occurrence was recorded meanwhile.
LEMMA InformedFacts ==
  ASSUME NEW o \in Nat, NEW s \in {NoSchedule} \cup Live(o), NEW hits,
         \A e \in hits : e.at \in Nat, NEW op \in 0..o, NEW result \in Results
  PROVE  LET u == Informed(s, hits, op, result)
         IN IF s.rev > 0 /\ \E e \in hits : e.at >= s.last
            THEN /\ u \in Live(o) /\ u.rev = s.rev /\ u.next = s.next /\ u.def = s.def
                 /\ u.enabled = s.enabled
                 /\ u.op = op /\ u.result = result /\ \E e \in hits : u.last = e.at
            ELSE u = s
<1>1. CASE ~(s.rev > 0 /\ \E e \in hits : e.at >= s.last)
  BY <1>1 DEF Informed
<1>2. CASE s.rev > 0 /\ \E e \in hits : e.at >= s.last
  <2> DEFINE hit == CHOOSE e \in hits : TRUE
             last == hit.at
             u == [s EXCEPT !.last = last, !.op = op, !.result = result]
  <2>1. hit \in hits
    BY <1>2
  <2>2. s \in Live(o)
    BY <1>2, NoScheduleFacts
  <2>3. Informed(s, hits, op, result) = u
    BY <1>2 DEF Informed
  <2>4. last \in Nat
    BY <2>1
  <2>5. \E e \in hits : last = e.at
    BY <2>1
  <2> HIDE DEF last
  <2>6. /\ u \in Live(o) /\ u.rev = s.rev /\ u.next = s.next /\ u.def = s.def
        /\ u.enabled = s.enabled /\ u.op = op /\ u.result = result /\ u.last = last
    BY <2>2, <2>4 DEF Live
  <2> HIDE DEF u
  <2> QED BY <1>2, <2>3, <2>5, <2>6
<1> QED BY <1>1, <1>2

\* An open execution of the restart takes its outcome, another stays.
LEMMA ClosedFacts ==
  ASSUME NEW o \in Nat, NEW rec, NEW e, Execution(e, o, rec), NEW op \in 1..o,
         NEW result \in {"uncertain", "completed", "failed"}
  PROVE  LET c == Closed(e, op, result)
         IN /\ Execution(c, o, rec)
            /\ c.n = e.n /\ c.schedule = e.schedule /\ c.server = e.server
            /\ c.at = e.at /\ c.op = e.op
            /\ IF e.op = op /\ Active(e) THEN c.result = result ELSE c = e
<1>1. CASE ~(e.op = op /\ Active(e))
  BY <1>1 DEF Closed
<1>2. CASE e.op = op /\ Active(e)
  <2> DEFINE c == [n |-> e.n, schedule |-> e.schedule, server |-> e.server, at |-> e.at,
                   op |-> e.op, result |-> result]
  <2>1. Closed(e, op, result) = c
    BY <1>2 DEF Closed, Execution, IsRecord
  <2>2. /\ c.n = e.n /\ c.schedule = e.schedule /\ c.server = e.server
        /\ c.at = e.at /\ c.op = e.op /\ c.result = result
        /\ IsRecord(c)
    BY DEF IsRecord
  <2> HIDE DEF c
  <2>3. e.op # 0
    BY <1>2
  <2>4. Active(c) \/ c.result \in Ended
    BY <2>2 DEF Active, Ended
  <2>5. result \in Results
    BY DEF Results
  <2>6. Execution(c, o, rec)
    BY <2>2, <2>3, <2>4, <2>5 DEF Execution
  <2> QED BY <1>2, <2>1, <2>2, <2>6
<1> QED BY <1>1, <1>2

\* finishRebootOccurrences
LEMMA FinishFacts ==
  ASSUME IInv, NEW op \in 1..ops, NEW result \in {"uncertain", "completed", "failed"},
         Finish(op, result)
  PROVE  /\ Audit(schedules', history', ops, recorded, since)
         /\ \A id \in Ids :
              /\ schedules'[id].rev = schedules[id].rev /\ schedules'[id].next = schedules[id].next
              /\ schedules'[id].def = schedules[id].def
         /\ \A c \in history' : \E e \in history :
              /\ c.n = e.n /\ c.schedule = e.schedule /\ c.server = e.server
              /\ c.at = e.at /\ c.op = e.op
              /\ IF e.op = op /\ Active(e) THEN c.result = result ELSE c = e
         /\ \A e \in history : Active(e) /\ (e.op # op \/ result = "uncertain") =>
              \E c \in history' :
                c.n = e.n /\ c.schedule = e.schedule /\ c.at = e.at /\ Active(c)
<1> DEFINE closed(e) == Closed(e, op, result)
           h == {closed(e) : e \in history}
           hits(id) == {e \in history : e.schedule = id /\ e.op = op /\ Active(e)}
           u(id) == Informed(schedules[id], hits(id), op, result)
<1>1. /\ Sound(schedules, ops) /\ Ahead(schedules, recorded, since)
      /\ Distinct(history) /\ Shows(schedules, history)
      /\ \A e \in history : Execution(e, ops, recorded)
      /\ ops \in Nat /\ op # 0 /\ op \in 0..ops /\ result \in Results
  BY Known DEF Results
<1>2. history' = Trimmed(h)
  BY DEF Finish
<1>3. schedules' = [id \in Ids |-> u(id)]
  BY DEF Finish
<1>4. ASSUME NEW e \in history
      PROVE  /\ Execution(closed(e), ops, recorded)
             /\ closed(e).n = e.n /\ closed(e).schedule = e.schedule /\ closed(e).server = e.server
             /\ closed(e).at = e.at /\ closed(e).op = e.op
             /\ IF e.op = op /\ Active(e) THEN closed(e).result = result ELSE closed(e) = e
  <2>1. ops \in Nat /\ Execution(e, ops, recorded)
    BY <1>1
  <2> QED BY <2>1, ClosedFacts
<1>5. ASSUME NEW id \in Ids
      PROVE  IF schedules[id].rev > 0 /\ \E e \in hits(id) : e.at >= schedules[id].last
             THEN /\ u(id) \in Live(ops) /\ u(id).rev = schedules[id].rev
                  /\ u(id).next = schedules[id].next /\ u(id).def = schedules[id].def
                  /\ u(id).enabled = schedules[id].enabled
                  /\ u(id).op = op /\ u(id).result = result
                  /\ \E e \in hits(id) : u(id).last = e.at
             ELSE u(id) = schedules[id]
  <2>1. \A e \in hits(id) : e.at \in Nat
    BY <1>1, ExecutionFacts
  <2>2. schedules[id] \in {NoSchedule} \cup Live(ops)
    BY <1>1 DEF Sound
  <2> HIDE DEF hits
  <2> QED BY <1>1, <2>1, <2>2, InformedFacts
<1>6. \A id \in Ids : \A e, f \in hits(id) : e = f
  BY <1>1 DEF Distinct
<1>7. \A id \in Ids, e \in history : e \in hits(id) <=> e.schedule = id /\ e.op = op /\ Active(e)
  OBVIOUS
<1>8. \A id \in Ids : hits(id) \subseteq history
  OBVIOUS
<1>9. \A c \in h : \E e \in history : c = closed(e)
  OBVIOUS
<1> HIDE DEF u, hits, closed
<1>10. ASSUME NEW id \in Ids
       PROVE  /\ schedules'[id] = u(id) /\ schedules'[id].rev = schedules[id].rev
              /\ schedules'[id].next = schedules[id].next /\ schedules'[id].def = schedules[id].def
  BY <1>3, <1>5
<1>11. Sound(schedules', ops)
  <2>1. ASSUME NEW id \in Ids
        PROVE  /\ u(id) \in {NoSchedule} \cup Live(ops)
               /\ u(id).next # 0 <=> u(id).enabled
    <3>1. /\ schedules[id] \in {NoSchedule} \cup Live(ops)
          /\ schedules[id].next # 0 <=> schedules[id].enabled
      BY <1>1 DEF Sound
    <3>2. u(id) \in Live(ops) \/ u(id) = schedules[id]
      BY <1>5
    <3>3. u(id).next = schedules[id].next /\ u(id).enabled = schedules[id].enabled
      BY <1>5
    <3> QED BY <3>1, <3>2, <3>3
  <2> QED BY <1>3, <2>1 DEF Sound
<1>12. Ahead(schedules', recorded, since)
  BY <1>1, <1>10 DEF Ahead
<1>13. Distinct(h)
  <2> SUFFICES ASSUME NEW c \in h, NEW d \in h,
                      c.schedule = d.schedule, c.at = d.at \/ (c.op = d.op /\ c.op # 0)
               PROVE  c = d
    BY DEF Distinct
  <2>1. PICK e \in history : c = closed(e)
    BY <1>9
  <2>2. PICK f \in history : d = closed(f)
    BY <1>9
  <2>3. e = f
    BY <1>1, <1>4, <2>1, <2>2 DEF Distinct
  <2> QED BY <2>1, <2>2, <2>3
<1>14. Shows(schedules', h)
  <2> SUFFICES ASSUME NEW id \in Ids, NEW c \in h, schedules'[id].rev > 0, c.schedule = id,
                      c.at = schedules'[id].last
               PROVE  schedules'[id].op = c.op /\ schedules'[id].result \in {c.result, "skipped"}
    BY DEF Shows
  <2>1. PICK e \in history : c = closed(e)
    BY <1>9
  <2>2. e.schedule = id /\ c.at = e.at /\ c.op = e.op /\ schedules[id].rev > 0
    BY <1>4, <1>10, <2>1
  <2>3. CASE \E f \in hits(id) : f.at >= schedules[id].last
    <3>1. /\ u(id).op = op /\ u(id).result = result
          /\ \E f \in hits(id) : u(id).last = f.at
      BY <1>5, <2>2, <2>3
    <3>2. PICK f \in hits(id) : u(id).last = f.at
      BY <3>1
    <3>3. f \in history /\ f.schedule = id /\ f.op = op /\ Active(f)
      BY <1>7, <1>8, <3>2
    <3>4. e.at = f.at /\ e.schedule = f.schedule
      BY <1>10, <2>2, <3>2, <3>3
    <3>5. e = f
      BY <1>1, <3>3, <3>4 DEF Distinct
    <3>6. c.result = result /\ c.op = op
      BY <1>4, <2>1, <2>2, <3>3, <3>5
    <3> QED BY <1>10, <3>1, <3>6
  <2>4. CASE ~\E f \in hits(id) : f.at >= schedules[id].last
    <3>1. u(id) = schedules[id]
      BY <1>5, <2>4
    <3>2. e.at = schedules[id].last /\ e.at \in Nat
      BY <1>1, <1>10, <2>2, <3>1, ExecutionFacts
    <3>3. e \notin hits(id)
      BY <2>4, <3>2
    <3>4. c = e
      BY <1>4, <1>7, <2>1, <2>2, <3>3
    <3> QED BY <1>1, <1>10, <2>2, <3>1, <3>2, <3>4 DEF Shows
  <2> QED BY <2>3, <2>4
<1>15. \A c \in h : Execution(c, ops, recorded)
  BY <1>4, <1>9
<1>16. Audit(schedules', h, ops, recorded, since)
  BY <1>11, <1>12, <1>13, <1>14, <1>15 DEF Audit
<1>17. Audit(schedules', history', ops, recorded, since)
  BY <1>2, <1>16, TrimmedGood
<1>18. \A e \in history : closed(e) \in h
  OBVIOUS
<1> HIDE DEF h
<1>19. ASSUME NEW e \in history, Active(e), e.op # op \/ result = "uncertain"
       PROVE  \E c \in history' :
               c.n = e.n /\ c.schedule = e.schedule /\ c.at = e.at /\ Active(c)
  <2>1. /\ closed(e) \in h /\ closed(e).n = e.n /\ closed(e).schedule = e.schedule
        /\ closed(e).at = e.at
    BY <1>4, <1>18
  <2>2. Active(closed(e))
    BY <1>4, <1>19 DEF Active
  <2> QED BY <1>2, <2>1, <2>2, TrimmedFacts
<1>20. ASSUME NEW c \in history'
       PROVE  \E e \in history :
              /\ c.n = e.n /\ c.schedule = e.schedule /\ c.server = e.server
              /\ c.at = e.at /\ c.op = e.op
              /\ IF e.op = op /\ Active(e) THEN c.result = result ELSE c = e
  <2>1. c \in h
    BY <1>2, TrimmedFacts
  <2>2. PICK e \in history : c = closed(e)
    BY <1>9, <2>1
  <2> QED BY <1>4, <2>2
<1> QED BY <1>10, <1>17, <1>19, <1>20
\* The candidate of saveReboot is sound; its next run is ahead, or the timing it
\* had is kept.
LEMMA SavedFacts ==
  ASSUME NEW o \in Nat, NEW old \in {NoSchedule} \cup Live(o), old.next # 0 <=> old.enabled,
         NEW def \in Definitions, NEW enabled \in BOOLEAN, now \in Nat,
         NextRun(def.timing, Saved(old, def, enabled).anchor, now) # 0
  PROVE  LET s == Saved(old, def, enabled)
         IN /\ s \in Live(o) /\ s.def = def /\ s.last = old.last /\ s.op = old.op
            /\ s.result = old.result
            /\ s.next # 0 <=> s.enabled
            /\ s.next # 0 =>
                 \/ s.next > now
                 \/ /\ s.next = old.next /\ old.rev > 0 /\ old.enabled /\ enabled
                    /\ SameTiming(old.def, def)
<1> DEFINE changed == old.rev = 0 \/ ~SameTiming(old.def, def)
           revised == changed \/ old.def # def \/ old.enabled # enabled
           reset   == changed \/ (~old.enabled /\ enabled)
           anchor  == IF def.timing.mode # "interval" THEN 0
                      ELSE IF reset \/ old.anchor = 0 THEN now ELSE old.anchor
           run     == NextRun(def.timing, anchor, now)
           next    == IF ~enabled THEN 0
                      ELSE IF changed \/ old.next = 0 THEN run
                      ELSE old.next
           rev     == IF revised THEN old.rev + 1 ELSE old.rev
           s       == [def |-> def, rev |-> rev, enabled |-> enabled, anchor |-> anchor,
                       next |-> next, last |-> old.last, result |-> old.result,
                       op |-> old.op, warned |-> old.warned]
<1>1. Saved(old, def, enabled) = s
  BY DEF Saved
<1>2. /\ old.rev \in Nat /\ old.anchor \in Nat /\ old.next \in Nat /\ old.last \in Nat
      /\ old.op \in 0..o
  <2>1. CASE old = NoSchedule
    BY <2>1, NoScheduleFacts
  <2>2. CASE old \in Live(o)
    BY <2>2, LiveFacts
  <2> QED BY <2>1, <2>2
<1>3. old.enabled \in BOOLEAN /\ old.result \in Results \cup {""} /\ old.warned \in Marks
  <2>1. CASE old = NoSchedule
    <3>1. <<0, 0>> \in Marks
      BY DEF Marks
    <3>2. old.warned \in Marks
      BY <2>1, <3>1, NoScheduleOthers, Zenon
    <3>3. old.enabled \in BOOLEAN /\ old.result = ""
      BY <2>1, NoScheduleOthers
    <3> QED BY <3>2, <3>3
  <2>2. CASE old \in Live(o)
    BY <2>2, LiveOthers
  <2> QED BY <2>1, <2>2
<1>4. def.timing \in Timings
  BY DEF Definitions
<1> HIDE DEF changed, reset
<1>5. anchor \in Nat
  BY <1>2
<1>6. s.anchor = anchor
  OBVIOUS
<1> HIDE DEF anchor
<1>7. run \in Nat /\ run # 0 /\ run > now
  <2>1. Saved(old, def, enabled).anchor = anchor
    BY <1>1, <1>6, Zenon
  <2>2. run # 0
    BY <2>1
  <2> QED BY <1>4, <1>5, <2>2, NextRunFacts
<1> HIDE DEF run
<1>8. next \in Nat /\ (next # 0 <=> enabled)
  BY <1>2, <1>7
<1>9. next # 0 => next > now \/ (next = old.next /\ old.next # 0 /\ enabled /\ ~changed)
  BY <1>7
<1>10. changed <=> old.rev = 0 \/ ~SameTiming(old.def, def)
  BY DEF changed
<1>11. rev \in Nat /\ rev # 0
  BY <1>2, <1>10
<1>12. rev \in Nat \ {0}
  BY <1>11
<1> HIDE DEF next, rev
<1>13. /\ s \in Live(o) /\ s.def = def /\ s.last = old.last /\ s.op = old.op
       /\ s.result = old.result /\ s.next = next /\ s.enabled = enabled
  BY <1>2, <1>3, <1>5, <1>8, <1>12 DEF Live
<1> HIDE DEF s
<1>14. s.next # 0 <=> s.enabled
  <2>1. next # 0 <=> enabled
    BY <1>8
  <2> QED BY <1>13, <2>1, Zenon
<1>15. ASSUME s.next # 0
       PROVE  \/ s.next > now
              \/ /\ s.next = old.next /\ old.rev > 0 /\ old.enabled /\ enabled
                 /\ SameTiming(old.def, def)
  <2>1. s.next = next
    BY <1>13
  <2>2. CASE next > now
    BY <2>1, <2>2
  <2>3. CASE next = old.next /\ old.next # 0 /\ enabled /\ ~changed
    <3>1. old.rev # 0 /\ SameTiming(old.def, def)
      BY <1>10, <2>3
    <3>2. old.rev > 0
      BY <1>2, <3>1
    <3>3. old.enabled
      BY <2>3
    <3> QED BY <2>1, <2>3, <3>1, <3>2, <3>3
  <2> QED BY <1>9, <1>15, <2>1, <2>2, <2>3
<1> QED BY <1>1, <1>13, <1>14, <1>15, Zenon

\* cancelObsoleteWarnings keeps or drops a warning.
LEMMA ValidFacts ==
  ASSUME NEW W, NEW sch, NEW srv, NEW time
  PROVE  Valid(W, sch, srv, time) \subseteq W
BY DEF Valid

\* Schedules that show and await the same.
LEMMA SameGood ==
  ASSUME NEW sch, NEW h, NEW o, NEW rec, NEW sin, Audit(sch, h, o, rec, sin),
         NEW u, Sound(u, o),
         \A id \in Ids :
           /\ u[id].rev = sch[id].rev /\ u[id].next = sch[id].next /\ u[id].last = sch[id].last
           /\ u[id].op = sch[id].op /\ u[id].result = sch[id].result
  PROVE  Audit(u, h, o, rec, sin)
<1>1. Ahead(u, rec, sin)
  BY DEF Audit, Ahead
<1>2. Shows(u, h)
  BY DEF Audit, Shows
<1> QED BY <1>1, <1>2 DEF Audit

\* The snapshot, when what it names keeps its server.
LEMMA SnapshotKept ==
  ASSUME IInv, scan' = scan \/ scan' = Moved, drawn' \in Nat, drawn <= drawn',
         ~RetargetInScan =>
           \A id \in Ids : id <= drawn /\ Exists(id)' /\ scan.phase = "claim" =>
             Exists(id) /\ schedules'[id].def.server = schedules[id].def.server
  PROVE  Snapshot'
<1>1. /\ scan \in [phase : {"idle", "warn", "group", "claim"}, at : Nat, todo : [Servers -> SUBSET Ids]]
      /\ scan.phase # "claim" => scan.todo = [s \in Servers |-> {}]
      /\ \A s \in Servers : \A id \in scan.todo[s] :
           /\ id <= drawn
           /\ ~RetargetInScan /\ Exists(id) => schedules[id].def.server = s
  BY DEF IInv, Snapshot
<1>2. /\ scan' \in [phase : {"idle", "warn", "group", "claim"}, at : Nat, todo : [Servers -> SUBSET Ids]]
      /\ scan'.phase = scan.phase
      /\ \A s \in Servers : scan'.todo[s] \subseteq scan.todo[s]
  <2>1. CASE scan' = scan
    BY <1>1, <2>1
  <2>2. CASE scan' = Moved
    <3> DEFINE c == Current
               todo == [scan.todo EXCEPT ![c] = {}]
    <3>1. scan' = [scan EXCEPT !.todo = todo]
      BY <2>2 DEF Moved
    <3>2. scan.todo \in [Servers -> SUBSET Ids]
      BY <1>1
    <3> HIDE DEF c
    <3>3. todo \in [Servers -> SUBSET Ids] /\ \A s \in Servers : todo[s] \subseteq scan.todo[s]
      BY <3>2
    <3> HIDE DEF todo
    <3> QED BY <1>1, <3>1, <3>3
  <2> QED BY <2>1, <2>2
<1>3. scan'.phase # "claim" => scan'.todo = [s \in Servers |-> {}]
  <2> SUFFICES ASSUME scan'.phase # "claim" PROVE scan'.todo = [s \in Servers |-> {}]
    OBVIOUS
  <2>1. scan.todo = [s \in Servers |-> {}]
    BY <1>1, <1>2
  <2>2. scan'.todo \in [Servers -> SUBSET Ids]
    BY <1>2
  <2> QED BY <1>2, <2>1, <2>2
<1>4. ASSUME NEW s \in Servers, NEW id \in scan'.todo[s]
      PROVE  /\ id <= drawn'
             /\ ~RetargetInScan /\ Exists(id)' => schedules'[id].def.server = s
  <2>1. id \in scan.todo[s] /\ id \in Ids
    BY <1>2
  <2>2. scan.phase = "claim"
    BY <1>1, <2>1
  <2>3. id <= drawn /\ id \in Nat /\ drawn \in Nat
    BY <1>1, <2>1, Known DEF Ids
  <2>4. id <= drawn'
    BY <2>3
  <2>5. ASSUME ~RetargetInScan, Exists(id)' PROVE schedules'[id].def.server = s
    <3>1. Exists(id) /\ schedules'[id].def.server = schedules[id].def.server
      BY <2>1, <2>2, <2>3, <2>5
    <3> QED BY <1>1, <2>1, <2>5, <3>1
  <2> QED BY <2>4, <2>5
<1> QED BY <1>2, <1>3, <1>4 DEF Snapshot

-----------------------------------------------------------------------------
(* The scan                                                                *)

LEMMA IdleFacts ==
  /\ Idle \in [phase : {"idle", "warn", "group", "claim"}, at : Nat, todo : [Servers -> SUBSET Ids]]
  /\ Idle.todo = [s \in Servers |-> {}]
BY DEF Idle

\* A step that moves the scan only.
LEMMA ScanOnly ==
  ASSUME IInv, Snapshot', UNCHANGED <<now, drawn, state, lock, ops, observe>>
  PROVE  IInv'
<1>1. Counters' /\ Audit(schedules', history', ops', recorded', since')
  BY DEF IInv, Counters, state, observe
<1>2. \A id \in Ids : Exists(id)' => id <= drawn'
  BY DEF IInv, Exists, state
<1>3. /\ servers' \in [Servers -> ServerRecords(ops')] /\ OneServer(servers')
      /\ Awaits(history', servers') /\ warnings' \subseteq Warnings
  BY DEF IInv, state
<1>4. lock' = Free \/ lock' \in [op : 1..ops', server : Servers, by : {"scan", "request"}]
  BY DEF IInv
<1> QED BY <1>1, <1>2, <1>3, <1>4 DEF IInv

LEMMA IdleSnapshot ==
  ASSUME scan' = Idle \/ \E at \in Nat : scan' = [Idle EXCEPT !.phase = "warn", !.at = at]
  PROVE  Snapshot'
<1>1. /\ scan' \in [phase : {"idle", "warn", "group", "claim"}, at : Nat, todo : [Servers -> SUBSET Ids]]
      /\ scan'.todo = [s \in Servers |-> {}]
  BY IdleFacts
<1> QED BY <1>1 DEF Snapshot

LEMMA ScanBeginIInv == ASSUME IInv, ScanBegin PROVE IInv'
<1>1. Snapshot'
  BY Known, IdleSnapshot DEF ScanBegin
<1> QED BY <1>1, ScanOnly DEF ScanBegin, observe

LEMMA ScanAbortIInv == ASSUME IInv, ScanAbort PROVE IInv'
<1>1. Snapshot'
  BY IdleSnapshot DEF ScanAbort
<1> QED BY <1>1, ScanOnly DEF ScanAbort

LEMMA ScanEndIInv == ASSUME IInv, ScanEnd PROVE IInv'
<1>1. Snapshot'
  BY IdleSnapshot DEF ScanEnd
<1> QED BY <1>1, ScanOnly DEF ScanEnd

LEMMA ScanSkipIInv == ASSUME IInv, ScanSkip PROVE IInv'
<1>1. Snapshot'
  BY Known, SnapshotKept DEF ScanSkip, state, Exists
<1> QED BY <1>1, ScanOnly DEF ScanSkip

LEMMA ScanGroupIInv == ASSUME IInv, ScanGroup PROVE IInv'
<1> DEFINE due(s) == {id \in Ids : Due(id, scan.at) /\ schedules[id].def.server = s}
           todo == [s \in Servers |-> due(s)]
<1>1. scan \in [phase : {"idle", "warn", "group", "claim"}, at : Nat, todo : [Servers -> SUBSET Ids]]
  BY DEF IInv, Snapshot
<1>2. scan' = [scan EXCEPT !.phase = "claim", !.todo = todo]
  BY DEF ScanGroup
<1>3. todo \in [Servers -> SUBSET Ids]
  OBVIOUS
<1>4. ASSUME NEW s \in Servers, NEW id \in todo[s]
      PROVE  id <= drawn /\ schedules[id].def.server = s
  <2>1. id \in Ids /\ schedules[id].next # 0 /\ schedules[id].def.server = s
    BY <1>4 DEF Due
  <2>2. schedules[id].rev > 0
    BY <2>1, Known, SoundFacts
  <2> QED BY <2>1, <2>2 DEF IInv, Exists
<1> HIDE DEF todo
<1>5. scan' \in [phase : {"idle", "warn", "group", "claim"}, at : Nat, todo : [Servers -> SUBSET Ids]]
  BY <1>1, <1>2, <1>3
<1>6. scan'.phase = "claim" /\ scan'.todo = todo
  BY <1>1, <1>2
<1>7. Snapshot'
  BY <1>4, <1>5, <1>6 DEF Snapshot, ScanGroup, state
<1> QED BY <1>7, ScanOnly DEF ScanGroup

\* scanRestartWarnings: the schedules it announces are marked.
LEMMA ScanWarnIInv == ASSUME IInv, ScanWarn PROVE IInv'
<1> DEFINE ids == {id \in Ids : Warns(id)}
           mark(id) == <<schedules[id].rev, schedules[id].next>>
           occurrence(id) == [id |-> id, rev |-> schedules[id].rev,
                              next |-> schedules[id].next, sent |-> FALSE]
           u(id) == IF id \in ids THEN [schedules[id] EXCEPT !.warned = mark(id)] ELSE schedules[id]
<1>1. /\ ops \in Nat /\ Sound(schedules, ops) /\ warnings \subseteq Warnings
      /\ Audit(schedules, history, ops, recorded, since)
  BY Known DEF IInv
<1>2. /\ schedules' = [id \in Ids |-> u(id)]
      /\ warnings' = Valid(warnings, schedules, servers, scan.at) \cup {occurrence(id) : id \in ids}
      /\ scan' = [scan EXCEPT !.phase = "group"] /\ scan.phase = "warn"
      /\ UNCHANGED <<now, drawn, history, servers, lock, ops, recorded, since>>
  BY DEF ScanWarn
<1>3. ASSUME NEW id \in ids
      PROVE  mark(id) \in Marks /\ occurrence(id) \in Warnings
  <2>1. id \in Ids /\ schedules[id].rev \in Nat /\ schedules[id].next \in Nat
    BY <1>1, SoundFacts
  <2> QED BY <2>1 DEF Marks, Warnings
<1>4. warnings' \subseteq Warnings
  BY <1>1, <1>2, <1>3, ValidFacts
<1> HIDE DEF mark
<1>5. ASSUME NEW id \in Ids
      PROVE  /\ u(id) \in {NoSchedule} \cup Live(ops)
             /\ u(id).enabled = schedules[id].enabled
             /\ u(id).rev = schedules[id].rev /\ u(id).next = schedules[id].next
             /\ u(id).last = schedules[id].last /\ u(id).op = schedules[id].op
             /\ u(id).result = schedules[id].result
             /\ u(id).def = schedules[id].def
  <2>1. CASE id \notin ids
    BY <1>1, <2>1 DEF Sound
  <2>2. CASE id \in ids
    <3>1. schedules[id] \in Live(ops)
      BY <1>1, <2>2, SoundFacts DEF Warns, WarningEligible
    <3>2. mark(id) \in Marks
      BY <1>3, <2>2
    <3> QED BY <2>2, <3>1, <3>2 DEF Live
  <2> QED BY <2>1, <2>2
<1> HIDE DEF u, ids
<1>6. Sound(schedules', ops)
  <2>1. \A id \in Ids : u(id).next # 0 <=> u(id).enabled
    BY <1>1, <1>5 DEF Sound
  <2> QED BY <1>2, <1>5, <2>1 DEF Sound
<1>7. \A id \in Ids : schedules'[id] = u(id)
  BY <1>2
<1>8. Audit(schedules', history', ops', recorded', since')
  BY <1>1, <1>2, <1>5, <1>6, <1>7, SameGood
<1>9. Counters' /\ (\A id \in Ids : Exists(id)' => id <= drawn')
  BY <1>2, <1>5, <1>7 DEF IInv, Counters, Exists
<1>10. Snapshot'
  <2>1. /\ scan \in [phase : {"idle", "warn", "group", "claim"}, at : Nat, todo : [Servers -> SUBSET Ids]]
        /\ scan.todo = [s \in Servers |-> {}]
    BY <1>2 DEF IInv, Snapshot
  <2>2. /\ scan' \in [phase : {"idle", "warn", "group", "claim"}, at : Nat, todo : [Servers -> SUBSET Ids]]
        /\ scan'.todo = [s \in Servers |-> {}]
    BY <1>2, <2>1
  <2> QED BY <2>2 DEF Snapshot
<1>11. /\ servers' \in [Servers -> ServerRecords(ops')] /\ OneServer(servers')
       /\ Awaits(history', servers')
       /\ lock' = Free \/ lock' \in [op : 1..ops', server : Servers, by : {"scan", "request"}]
  BY <1>2 DEF IInv
<1> QED BY <1>4, <1>8, <1>9, <1>10, <1>11 DEF IInv

-----------------------------------------------------------------------------
(* The API, the clock, the other lifecycle handlers                        *)

\* More restarts were reserved.
LEMMA MoreGood ==
  ASSUME NEW sch, NEW h, NEW o \in Nat, NEW rec, NEW sin, Audit(sch, h, o, rec, sin),
         NEW p \in Nat, o <= p
  PROVE  Audit(sch, h, p, rec, sin)
<1>1. Live(o) \subseteq Live(p)
  BY LiveMore
<1>2. 0..o \subseteq 0..p
  OBVIOUS
<1>3. Sound(sch, p)
  BY <1>1 DEF Audit, Sound
<1>4. \A e \in h : Execution(e, p, rec)
  BY <1>2 DEF Audit, Execution
<1> QED BY <1>3, <1>4 DEF Audit

\* Some schedules are deleted.
LEMMA DroppedGood ==
  ASSUME NEW sch, NEW h, NEW o \in Nat, NEW rec, NEW sin, Audit(sch, h, o, rec, sin),
         NEW u, u = [id \in Ids |-> u[id]], \A id \in Ids : u[id] = sch[id] \/ u[id] = NoSchedule
  PROVE  Audit(u, h, o, rec, sin)
<1>1. Sound(u, o)
  <2>1. ASSUME NEW id \in Ids
        PROVE  u[id] \in {NoSchedule} \cup Live(o) /\ (u[id].next # 0 <=> u[id].enabled)
    <3>1. sch[id] \in {NoSchedule} \cup Live(o) /\ (sch[id].next # 0 <=> sch[id].enabled)
      BY DEF Audit, Sound
    <3>2. NoSchedule.next = 0 /\ NoSchedule.enabled = FALSE
      BY NoScheduleFacts, NoScheduleOthers
    <3> QED BY <3>1, <3>2
  <2> QED BY <2>1 DEF Sound
<1>2. Ahead(u, rec, sin)
  BY NoScheduleFacts DEF Audit, Ahead
<1>3. Shows(u, h)
  BY NoScheduleFacts DEF Audit, Shows
<1> QED BY <1>1, <1>2, <1>3 DEF Audit

LEMMA TickIInv == ASSUME IInv, Tick PROVE IInv'
<1>1. /\ now \in Nat /\ now < MaxTime /\ now' = now + 1 /\ now \in 1..MaxTime /\ MaxTime \in Nat
      /\ UNCHANGED <<drawn, state, lock, scan, ops, recorded, since>>
  BY Known, Bounds DEF Tick, observe
<1>2. now' \in 1..MaxTime /\ 1..now \subseteq 1..now' /\ 0..now \subseteq 0..now'
  BY <1>1
<1>3. recorded' \subseteq Ids \X (1..now') /\ since' \in [Ids -> 0..now']
  BY <1>1, <1>2, Known
<1>4. Counters'
  BY <1>1, <1>2, <1>3 DEF IInv, Counters
<1>5. Snapshot' /\ Audit(schedules', history', ops', recorded', since')
  BY <1>1 DEF IInv, Snapshot, state, Exists
<1>6. /\ \A id \in Ids : Exists(id)' => id <= drawn'
      /\ servers' \in [Servers -> ServerRecords(ops')] /\ OneServer(servers')
      /\ Awaits(history', servers') /\ warnings' \subseteq Warnings
      /\ lock' = Free \/ lock' \in [op : 1..ops', server : Servers, by : {"scan", "request"}]
  BY <1>1 DEF IInv, state, Exists
<1> QED BY <1>4, <1>5, <1>6 DEF IInv


LEMMA SendWarningIInv == ASSUME IInv, SendWarning PROVE IInv'
<1>1. warnings' \subseteq Warnings
  <2>1. PICK w \in warnings :
          warnings' = (warnings \ {w}) \cup
                        (IF WarningValid(w, schedules[w.id], servers, now)
                           THEN {[w EXCEPT !.sent = TRUE]} ELSE {})
    BY DEF SendWarning
  <2>2. warnings \subseteq Warnings
    BY Known
  <2>3. [w EXCEPT !.sent = TRUE] \in Warnings
    BY <2>2 DEF Warnings
  <2> QED BY <2>1, <2>2, <2>3
<1>2. UNCHANGED <<now, drawn, schedules, history, servers, lock, scan, ops, recorded, since>>
  BY DEF SendWarning, observe
<1>3. Counters' /\ Snapshot' /\ Audit(schedules', history', ops', recorded', since')
  BY <1>2 DEF IInv, Counters, Snapshot, Exists
<1>4. /\ \A id \in Ids : Exists(id)' => id <= drawn'
      /\ servers' \in [Servers -> ServerRecords(ops')] /\ OneServer(servers')
      /\ Awaits(history', servers')
      /\ lock' = Free \/ lock' \in [op : 1..ops', server : Servers, by : {"scan", "request"}]
  BY <1>2 DEF IInv, Exists
<1> QED BY <1>1, <1>3, <1>4 DEF IInv

LEMMA DeleteIInv == ASSUME IInv, Delete PROVE IInv'
<1>1. PICK i \in Ids :
        /\ schedules' = [schedules EXCEPT ![i] = NoSchedule]
        /\ warnings' = Valid(warnings, schedules', servers, now)
        /\ UNCHANGED <<now, drawn, history, servers, lock, scan, ops, recorded, since>>
  BY DEF Delete, observe
<1>2. schedules = [id \in Ids |-> schedules[id]] /\ ops \in Nat /\ drawn \in Nat
  BY Known DEF Sound
<1>3. /\ schedules' = [id \in Ids |-> schedules'[id]]
      /\ \A id \in Ids : schedules'[id] = schedules[id] \/ schedules'[id] = NoSchedule
  BY <1>1, <1>2
<1>4. Audit(schedules', history', ops', recorded', since')
  BY <1>1, <1>2, <1>3, DroppedGood DEF IInv
<1>5. Snapshot'
  BY <1>1, <1>2, <1>3, NoScheduleFacts, SnapshotKept DEF Exists
<1>6. \A id \in Ids : Exists(id)' => id <= drawn'
  BY <1>1, <1>3, NoScheduleFacts DEF IInv, Exists
<1>7. /\ Counters' /\ servers' \in [Servers -> ServerRecords(ops')] /\ OneServer(servers')
      /\ Awaits(history', servers') /\ warnings' \subseteq Warnings
      /\ lock' = Free \/ lock' \in [op : 1..ops', server : Servers, by : {"scan", "request"}]
  BY <1>1, ValidFacts DEF IInv, Counters
<1> QED BY <1>4, <1>5, <1>6, <1>7 DEF IInv

LEMMA SaveIInv == ASSUME IInv, Save PROVE IInv'
<1>1. PICK id \in Ids, def \in Definitions, enabled \in BOOLEAN :
        LET s == Saved(schedules[id], def, enabled)
        IN /\ edits < MaxEdits
           /\ Exists(id) \/ id = drawn + 1
           /\ Exists(id) /\ scan.phase # "idle" /\ ~RetargetInScan
                => def.server = schedules[id].def.server
           /\ ~Gone(def.server) /\ ~Deleting(def.server)
           /\ NextRun(def.timing, s.anchor, now) # 0
           /\ schedules' = [schedules EXCEPT ![id] = s]
           /\ warnings' = Valid(warnings, schedules', servers, now)
           /\ drawn' = IF Exists(id) THEN drawn ELSE id
           /\ edits' = edits + 1
           /\ since' = [since EXCEPT ![id] =
                          IF Exists(id) /\ schedules[id].enabled /\ enabled
                             /\ SameTiming(schedules[id].def, def) THEN @ ELSE now]
           /\ UNCHANGED <<now, history, servers, lock, scan, ops, faults, recorded>>
  BY Zenon DEF Save
<1> DEFINE old == schedules[id]
           s == Saved(old, def, enabled)
<1>2. /\ now \in Nat /\ now \in 1..MaxTime /\ ops \in Nat /\ drawn \in Nat
      /\ recorded \subseteq Ids \X (1..now) /\ since \in [Ids -> 0..now]
      /\ Sound(schedules, ops) /\ Ahead(schedules, recorded, since)
      /\ Shows(schedules, history)
      /\ \A e \in history : Execution(e, ops, recorded)
  BY Known
<1>3. /\ s \in Live(ops) /\ s.def = def /\ s.last = old.last /\ s.op = old.op
      /\ s.result = old.result
      /\ s.next # 0 <=> s.enabled
      /\ s.next # 0 =>
           \/ s.next > now
           \/ /\ s.next = old.next /\ old.rev > 0 /\ old.enabled /\ enabled
              /\ SameTiming(old.def, def)
  <2>1. old \in {NoSchedule} \cup Live(ops) /\ (old.next # 0 <=> old.enabled)
    BY <1>2 DEF Sound
  <2>2. NextRun(def.timing, s.anchor, now) # 0
    BY <1>1
  <2> HIDE DEF old
  <2> QED BY <1>2, <2>1, <2>2, SavedFacts
<1>4. schedules' = [schedules EXCEPT ![id] = s]
  BY <1>1
<1>5. Exists(id) <=> old.rev > 0
  BY DEF Exists
<1>6. old.rev \in Nat /\ s.rev \in Nat /\ s.rev > 0 /\ s.next \in Nat
  BY <1>2, <1>3, SoundFacts, LiveFacts
<1> DEFINE kept == Exists(id) /\ old.enabled /\ enabled /\ SameTiming(old.def, def)
<1>7. since' = [since EXCEPT ![id] = IF kept THEN since[id] ELSE now]
  BY <1>1
<1>8. s.next # 0 => s.next > now \/ (s.next = old.next /\ kept)
  BY <1>3, <1>5
<1> HIDE DEF s, kept
<1>9. /\ schedules'[id] = s
      /\ \A i \in Ids : i # id => schedules'[i] = schedules[i] /\ since'[i] = since[i]
      /\ since'[id] = (IF kept THEN since[id] ELSE now)
  BY <1>2, <1>4, <1>7 DEF Sound
<1>10. since' \in [Ids -> 0..now]
  <2>1. (IF kept THEN since[id] ELSE now) \in 0..now
    BY <1>2
  <2> QED BY <1>2, <1>7, <2>1
<1>11. Sound(schedules', ops)
  <2>1. schedules' \in [Ids -> {NoSchedule} \cup Live(ops)]
    BY <1>2, <1>3, <1>4 DEF Sound
  <2>2. \A i \in Ids : schedules'[i].next # 0 <=> schedules'[i].enabled
    BY <1>2, <1>3, <1>9 DEF Sound
  <2> QED BY <2>1, <2>2 DEF Sound
<1>12. Ahead(schedules', recorded, since')
  <2>1. ASSUME s.next # 0 PROVE <<id, s.next>> \notin recorded /\ s.next > since'[id]
    <3>1. CASE s.next > now
      <4>1. s.next \notin 1..now
        BY <1>2, <1>6, <3>1
      <4>2. <<id, s.next>> \notin recorded
        BY <1>2, <4>1
      <4>3. since'[id] \in 0..now
        BY <1>10
      <4> QED BY <1>2, <1>6, <3>1, <4>2, <4>3
    <3>2. CASE s.next = old.next /\ kept
      BY <1>2, <1>9, <2>1, <3>2 DEF Ahead
    <3> QED BY <1>8, <2>1, <3>1, <3>2
  <2>2. ASSUME NEW i \in Ids, schedules'[i].next # 0
        PROVE  <<i, schedules'[i].next>> \notin recorded /\ schedules'[i].next > since'[i]
    <3>1. CASE i = id
      BY <1>9, <2>1, <2>2, <3>1
    <3>2. CASE i # id
      BY <1>2, <1>9, <2>2, <3>2 DEF Ahead
    <3> QED BY <3>1, <3>2
  <2> QED BY <2>2 DEF Ahead
<1>13. Shows(schedules', history)
  <2> SUFFICES ASSUME NEW i \in Ids, NEW e \in history, schedules'[i].rev > 0, e.schedule = i,
                      e.at = schedules'[i].last
               PROVE  schedules'[i].op = e.op /\ schedules'[i].result \in {e.result, "skipped"}
    BY DEF Shows
  <2>1. CASE i # id
    BY <1>2, <1>9, <2>1 DEF Shows
  <2>2. CASE i = id /\ old.rev > 0
    BY <1>2, <1>3, <1>9, <2>2 DEF Shows
  <2>3. CASE i = id /\ ~(old.rev > 0)
    <3>1. old = NoSchedule
      BY <1>2, <2>3, LiveFacts DEF Sound
    <3>2. e.at = 0
      BY <1>3, <1>9, <2>3, <3>1, NoScheduleFacts
    <3>3. e.at # 0
      BY <1>2, ExecutionFacts
    <3> QED BY <3>2, <3>3
  <2> QED BY <2>1, <2>2, <2>3
<1>14. Audit(schedules', history', ops', recorded', since')
  BY <1>1, <1>11, <1>12, <1>13 DEF IInv, Audit
<1>15. drawn' \in 0..NSchedules /\ drawn <= drawn' /\ id <= drawn'
  <2>1. CASE Exists(id)
    BY <1>1, <1>2, <2>1 DEF IInv, Counters
  <2>2. CASE ~Exists(id)
    <3>1. drawn' = id /\ id = drawn + 1 /\ id \in 1..NSchedules /\ NSchedules \in Nat
      BY <1>1, <2>2, Bounds DEF Ids
    <3> QED BY <1>2, <3>1
  <2> QED BY <2>1, <2>2
<1>16. \A i \in Ids : Exists(i)' => i <= drawn'
  <2>1. ASSUME NEW i \in Ids, Exists(i)' PROVE i <= drawn'
    <3>1. CASE i = id
      BY <1>15, <3>1
    <3>2. CASE i # id
      <4>1. i <= drawn /\ i \in Nat /\ drawn' \in Nat
        BY <1>9, <1>15, <2>1, <3>2 DEF IInv, Exists, Ids
      <4> QED BY <1>2, <1>15, <4>1
    <3> QED BY <3>1, <3>2
  <2> QED BY <2>1
<1>17. Snapshot'
  <2>1. ASSUME NEW i \in Ids, i <= drawn, Exists(i)', scan.phase = "claim", ~RetargetInScan
        PROVE  Exists(i) /\ schedules'[i].def.server = schedules[i].def.server
    <3>1. CASE i = id
      <4>1. i \in Nat
        BY DEF Ids
      <4>2. Exists(id)
        BY <1>1, <1>2, <2>1, <3>1, <4>1
      <4>3. def.server = schedules[id].def.server
        BY <1>1, <2>1, <4>2
      <4> QED BY <1>3, <1>9, <3>1, <4>2, <4>3
    <3>2. CASE i # id
      BY <1>9, <2>1, <3>2 DEF Exists
    <3> QED BY <3>1, <3>2
  <2>2. scan' = scan /\ drawn' \in Nat
    BY <1>1, <1>15
  <2> QED BY <1>15, <2>1, <2>2, SnapshotKept
<1>18. Counters'
  BY <1>1, <1>10, <1>15 DEF IInv, Counters
<1>19. /\ servers' \in [Servers -> ServerRecords(ops')] /\ OneServer(servers')
       /\ Awaits(history', servers') /\ warnings' \subseteq Warnings
       /\ lock' = Free \/ lock' \in [op : 1..ops', server : Servers, by : {"scan", "request"}]
  BY <1>1, ValidFacts DEF IInv
<1> QED BY <1>14, <1>16, <1>17, <1>18, <1>19 DEF IInv

\* A restart and a status are written to a server.
Written(srv, s, restart, status) == [srv EXCEPT ![s].restart = restart, ![s].status = status]

LEMMA ServerFacts ==
  ASSUME NEW o \in Nat, NEW srv \in [Servers -> ServerRecords(o)], NEW s \in Servers,
         NEW status \in Statuses, NEW p \in Nat, o <= p, NEW restart \in 0..p
  PROVE  LET u == Written(srv, s, restart, status)
         IN /\ u \in [Servers -> ServerRecords(p)]
            /\ u[s].restart = restart /\ u[s].status = status
            /\ \A t \in Servers : t # s => u[t] = srv[t]
<1> DEFINE r == [srv[s] EXCEPT !.restart = restart, !.status = status]
           u == Written(srv, s, restart, status)
<1>1. u = [srv EXCEPT ![s] = r]
  BY DEF Written
<1>2. srv \in [Servers -> ServerRecords(p)]
  <2>1. 0..o \subseteq 0..p
    OBVIOUS
  <2> QED BY <2>1 DEF ServerRecords
<1>3. r \in ServerRecords(p) /\ r.restart = restart /\ r.status = status
  BY <1>2 DEF ServerRecords
<1> HIDE DEF r
<1>4. /\ u \in [Servers -> ServerRecords(p)] /\ u[s] = r
      /\ \A t \in Servers : t # s => u[t] = srv[t]
  BY <1>1, <1>2, <1>3
<1> QED BY <1>3, <1>4

\* A restart is reserved for a server that has none pending.
LEMMA ReserveFacts ==
  ASSUME IInv, NEW s \in Servers, ops' = ops + 1,
         servers' = [servers EXCEPT ![s].restart = ops + 1, ![s].status = "up"]
  PROVE  /\ servers' \in [Servers -> ServerRecords(ops')] /\ OneServer(servers')
         /\ servers'[s].restart = ops' /\ servers'[s].status = "up"
         /\ \A t \in Servers : t # s => servers'[t] = servers[t]
         /\ ops \in Nat /\ ops' \in Nat /\ ops <= ops' /\ ops' \in 1..ops'
<1>1. /\ ops \in Nat /\ servers \in [Servers -> ServerRecords(ops)] /\ OneServer(servers)
      /\ \A t \in Servers : servers[t].restart \in 0..ops
  BY Known
<1>2. /\ ops' \in Nat /\ ops <= ops' /\ ops' \in 0..ops' /\ 0..ops \subseteq 0..ops'
      /\ ops' \notin 0..ops /\ ops' \in 1..ops'
  BY <1>1
<1>3. "up" \in Statuses
  BY DEF Statuses
<1>4. servers' = Written(servers, s, ops', "up")
  BY DEF Written
<1>5. /\ servers' \in [Servers -> ServerRecords(ops')]
      /\ servers'[s].restart = ops' /\ servers'[s].status = "up"
      /\ \A t \in Servers : t # s => servers'[t] = servers[t]
  <2> DEFINE w == Written(servers, s, ops', "up")
  <2>1. /\ w \in [Servers -> ServerRecords(ops')]
        /\ w[s].restart = ops' /\ w[s].status = "up"
        /\ \A t \in Servers : t # s => w[t] = servers[t]
    BY <1>1, <1>2, <1>3, ServerFacts
  <2> HIDE DEF w
  <2> QED BY <1>4, <2>1 DEF w
<1>6. OneServer(servers')
  BY <1>1, <1>2, <1>5 DEF OneServer
<1> QED BY <1>1, <1>2, <1>5, <1>6

LEMMA LockFacts ==
  ASSUME NEW o, NEW op \in 1..o, NEW s \in Servers, NEW by \in {"scan", "request"}
  PROVE  [op |-> op, server |-> s, by |-> by] \in [op : 1..o, server : Servers, by : {"scan", "request"}]
OBVIOUS

LEMMA ManualClaimIInv == ASSUME IInv, ManualClaim PROVE IInv'
<1>1. PICK s \in Servers :
        /\ ~Gone(s) /\ ~Pending(s)
        /\ ops' = ops + 1
        /\ servers' = [servers EXCEPT ![s].restart = ops + 1, ![s].status = "up"]
        /\ warnings' = Valid(warnings, schedules, servers', now)
        /\ lock' = [op |-> ops + 1, server |-> s, by |-> "request"]
        /\ UNCHANGED <<now, drawn, schedules, history, scan, recorded, since>>
  BY DEF ManualClaim, observe
<1>2. /\ servers' \in [Servers -> ServerRecords(ops')] /\ OneServer(servers')
      /\ servers'[s].restart = ops' /\ servers'[s].status = "up"
      /\ \A t \in Servers : t # s => servers'[t] = servers[t]
      /\ ops \in Nat /\ ops' \in Nat /\ ops <= ops' /\ ops' \in 1..ops'
  BY <1>1, ReserveFacts
<1>3. Audit(schedules', history', ops', recorded', since')
  BY <1>1, <1>2, MoreGood DEF IInv
<1>4. Awaits(history', servers')
  <2> SUFFICES ASSUME ~RetargetInScan, NEW e \in history, Active(e), servers'[e.server].status # "gone"
               PROVE  servers'[e.server].restart = e.op
    BY <1>1 DEF Awaits
  <2>1. e.server \in Servers /\ e.op # 0
    BY Known DEF Execution
  <2>2. servers[e.server].status # "gone" => servers[e.server].restart = e.op
    BY Known DEF Awaits
  <2>3. e.server # s
    BY <1>1, <2>1, <2>2 DEF Gone, Pending
  <2> QED BY <1>2, <2>1, <2>2, <2>3
<1>5. lock' \in [op : 1..ops', server : Servers, by : {"scan", "request"}]
  BY <1>1, <1>2, LockFacts
<1>6. Counters'
  BY <1>1, <1>2 DEF IInv, Counters
<1>7. Snapshot' /\ \A id \in Ids : Exists(id)' => id <= drawn'
  BY <1>1 DEF IInv, Snapshot, Exists
<1>8. warnings' \subseteq Warnings
  BY <1>1, ValidFacts DEF IInv
<1> QED BY <1>2, <1>3, <1>4, <1>5, <1>6, <1>7, <1>8 DEF IInv

LEMMA ChangeStatusIInv == ASSUME IInv, ChangeStatus PROVE IInv'
<1>1. PICK s \in Servers, move \in Moves :
        /\ servers[s].status = move[1]
        /\ servers' = [servers EXCEPT ![s].status = move[2]]
        /\ warnings' = IF NotWhilePending(move) THEN warnings
                       ELSE Valid(warnings, schedules, servers', now)
        /\ UNCHANGED <<now, drawn, schedules, history, lock, scan, ops, recorded, since>>
  BY DEF ChangeStatus, observe
<1>2. /\ servers \in [Servers -> ServerRecords(ops)] /\ OneServer(servers) /\ Awaits(history, servers)
      /\ warnings \subseteq Warnings /\ \A e \in history : Execution(e, ops, recorded)
  BY Known
<1>3. move[1] # "gone" /\ move[2] # "gone" /\ move[2] \in Statuses
  <2>1. \E a, b \in {"up", "parked", "seen stopped"} : move = <<a, b>>
    BY DEF Moves
  <2>2. PICK a, b \in {"up", "parked", "seen stopped"} : move = <<a, b>>
    BY <2>1
  <2>3. move[1] = a /\ move[2] = b
    BY <2>2
  <2> QED BY <2>3 DEF Statuses
<1> DEFINE r == [servers[s] EXCEPT !.status = move[2]]
<1>4. r \in ServerRecords(ops) /\ r.restart = servers[s].restart /\ r.status = move[2]
  BY <1>2, <1>3 DEF ServerRecords
<1>5. servers' = [servers EXCEPT ![s] = r]
  BY <1>1
<1> HIDE DEF r
<1>6. /\ servers' \in [Servers -> ServerRecords(ops)]
      /\ \A t \in Servers : servers'[t].restart = servers[t].restart
      /\ \A t \in Servers : servers'[t].status = "gone" <=> servers[t].status = "gone"
  BY <1>1, <1>2, <1>3, <1>4, <1>5
<1>7. OneServer(servers') /\ Awaits(history', servers')
  BY <1>1, <1>2, <1>6 DEF OneServer, Awaits, Execution
<1>8. warnings' \subseteq Warnings
  BY <1>1, <1>2, ValidFacts
<1>9. Counters' /\ Snapshot' /\ Audit(schedules', history', ops', recorded', since')
  BY <1>1 DEF IInv, Counters, Snapshot, Exists
<1>10. /\ \A id \in Ids : Exists(id)' => id <= drawn'
       /\ lock' = Free \/ lock' \in [op : 1..ops', server : Servers, by : {"scan", "request"}]
  BY <1>1 DEF IInv, Exists
<1> QED BY <1>1, <1>6, <1>7, <1>8, <1>9, <1>10 DEF IInv

LEMMA DeleteServerIInv == ASSUME IInv, DeleteServer PROVE IInv'
<1>1. PICK s \in Servers :
        /\ \/ /\ servers' = [servers EXCEPT ![s].deleting = TRUE]
              /\ UNCHANGED schedules
           \/ /\ servers' = [servers EXCEPT ![s].status = "gone", ![s].restart = 0]
              /\ schedules' = [id \in Ids |->
                   IF Exists(id) /\ schedules[id].def.server = s THEN NoSchedule
                   ELSE schedules[id]]
        /\ warnings' \subseteq warnings
        /\ UNCHANGED <<now, drawn, history, lock, scan, ops, recorded, since>>
  BY DEF DeleteServer, observe
<1>2. /\ servers \in [Servers -> ServerRecords(ops)] /\ OneServer(servers) /\ Awaits(history, servers)
      /\ warnings \subseteq Warnings /\ \A e \in history : Execution(e, ops, recorded)
      /\ schedules = [id \in Ids |-> schedules[id]] /\ ops \in Nat /\ drawn \in Nat
  BY Known DEF Sound
<1>3. /\ servers' \in [Servers -> ServerRecords(ops)] /\ OneServer(servers')
      /\ Awaits(history', servers')
  <2>1. CASE servers' = [servers EXCEPT ![s].deleting = TRUE]
    <3> DEFINE r == [servers[s] EXCEPT !.deleting = TRUE]
    <3>1. r \in ServerRecords(ops) /\ r.restart = servers[s].restart /\ r.status = servers[s].status
      BY <1>2 DEF ServerRecords
    <3>2. servers' = [servers EXCEPT ![s] = r]
      BY <2>1
    <3> HIDE DEF r
    <3>3. /\ servers' \in [Servers -> ServerRecords(ops)]
          /\ \A t \in Servers : /\ servers'[t].restart = servers[t].restart
                                /\ servers'[t].status = servers[t].status
      BY <1>2, <3>1, <3>2
    <3>4. OneServer(servers')
      BY <1>2, <3>3 DEF OneServer
    <3>5. Awaits(history', servers')
      BY <1>1, <1>2, <3>3 DEF Awaits, Execution
    <3> QED BY <3>3, <3>4, <3>5
  <2>2. CASE servers' = [servers EXCEPT ![s].status = "gone", ![s].restart = 0]
    <3> DEFINE r == [servers[s] EXCEPT !.status = "gone", !.restart = 0]
    <3>1. r \in ServerRecords(ops) /\ r.restart = 0 /\ r.status = "gone"
      <4>1. 0 \in 0..ops
        BY <1>2
      <4> QED BY <1>2, <4>1 DEF ServerRecords, Statuses
    <3>2. servers' = [servers EXCEPT ![s] = r]
      BY <2>2
    <3> HIDE DEF r
    <3>3. /\ servers' \in [Servers -> ServerRecords(ops)] /\ servers'[s] = r
          /\ \A t \in Servers : t # s => servers'[t] = servers[t]
      BY <1>2, <3>1, <3>2
    <3>4. OneServer(servers')
      BY <1>2, <3>1, <3>3 DEF OneServer
    <3>5. Awaits(history', servers')
      BY <1>1, <1>2, <3>1, <3>3 DEF Awaits, Execution
    <3> QED BY <3>3, <3>4, <3>5
  <2> QED BY <1>1, <2>1, <2>2
<1>4. /\ schedules' = [id \in Ids |-> schedules'[id]]
      /\ \A id \in Ids : schedules'[id] = schedules[id] \/ schedules'[id] = NoSchedule
  BY <1>1, <1>2
<1>5. Audit(schedules', history', ops', recorded', since')
  BY <1>1, <1>2, <1>4, DroppedGood DEF IInv
<1>6. Snapshot'
  BY <1>1, <1>2, <1>4, NoScheduleFacts, SnapshotKept DEF Exists
<1>7. \A id \in Ids : Exists(id)' => id <= drawn'
  BY <1>1, <1>4, NoScheduleFacts DEF IInv, Exists
<1>8. /\ Counters' /\ warnings' \subseteq Warnings
      /\ lock' = Free \/ lock' \in [op : 1..ops', server : Servers, by : {"scan", "request"}]
  BY <1>1 DEF IInv, Counters
<1> QED BY <1>1, <1>3, <1>5, <1>6, <1>7, <1>8 DEF IInv

-----------------------------------------------------------------------------
(* The outcome of a restart                                                *)

\* What stays open after a restart was resolved, or became uncertain.
LEMMA FinishedAwaits ==
  ASSUME IInv, NEW op \in 1..ops, NEW result \in {"uncertain", "completed", "failed"},
         Finish(op, result), NEW c \in history', Active(c), ~RetargetInScan,
         servers[c.server].status # "gone"
  PROVE  /\ servers[c.server].restart = c.op /\ c.server \in Servers
         /\ result # "uncertain" => c.op # op
<1>1. PICK e \in history :
        /\ c.server = e.server /\ c.op = e.op
        /\ IF e.op = op /\ Active(e) THEN c.result = result ELSE c = e
  BY FinishFacts
<1>2. Active(e)
  BY <1>1 DEF Active
<1>3. e.server \in Servers
  BY Known DEF Execution
<1>4. result # "uncertain" => e.op # op
  BY <1>1, <1>2 DEF Active
<1> QED BY <1>1, <1>2, <1>3, <1>4, Known DEF Awaits

LEMMA DispatchIInv == ASSUME IInv, Dispatch PROVE IInv'
<1>1. /\ lock # Free /\ lock' = Free /\ scan' \in {scan, Moved}
      /\ (schedules' = schedules /\ history' = history) \/ Finish(lock.op, "uncertain")
      /\ UNCHANGED <<now, drawn, warnings, servers, ops, recorded, since>>
  BY DEF Dispatch, observe
<1>2. lock.op \in 1..ops /\ drawn \in Nat /\ drawn <= drawn
  BY <1>1, Known DEF IInv
<1>3. CASE schedules' = schedules /\ history' = history
  <2>1. Snapshot'
    BY <1>1, <1>2, <1>3, SnapshotKept DEF Exists
  <2>2. Counters' /\ Audit(schedules', history', ops', recorded', since')
    BY <1>1, <1>3 DEF IInv, Counters
  <2>3. /\ \A id \in Ids : Exists(id)' => id <= drawn'
        /\ servers' \in [Servers -> ServerRecords(ops')] /\ OneServer(servers')
        /\ Awaits(history', servers') /\ warnings' \subseteq Warnings
    BY <1>1, <1>3 DEF IInv, Exists
  <2> QED BY <1>1, <2>1, <2>2, <2>3 DEF IInv
<1>4. CASE Finish(lock.op, "uncertain")
  <2>1. /\ Audit(schedules', history', ops, recorded, since)
        /\ \A id \in Ids : /\ schedules'[id].rev = schedules[id].rev
                           /\ schedules'[id].def = schedules[id].def
    BY <1>2, <1>4, FinishFacts
  <2>2. Awaits(history', servers)
    BY <1>2, <1>4, FinishedAwaits DEF Awaits
  <2>3. Snapshot'
    BY <1>1, <1>2, <2>1, SnapshotKept DEF Exists
  <2>4. Counters' /\ Audit(schedules', history', ops', recorded', since')
    BY <1>1, <2>1 DEF IInv, Counters
  <2>5. /\ \A id \in Ids : Exists(id)' => id <= drawn'
        /\ servers' \in [Servers -> ServerRecords(ops')] /\ OneServer(servers')
        /\ Awaits(history', servers') /\ warnings' \subseteq Warnings
    BY <1>1, <2>1, <2>2 DEF IInv, Exists
  <2> QED BY <1>1, <2>3, <2>4, <2>5 DEF IInv
<1> QED BY <1>1, <1>3, <1>4

LEMMA ResolveIInv == ASSUME IInv, Resolve PROVE IInv'
<1>1. PICK s \in Servers, result \in {"completed", "failed"} :
        /\ Pending(s)
        /\ Finish(servers[s].restart, result)
        /\ servers' = [servers EXCEPT ![s].restart = 0]
        /\ warnings' = Valid(warnings, schedules', servers', now)
        /\ UNCHANGED <<now, drawn, lock, scan, ops, recorded, since>>
  BY DEF Resolve, observe
<1> DEFINE op == servers[s].restart
           r == [servers[s] EXCEPT !.restart = 0]
<1>2. /\ servers \in [Servers -> ServerRecords(ops)] /\ OneServer(servers)
      /\ drawn \in Nat /\ drawn <= drawn /\ ops \in Nat /\ warnings \subseteq Warnings
  BY Known
<1>3. op \in 1..ops
  BY <1>1, Known DEF Pending
<1>4. r \in ServerRecords(ops) /\ r.restart = 0 /\ r.status = servers[s].status
  <2>1. 0 \in 0..ops
    BY <1>2
  <2> QED BY <1>2, <2>1 DEF ServerRecords
<1>5. servers' = [servers EXCEPT ![s] = r] /\ Finish(op, result)
  BY <1>1
<1> HIDE DEF r
<1>6. /\ servers' \in [Servers -> ServerRecords(ops)]
      /\ servers'[s].restart = 0
      /\ \A t \in Servers : /\ servers'[t].status = servers[t].status
                            /\ t # s => servers'[t] = servers[t]
  BY <1>2, <1>4, <1>5
<1>7. OneServer(servers')
  BY <1>2, <1>6 DEF OneServer
<1>8. Awaits(history', servers')
  <2> SUFFICES ASSUME ~RetargetInScan, NEW c \in history', Active(c), servers'[c.server].status # "gone"
               PROVE  servers'[c.server].restart = c.op
    BY DEF Awaits
  <2>1. c.server \in Servers
    <3>1. PICK e \in history : c.server = e.server
      BY <1>3, <1>5, FinishFacts
    <3> QED BY <3>1, Known DEF Execution
  <2>2. servers[c.server].restart = c.op /\ c.op # op
    BY <1>3, <1>5, <1>6, <2>1, FinishedAwaits
  <2> QED BY <1>6, <2>1, <2>2
<1>9. /\ Audit(schedules', history', ops, recorded, since)
      /\ \A id \in Ids : /\ schedules'[id].rev = schedules[id].rev
                         /\ schedules'[id].def = schedules[id].def
  BY <1>3, <1>5, FinishFacts
<1>10. Snapshot'
  BY <1>1, <1>2, <1>9, SnapshotKept DEF Exists
<1>11. Counters' /\ Audit(schedules', history', ops', recorded', since')
  BY <1>1, <1>9 DEF IInv, Counters
<1>12. /\ \A id \in Ids : Exists(id)' => id <= drawn'
       /\ warnings' \subseteq Warnings
       /\ lock' = Free \/ lock' \in [op : 1..ops', server : Servers, by : {"scan", "request"}]
  BY <1>1, <1>2, <1>9, ValidFacts DEF IInv, Exists
<1> QED BY <1>1, <1>6, <1>7, <1>8, <1>10, <1>11, <1>12 DEF IInv

-----------------------------------------------------------------------------
(* The claim of due schedules                                              *)

\* The parts of claimScheduledReboots.
All     == {id \in scan.todo[Current] : StillDue(id)}
InTime  == {id \in All : ~Late(id)}
Shut    == Deleting(Current) \/ Stopped(Current) \/ Gone(Current)
Claims  == ~Shut /\ Claimable(Current, InTime)
Op      == [id \in All |-> IF Claims /\ id \in InTime THEN ops + 1 ELSE 0]
Outcome == [id \in All |-> IF Op[id] # 0 THEN "awaiting"
                           ELSE IF ~Shut /\ Late(id) THEN "missed" ELSE "skipped"]

LEMMA ClaimParts ==
  ASSUME ScanClaim
  PROVE  /\ scan.phase = "claim" /\ Groups # {}
         /\ history' = Recorded(history, All, Op, Outcome)
         /\ schedules' = [id \in Ids |-> IF id \in All THEN Advanced(schedules[id], Op[id], Outcome[id])
                                         ELSE schedules[id]]
         /\ IF Claims
              THEN /\ ops' = ops + 1
                   /\ servers' = [servers EXCEPT ![Current].restart = ops + 1, ![Current].status = "up"]
                   /\ warnings' = Valid(warnings, schedules, servers', now)
                   /\ lock' = [op |-> ops + 1, server |-> Current, by |-> "scan"]
                   /\ UNCHANGED scan
              ELSE /\ scan' = Moved
                   /\ UNCHANGED <<ops, servers, warnings, lock>>
         /\ recorded' = recorded \cup {<<id, schedules[id].next>> : id \in All}
         /\ UNCHANGED <<now, drawn, since>>
BY Zenon DEF ScanClaim, All, InTime, Shut, Claims, Op, Outcome

\* The group of the scan is of one server and names schedules.
LEMMA CurrentFacts ==
  ASSUME IInv, Groups # {}
  PROVE  /\ Current \in Servers /\ All \subseteq Ids
         /\ ~RetargetInScan => \A id \in All : schedules[id].rev > 0 => schedules[id].def.server = Current
<1>1. Groups \in SUBSET Nat /\ Groups \subseteq Servers
  BY DEF Groups, Servers
<1>2. Current \in Servers
  BY <1>1, LeastFacts DEF Current
<1>3. /\ scan.todo \in [Servers -> SUBSET Ids]
      /\ \A id \in scan.todo[Current] : ~RetargetInScan /\ Exists(id) => schedules[id].def.server = Current
  BY <1>2 DEF IInv, Snapshot
<1>4. scan.todo[Current] \subseteq Ids
  BY <1>2, <1>3
<1> QED BY <1>2, <1>3, <1>4 DEF All, Exists

\* A schedule that is due.
LEMMA DueFacts ==
  ASSUME IInv, NEW id \in Ids, NEW time \in Nat, Due(id, time)
  PROVE  /\ schedules[id] \in Live(ops) /\ schedules[id].rev > 0 /\ schedules[id].enabled
         /\ schedules[id].next \in Nat /\ schedules[id].next # 0 /\ schedules[id].next <= time
         /\ <<id, schedules[id].next>> \notin recorded /\ schedules[id].next > since[id]
<1>1. /\ ops \in Nat /\ Sound(schedules, ops) /\ Ahead(schedules, recorded, since)
  BY Known
<1>2. schedules[id].next # 0 /\ schedules[id].next <= time /\ schedules[id].enabled
  BY DEF Due
<1>3. schedules[id] \in Live(ops) /\ schedules[id].rev > 0 /\ schedules[id].next \in Nat
  BY <1>1, <1>2, SoundFacts
<1> QED BY <1>1, <1>2, <1>3 DEF Ahead

\* An occurrence beyond the clock was not recorded.
LEMMA BeyondFacts ==
  ASSUME IInv, NEW id \in Ids, NEW time \in Nat, now <= time, NEW next \in Nat, next > time
  PROVE  <<id, next>> \notin recorded /\ next > since[id]
<1>1. next \notin 1..now
  BY Known
<1>2. recorded \subseteq Ids \X (1..now) /\ since[id] \in 0..now /\ now \in Nat
  BY Known
<1> QED BY <1>1, <1>2

LEMMA ClaimFacts ==
  ASSUME IInv, ScanClaim
  PROVE  /\ Current \in Servers /\ All \subseteq Ids
         /\ Audit(schedules', history', ops', recorded', since')
         /\ \A e \in history : Active(e) => e \in history'
         /\ \A e \in history' : e \in history \/
              /\ e.schedule \in All /\ e.at = schedules[e.schedule].next
              /\ e.op = Op[e.schedule] /\ e.result = Outcome[e.schedule]
              /\ e.server = schedules[e.schedule].def.server
         /\ \A id \in Ids : schedules'[id].rev = schedules[id].rev /\ schedules'[id].def = schedules[id].def
         /\ \A id \in All : Op[id] # 0 => Claims /\ id \in InTime /\ Op[id] = ops + 1
         /\ \A id \in All : Outcome[id] \in {"awaiting", "uncertain"} => Op[id] # 0
<1>1. /\ ops \in Nat /\ now \in Nat /\ Sound(schedules, ops) /\ Ahead(schedules, recorded, since)
      /\ recorded \subseteq Ids \X (1..now) /\ since \in [Ids -> 0..now]
      /\ Audit(schedules, history, ops, recorded, since)
  BY Known DEF IInv
<1>2. Current \in Servers /\ All \subseteq Ids
  BY ClaimParts, CurrentFacts
<1>3. ASSUME NEW id \in All
      PROVE  /\ schedules[id] \in Live(ops) /\ schedules[id].next \in Nat /\ schedules[id].next # 0
             /\ schedules[id].next <= now
  <2>1. Due(id, now)
    BY DEF All, StillDue
  <2> QED BY <1>1, <1>2, <2>1, DueFacts
<1> DEFINE p == IF Claims THEN ops + 1 ELSE ops
<1>4. /\ p \in {ops, ops + 1} /\ p \in Nat /\ ops <= p /\ 0 \in 0..p
      /\ ops' = p /\ (Claims => ops + 1 \in 0..p)
  BY <1>1, ClaimParts
<1>5. ASSUME NEW id \in All
      PROVE  /\ Op[id] \in {0, ops + 1} /\ Op[id] \in 0..p
             /\ Op[id] # 0 => Claims /\ id \in InTime /\ Op[id] = ops + 1
             /\ Outcome[id] = IF Op[id] # 0 THEN "awaiting"
                              ELSE IF ~Shut /\ Late(id) THEN "missed" ELSE "skipped"
  <2>1. Op[id] = IF Claims /\ id \in InTime THEN ops + 1 ELSE 0
    BY DEF Op
  <2>2. Outcome[id] = IF Op[id] # 0 THEN "awaiting"
                      ELSE IF ~Shut /\ Late(id) THEN "missed" ELSE "skipped"
    BY DEF Outcome
  <2> HIDE DEF p
  <2>3. CASE Claims /\ id \in InTime
    BY <1>4, <2>1, <2>2, <2>3
  <2>4. CASE ~(Claims /\ id \in InTime)
    BY <1>4, <2>1, <2>2, <2>4
  <2> QED BY <2>3, <2>4
<1> HIDE DEF p
<1>6. ASSUME NEW id \in All
      PROVE  /\ Outcome[id] \in Results
             /\ Outcome[id] \in {"awaiting", "uncertain"} \cup Ended <=> Op[id] # 0
  <2>1. Outcome[id] \in {"awaiting", "missed", "skipped"} /\ (Outcome[id] = "awaiting" <=> Op[id] # 0)
    BY <1>5
  <2> QED BY <2>1 DEF Results, Ended
<1>7. Outcomes(All, Op, Outcome, ops, p)
  BY <1>3, <1>5, <1>6 DEF Outcomes
<1> DEFINE u(id) == IF id \in All THEN Advanced(schedules[id], Op[id], Outcome[id]) ELSE schedules[id]
<1>8. ASSUME NEW id \in All
      PROVE  /\ u(id) \in Live(p) /\ u(id).last = schedules[id].next /\ u(id).op = Op[id]
             /\ u(id).result \in {Outcome[id], "skipped"}
             /\ u(id).rev = schedules[id].rev /\ u(id).def = schedules[id].def
             /\ u(id).enabled <=> u(id).next # 0
             /\ u(id).next # 0 => u(id).next > now
  <2> DEFINE a == Op[id]
             b == Outcome[id]
             s == schedules[id]
  <2>1. s \in Live(ops) /\ a \in 0..p /\ b \in Results
    BY <1>3, <1>5, <1>6
  <2>2. u(id) = Advanced(s, a, b)
    OBVIOUS
  <2> HIDE DEF a, b, s
  <2>3. /\ u(id) \in Live(p) /\ u(id).last = s.next /\ u(id).op = a
        /\ u(id).result \in {b, "skipped"} /\ u(id).rev = s.rev /\ u(id).def = s.def
        /\ u(id).enabled <=> u(id).next # 0
        /\ u(id).next # 0 => u(id).next > now
    BY <1>1, <1>4, <2>1, <2>2, AdvancedFacts
  <2> QED BY <2>3 DEF a, b, s
<1>9. \A id \in Ids \ All : u(id) = schedules[id]
  OBVIOUS
<1>10. schedules' = [id \in Ids |-> u(id)]
  BY ClaimParts
<1> HIDE DEF u
<1>11. \A id \in Ids : schedules'[id] = u(id)
  BY <1>10
<1>12. Sound(schedules', p)
  <2>1. ASSUME NEW id \in Ids
        PROVE  u(id) \in {NoSchedule} \cup Live(p) /\ (u(id).next # 0 <=> u(id).enabled)
    <3>1. CASE id \in All
      BY <1>8, <3>1
    <3>2. CASE id \notin All
      <4>1. Live(ops) \subseteq Live(p)
        BY <1>1, <1>4, LiveMore
      <4>2. /\ schedules[id] \in {NoSchedule} \cup Live(ops)
            /\ schedules[id].next # 0 <=> schedules[id].enabled
        BY <1>1 DEF Sound
      <4>3. u(id) = schedules[id]
        BY <1>9, <3>2
      <4> QED BY <4>1, <4>2, <4>3
    <3> QED BY <3>1, <3>2
  <2> QED BY <1>10, <2>1 DEF Sound
<1>13. Updated(schedules', All, Op, Outcome)
  BY <1>2, <1>8, <1>9, <1>11 DEF Updated
<1>14. recorded' = recorded \cup {<<id, schedules[id].next>> : id \in All} /\ since' = since
  BY ClaimParts
<1>15. Ahead(schedules', recorded', since')
  <2> SUFFICES ASSUME NEW id \in Ids, schedules'[id].next # 0
               PROVE  <<id, schedules'[id].next>> \notin recorded' /\ schedules'[id].next > since'[id]
    BY DEF Ahead
  <2>1. CASE id \in All
    <3>1. u(id).next > now /\ u(id).next \in Nat
      BY <1>4, <1>8, <1>11, <2>1, LiveFacts
    <3>2. <<id, u(id).next>> \notin recorded /\ u(id).next > since[id]
      BY <1>1, <3>1, BeyondFacts
    <3>3. schedules[id].next # u(id).next
      BY <1>1, <1>3, <2>1, <3>1
    <3> QED BY <1>11, <1>14, <3>2, <3>3
  <2>2. CASE id \notin All
    <3>1. schedules'[id] = schedules[id]
      BY <1>9, <1>11, <2>2
    <3>2. <<id, schedules[id].next>> \notin recorded /\ schedules[id].next > since[id]
      BY <1>1, <3>1 DEF Ahead
    <3> QED BY <1>14, <2>2, <3>1, <3>2
  <2> QED BY <2>1, <2>2
<1>16. history' = Recorded(history, All, Op, Outcome)
  BY ClaimParts
<1>17. /\ Audit(schedules', history', p, recorded', since')
       /\ \A e \in history : Active(e) => e \in history'
       /\ \A e \in history' : e \in history \/
            /\ e.schedule \in All /\ e.at = schedules[e.schedule].next
            /\ e.op = Op[e.schedule] /\ e.result = Outcome[e.schedule]
            /\ e.server = schedules[e.schedule].def.server
  <2>1. Marked(recorded, recorded', All)
    BY <1>14 DEF Marked
  <2>2. All \subseteq Ids /\ (p = ops \/ p = ops + 1) /\ ops \in Nat
    BY <1>1, <1>2, <1>4
  <2>3. Audit(schedules, history, ops, recorded, since)
    BY <1>1
  <2> QED BY <1>7, <1>12, <1>13, <1>15, <1>16, <2>1, <2>2, <2>3, RecordedGood
<1>18. ASSUME NEW id \in Ids
       PROVE  schedules'[id].rev = schedules[id].rev /\ schedules'[id].def = schedules[id].def
  BY <1>8, <1>9, <1>11
<1> QED BY <1>2, <1>4, <1>5, <1>6, <1>17, <1>18

LEMMA ScanClaimIInv == ASSUME IInv, ScanClaim PROVE IInv'
<1>1. /\ Current \in Servers /\ All \subseteq Ids
      /\ Audit(schedules', history', ops', recorded', since')
      /\ \A e \in history' : e \in history \/
           /\ e.schedule \in All
           /\ e.op = Op[e.schedule] /\ e.result = Outcome[e.schedule]
           /\ e.server = schedules[e.schedule].def.server
      /\ \A id \in Ids : schedules'[id].rev = schedules[id].rev /\ schedules'[id].def = schedules[id].def
      /\ \A id \in All : Op[id] # 0 => Claims /\ id \in InTime /\ Op[id] = ops + 1
      /\ \A id \in All : Outcome[id] \in {"awaiting", "uncertain"} => Op[id] # 0
  BY ClaimFacts
<1>2. /\ now \in Nat /\ ops \in Nat /\ drawn \in Nat /\ drawn <= drawn
      /\ recorded \subseteq Ids \X (1..now)
      /\ servers \in [Servers -> ServerRecords(ops)] /\ OneServer(servers) /\ Awaits(history, servers)
      /\ warnings \subseteq Warnings
  BY Known
<1>3. UNCHANGED <<now, drawn, since>> /\ (scan' = scan \/ scan' = Moved)
  BY ClaimParts
<1>4. Snapshot'
  BY <1>1, <1>2, <1>3, SnapshotKept DEF Exists
<1>5. \A id \in Ids : Exists(id)' => id <= drawn'
  BY <1>1, <1>3 DEF IInv, Exists
<1>6. ops' \in Nat
  BY <1>2, ClaimParts
<1>7. recorded' \subseteq Ids \X (1..now)
  <2>1. ASSUME NEW id \in All PROVE <<id, schedules[id].next>> \in Ids \X (1..now)
    <3>1. Due(id, now) /\ id \in Ids
      BY <1>1 DEF All, StillDue
    <3>2. /\ schedules[id].next \in Nat /\ schedules[id].next # 0
          /\ schedules[id].next <= now
      BY <1>2, <3>1, DueFacts
    <3>3. schedules[id].next \in 1..now
      BY <1>2, <3>2
    <3> QED BY <3>1, <3>3
  <2>2. recorded' = recorded \cup {<<id, schedules[id].next>> : id \in All}
    BY ClaimParts
  <2> QED BY <1>2, <2>1, <2>2
<1>8. Counters'
  BY <1>3, <1>6, <1>7 DEF IInv, Counters
<1>9. CASE Claims
  <2>1. /\ ops' = ops + 1
        /\ servers' = [servers EXCEPT ![Current].restart = ops + 1, ![Current].status = "up"]
        /\ warnings' = Valid(warnings, schedules, servers', now)
        /\ lock' = [op |-> ops + 1, server |-> Current, by |-> "scan"]
    BY <1>9, ClaimParts
  <2> DEFINE c == Current
  <2>2. c \in Servers /\ servers' = [servers EXCEPT ![c].restart = ops + 1, ![c].status = "up"]
    BY <1>1, <2>1
  <2>3. ~Gone(c) /\ ~Pending(c)
    BY <1>9 DEF Claims, Shut, Claimable
  <2>4. \A id \in All : ~RetargetInScan /\ schedules[id].rev > 0 => schedules[id].def.server = c
    BY ClaimParts, CurrentFacts
  <2>5. lock' = [op |-> ops', server |-> c, by |-> "scan"]
    BY <2>1
  <2> HIDE DEF c
  <2>6. /\ servers' \in [Servers -> ServerRecords(ops')] /\ OneServer(servers')
        /\ servers'[c].restart = ops' /\ servers'[c].status = "up"
        /\ \A t \in Servers : t # c => servers'[t] = servers[t]
        /\ ops' \in 1..ops'
    BY <2>1, <2>2, ReserveFacts
  <2>7. Awaits(history', servers')
    <3> SUFFICES ASSUME ~RetargetInScan, NEW e \in history', Active(e), servers'[e.server].status # "gone"
                 PROVE  servers'[e.server].restart = e.op
      BY DEF Awaits
    <3>1. CASE e \in history
      <4>1. e.server \in Servers /\ e.op # 0
        BY <3>1, Known DEF Execution
      <4>2. servers[e.server].status # "gone" => servers[e.server].restart = e.op
        BY <1>2, <3>1 DEF Awaits
      <4>3. e.server # c
        BY <2>3, <4>1, <4>2 DEF Gone, Pending
      <4> QED BY <2>6, <4>1, <4>2, <4>3
    <3>2. CASE e \notin history
      <4>1. e.schedule \in All /\ e.op = ops + 1 /\ e.server = schedules[e.schedule].def.server
        BY <1>1, <3>2 DEF Active
      <4>2. schedules[e.schedule].rev > 0
        BY <1>1, <1>2, <4>1, DueFacts DEF All, StillDue
      <4>3. e.server = c
        BY <2>4, <4>1, <4>2
      <4> QED BY <2>1, <2>6, <4>1, <4>3
    <3> QED BY <3>1, <3>2
  <2>8. lock' \in [op : 1..ops', server : Servers, by : {"scan", "request"}]
    BY <2>2, <2>5, <2>6, LockFacts
  <2>9. warnings' \subseteq Warnings
    BY <1>2, <2>1, ValidFacts
  <2> QED BY <1>1, <1>4, <1>5, <1>8, <2>6, <2>7, <2>8, <2>9 DEF IInv
<1>10. CASE ~Claims
  <2>1. UNCHANGED <<ops, servers, warnings, lock>>
    BY <1>10, ClaimParts
  <2>2. \A e \in history' : Active(e) => e \in history
    BY <1>1, <1>10 DEF Active
  <2>3. Awaits(history', servers')
    BY <1>2, <2>1, <2>2 DEF Awaits
  <2>4. /\ servers' \in [Servers -> ServerRecords(ops')] /\ OneServer(servers')
        /\ warnings' \subseteq Warnings
        /\ lock' = Free \/ lock' \in [op : 1..ops', server : Servers, by : {"scan", "request"}]
    BY <2>1 DEF IInv
  <2> QED BY <1>1, <1>4, <1>5, <1>8, <2>3, <2>4 DEF IInv
<1> QED BY <1>9, <1>10

-----------------------------------------------------------------------------
(* Startup                                                                 *)

\* recoverReboots: an overdue occurrence is missed.
Missed(s, next) == [s EXCEPT !.last = s.next, !.next = next, !.op = 0, !.result = "missed"]

LEMMA MissedFacts ==
  ASSUME NEW o \in Nat, NEW s \in Live(o), NEW next \in Nat
  PROVE  LET u == Missed(s, next)
         IN /\ u \in Live(o) /\ u.last = s.next /\ u.next = next /\ u.op = 0 /\ u.result = "missed"
            /\ u.enabled = s.enabled /\ u.rev = s.rev
<1>1. 0 \in 0..o /\ "missed" \in Results /\ s.next \in Nat
  BY LiveFacts DEF Results
<1> QED BY <1>1 DEF Live, Missed

\* Its schedule has no other and is disabled.
LEMMA DisabledFacts ==
  ASSUME NEW o \in Nat, NEW s \in Live(o)
  PROVE  LET u == [s EXCEPT !.enabled = FALSE, !.next = 0, !.result = "skipped"]
         IN /\ u \in Live(o) /\ u.last = s.last /\ u.next = 0 /\ u.op = s.op
            /\ u.result = "skipped" /\ u.enabled = FALSE /\ u.rev = s.rev
<1>1. "skipped" \in Results
  BY DEF Results
<1> QED BY <1>1 DEF Live

LEMMA CrashFacts ==
  ASSUME IInv, Crash
  PROVE  /\ Audit(schedules', history', ops', recorded', since') /\ Counters'
         /\ lock' = Free /\ scan' = Idle /\ UNCHANGED <<drawn, warnings, servers, ops>>
         /\ \A id \in Ids : schedules'[id].rev = schedules[id].rev
         /\ \A e \in history : Active(e) => e \in history'
         /\ \A e \in history' : e \in history \/
              /\ e.result = "missed" /\ e.op = 0
              /\ e.schedule \in Ids /\ e.at = schedules[e.schedule].next
              /\ schedules[e.schedule].next # 0
<1>1. PICK time \in now..MaxTime :
        /\ now' = time
        /\ Recover({id \in Ids : Due(id, time)}, time)
        /\ lock' = Free /\ scan' = Idle
        /\ recorded' = recorded \cup {<<id, schedules[id].next>> : id \in {i \in Ids : Due(i, time)}}
        /\ since' = [id \in Ids |-> time]
        /\ UNCHANGED <<drawn, warnings, servers, ops>>
  BY Zenon DEF Crash
<1> DEFINE overdue == {id \in Ids : Due(id, time)}
           next(id) == NextRun(schedules[id].def.timing, schedules[id].anchor, time)
           missed == {id \in overdue : next(id) # 0}
           op == [id \in missed |-> 0]
           result == [id \in missed |-> "missed"]
           u(id) == IF id \in missed THEN
                      [schedules[id] EXCEPT !.last = schedules[id].next, !.next = next(id),
                                            !.op = 0, !.result = "missed"]
                    ELSE IF id \in overdue THEN
                      [schedules[id] EXCEPT !.enabled = FALSE, !.next = 0, !.result = "skipped"]
                    ELSE schedules[id]
<1>2. /\ ops \in Nat /\ now \in Nat /\ now \in 1..MaxTime /\ Sound(schedules, ops)
      /\ Ahead(schedules, recorded, since) /\ recorded \subseteq Ids \X (1..now)
      /\ Audit(schedules, history, ops, recorded, since)
  BY Known DEF IInv
<1>3. time \in Nat /\ now <= time /\ time \in 1..MaxTime
  BY <1>1, <1>2, Bounds
<1>4. history' = Recorded(history, missed, op, result)
  BY <1>1, Zenon DEF Recover
<1>5. schedules' = [id \in Ids |-> u(id)]
  BY <1>1, Zenon DEF Recover
<1>6. recorded' = recorded \cup {<<id, schedules[id].next>> : id \in overdue} /\ since' = [id \in Ids |-> time]
  BY <1>1, Zenon
<1>7. ASSUME NEW id \in overdue
      PROVE  /\ id \in Ids /\ schedules[id] \in Live(ops) /\ schedules[id].rev > 0
             /\ schedules[id].next \in Nat /\ schedules[id].next # 0 /\ schedules[id].next <= time
             /\ schedules[id].enabled
             /\ next(id) \in Nat /\ (next(id) # 0 => next(id) > time)
  <2>1. id \in Ids /\ Due(id, time)
    OBVIOUS
  <2>2. /\ schedules[id] \in Live(ops) /\ schedules[id].rev > 0
        /\ schedules[id].next \in Nat /\ schedules[id].next # 0 /\ schedules[id].next <= time
        /\ schedules[id].enabled
    BY <1>3, <2>1, DueFacts
  <2>3. schedules[id].def.timing \in Timings /\ schedules[id].anchor \in Nat
    BY <1>2, <2>2, LiveFacts, LiveOthers
  <2>4. next(id) \in Nat /\ (next(id) # 0 => next(id) > time)
    BY <1>3, <2>3, NextRunFacts
  <2> QED BY <2>1, <2>2, <2>4
<1>8. \A id \in Ids : id \notin overdue => ~Due(id, time)
  OBVIOUS
<1>9. missed \subseteq overdue /\ overdue \subseteq Ids /\ \A id \in overdue : next(id) # 0 => id \in missed
  OBVIOUS
<1>10. \A id \in missed : next(id) # 0
  OBVIOUS
<1> HIDE DEF overdue, next
<1>11. \A id \in missed : op[id] = 0 /\ result[id] = "missed"
  OBVIOUS
<1> HIDE DEF missed, op, result
<1>12. Outcomes(missed, op, result, ops, ops)
  BY <1>2, <1>7, <1>9, <1>11 DEF Outcomes, Results, Ended
<1>13. ASSUME NEW id \in missed
       PROVE  /\ u(id) \in Live(ops) /\ u(id).last = schedules[id].next /\ u(id).next = next(id)
              /\ u(id).op = 0 /\ u(id).result = "missed" /\ u(id).rev = schedules[id].rev
              /\ u(id).enabled
  <2> DEFINE s == schedules[id]
             x == next(id)
  <2>1. s \in Live(ops) /\ x \in Nat /\ ops \in Nat
    BY <1>2, <1>7, <1>9
  <2>2. u(id) = Missed(s, x)
    BY DEF Missed
  <2> HIDE DEF s, x, u
  <2>3. /\ u(id) \in Live(ops) /\ u(id).last = s.next /\ u(id).next = x
        /\ u(id).op = 0 /\ u(id).result = "missed" /\ u(id).rev = s.rev /\ u(id).enabled = s.enabled
    BY <2>1, <2>2, MissedFacts
  <2>4. schedules[id].enabled
    BY <1>7, <1>9
  <2> QED BY <2>3, <2>4 DEF s, x
<1>14. ASSUME NEW id \in overdue, id \notin missed
       PROVE  /\ u(id) \in Live(ops) /\ u(id).last = schedules[id].last /\ u(id).next = 0
              /\ u(id).op = schedules[id].op /\ u(id).result = "skipped" /\ u(id).rev = schedules[id].rev
              /\ u(id).enabled = FALSE
  <2>1. schedules[id] \in Live(ops)
    BY <1>7
  <2> QED BY <1>2, <1>14, <2>1, DisabledFacts
<1>15. ASSUME NEW id \in Ids, id \notin overdue
       PROVE  u(id) = schedules[id]
  BY <1>9, <1>15
<1> HIDE DEF u
<1>16. \A id \in Ids : schedules'[id] = u(id)
  BY <1>5
<1>17. \A id \in Ids : schedules'[id].rev = schedules[id].rev
  BY <1>13, <1>14, <1>15, <1>16
<1>18. Sound(schedules', ops)
  <2>1. ASSUME NEW id \in Ids
        PROVE  u(id) \in {NoSchedule} \cup Live(ops) /\ (u(id).next # 0 <=> u(id).enabled)
    <3>1. CASE id \in missed
      <4>1. u(id) \in Live(ops) /\ u(id).next = next(id) /\ u(id).enabled
        BY <1>13, <3>1
      <4> QED BY <1>10, <3>1, <4>1
    <3>2. CASE id \in overdue /\ id \notin missed
      <4>1. u(id) \in Live(ops) /\ u(id).next = 0 /\ u(id).enabled = FALSE
        BY <1>14, <3>2
      <4> QED BY <4>1
    <3>3. CASE id \notin overdue
      BY <1>2, <1>15, <3>3 DEF Sound
    <3> QED BY <3>1, <3>2, <3>3
  <2> QED BY <1>5, <2>1 DEF Sound
<1>19. Updated(schedules', missed, op, result)
  <2>1. ASSUME NEW id \in missed
        PROVE  /\ schedules'[id].last = schedules[id].next /\ schedules'[id].op = op[id]
               /\ schedules'[id].result \in {result[id], "skipped"}
    BY <1>9, <1>11, <1>13, <1>16
  <2>2. ASSUME NEW id \in Ids \ missed
        PROVE  schedules'[id].rev > 0 =>
                 /\ schedules[id].rev > 0 /\ schedules'[id].last = schedules[id].last
                 /\ schedules'[id].op = schedules[id].op
                 /\ schedules'[id].result \in {schedules[id].result, "skipped"}
    <3>1. CASE id \in overdue
      BY <1>14, <1>16, <1>17, <2>2, <3>1
    <3>2. CASE id \notin overdue
      BY <1>15, <1>16, <2>2, <3>2
    <3> QED BY <3>1, <3>2
  <2> QED BY <2>1, <2>2 DEF Updated
<1>20. Ahead(schedules', recorded', since')
  <2> SUFFICES ASSUME NEW id \in Ids, schedules'[id].next # 0
               PROVE  <<id, schedules'[id].next>> \notin recorded' /\ schedules'[id].next > since'[id]
    BY DEF Ahead
  <2>1. since'[id] = time
    BY <1>6
  <2>2. schedules'[id].next \in Nat
    BY <1>2, <1>18, SoundFacts
  <2>3. schedules'[id].next > time
    <3>1. CASE id \in missed
      <4>1. schedules'[id].next = next(id)
        BY <1>13, <1>16, <3>1
      <4> QED BY <1>7, <1>9, <1>10, <3>1, <4>1
    <3>2. CASE id \in overdue /\ id \notin missed
      BY <1>14, <1>16, <3>2
    <3>3. CASE id \notin overdue
      <4>1. schedules'[id] = schedules[id] /\ ~Due(id, time)
        BY <1>8, <1>15, <1>16, <3>3
      <4>2. schedules[id].enabled
        BY <1>2, <4>1 DEF Sound
      <4>3. ~(schedules[id].next <= time)
        BY <4>1, <4>2 DEF Due
      <4> QED BY <1>3, <2>2, <4>1, <4>3
    <3> QED BY <3>1, <3>2, <3>3
  <2>4. <<id, schedules'[id].next>> \notin recorded
    BY <1>3, <2>2, <2>3, BeyondFacts
  <2>5. \A i \in overdue : schedules[i].next # schedules'[id].next
    BY <1>3, <1>7, <2>2, <2>3
  <2> QED BY <1>6, <2>1, <2>3, <2>4, <2>5
<1>21. /\ Audit(schedules', history', ops, recorded', since')
       /\ \A e \in history : Active(e) => e \in history'
       /\ \A e \in history' : e \in history \/
            /\ e.schedule \in missed /\ e.at = schedules[e.schedule].next
            /\ e.op = op[e.schedule] /\ e.result = result[e.schedule]
            /\ e.server = schedules[e.schedule].def.server
  <2>1. Marked(recorded, recorded', missed)
    BY <1>6, <1>9 DEF Marked
  <2>2. missed \subseteq Ids
    BY <1>9
  <2>3. Audit(schedules, history, ops, recorded, since) /\ ops \in Nat
    BY <1>2
  <2> QED BY <1>4, <1>12, <1>18, <1>19, <1>20, <2>1, <2>2, <2>3, RecordedGood
<1>22. ASSUME NEW e \in history', e \notin history
       PROVE  /\ e.result = "missed" /\ e.op = 0
              /\ e.schedule \in Ids /\ e.at = schedules[e.schedule].next
              /\ schedules[e.schedule].next # 0
  BY <1>7, <1>9, <1>11, <1>21, <1>22
<1>23. Counters'
  <2>1. ASSUME NEW id \in overdue PROVE <<id, schedules[id].next>> \in Ids \X (1..time)
    <3>1. schedules[id].next \in 1..time
      BY <1>3, <1>7
    <3> QED BY <1>7, <3>1
  <2>2. recorded \subseteq Ids \X (1..time)
    <3>1. 1..now \subseteq 1..time
      BY <1>2, <1>3
    <3> QED BY <1>2, <3>1
  <2>3. recorded' \subseteq Ids \X (1..time)
    BY <1>6, <2>1, <2>2
  <2>4. since' \in [Ids -> 0..time]
    <3>1. time \in 0..time
      BY <1>3
    <3> QED BY <1>6, <3>1
  <2>5. now' = time /\ drawn' = drawn /\ ops' = ops
    BY <1>1
  <2> QED BY <1>3, <2>3, <2>4, <2>5 DEF IInv, Counters
<1> QED BY <1>1, <1>17, <1>21, <1>22, <1>23

LEMMA CrashIInv == ASSUME IInv, Crash PROVE IInv'
<1>1. /\ Audit(schedules', history', ops', recorded', since') /\ Counters'
      /\ lock' = Free /\ scan' = Idle /\ UNCHANGED <<drawn, warnings, servers, ops>>
      /\ \A id \in Ids : schedules'[id].rev = schedules[id].rev
      /\ \A e \in history' : e \in history \/ e.result = "missed"
  BY CrashFacts
<1>2. Snapshot'
  BY <1>1, IdleSnapshot
<1>3. Awaits(history', servers')
  <2>1. \A e \in history' : Active(e) => e \in history
    BY <1>1 DEF Active
  <2> QED BY <1>1, <2>1, Known DEF Awaits
<1>4. /\ \A id \in Ids : Exists(id)' => id <= drawn'
      /\ servers' \in [Servers -> ServerRecords(ops')] /\ OneServer(servers')
      /\ warnings' \subseteq Warnings
  BY <1>1 DEF IInv, Exists
<1> QED BY <1>1, <1>2, <1>3, <1>4 DEF IInv

-----------------------------------------------------------------------------
(* The invariant is inductive                                              *)

LEMMA InitIInv == Init => IInv
<1> SUFFICES ASSUME Init PROVE IInv
  OBVIOUS
<1>1. Counters
  BY Bounds DEF Init, Counters
<1>2. Snapshot
  BY IdleFacts DEF Init, Snapshot, Idle
<1>3. /\ schedules = [id \in Ids |-> NoSchedule] /\ history = {} /\ recorded = {}
      /\ warnings = {} /\ lock = Free
      /\ servers = [s \in Servers |-> [status |-> "up", deleting |-> FALSE, restart |-> 0]]
  BY DEF Init
<1>4. \A id \in Ids : schedules[id].rev = 0 /\ schedules[id].next = 0 /\ schedules[id].enabled = FALSE
  BY <1>3, NoScheduleFacts, NoScheduleOthers
<1>5. Sound(schedules, ops)
  BY <1>3, <1>4 DEF Sound
<1>6. Audit(schedules, history, ops, recorded, since)
  BY <1>3, <1>4, <1>5 DEF Audit, Ahead, Distinct, Shows
<1>7. \A id \in Ids : Exists(id) => id <= drawn
  BY <1>4 DEF Exists
<1>8. servers \in [Servers -> ServerRecords(ops)] /\ OneServer(servers) /\ Awaits(history, servers)
  <2>1. ops = 0 /\ 0 \in 0..ops
    BY DEF Init
  <2>2. [status |-> "up", deleting |-> FALSE, restart |-> 0] \in ServerRecords(ops)
    BY <2>1 DEF ServerRecords, Statuses
  <2>3. servers \in [Servers -> ServerRecords(ops)]
    BY <1>3, <2>2
  <2> QED BY <1>3, <2>3 DEF OneServer, Awaits
<1> QED BY <1>1, <1>2, <1>3, <1>6, <1>7, <1>8 DEF IInv

LEMMA NextIInv == IInv /\ [Next]_vars => IInv'
<1> SUFFICES ASSUME IInv, [Next]_vars PROVE IInv'
  OBVIOUS
<1>1. CASE ScanBegin
  BY <1>1, ScanBeginIInv
<1>2. CASE ScanWarn
  BY <1>2, ScanWarnIInv
<1>3. CASE ScanAbort
  BY <1>3, ScanAbortIInv
<1>4. CASE ScanGroup
  BY <1>4, ScanGroupIInv
<1>5. CASE ScanClaim
  BY <1>5, ScanClaimIInv
<1>6. CASE ScanSkip
  BY <1>6, ScanSkipIInv
<1>7. CASE ScanEnd
  BY <1>7, ScanEndIInv
<1>8. CASE Save
  BY <1>8, SaveIInv
<1>9. CASE Delete
  BY <1>9, DeleteIInv
<1>10. CASE SendWarning
  BY <1>10, SendWarningIInv
<1>11. CASE ManualClaim
  BY <1>11, ManualClaimIInv
<1>12. CASE Dispatch
  BY <1>12, DispatchIInv
<1>13. CASE Resolve
  BY <1>13, ResolveIInv
<1>14. CASE ChangeStatus
  BY <1>14, ChangeStatusIInv
<1>15. CASE DeleteServer
  BY <1>15, DeleteServerIInv
<1>16. CASE Tick
  BY <1>16, TickIInv
<1>17. CASE Crash
  BY <1>17, CrashIInv
<1>18. CASE UNCHANGED vars
  <2>1. UNCHANGED <<now, drawn, schedules, history, warnings, servers, lock, scan, ops, recorded, since>>
    BY <1>18 DEF vars, state, observe
  <2>2. Counters' /\ Snapshot' /\ Audit(schedules', history', ops', recorded', since')
    BY <2>1 DEF IInv, Counters, Snapshot, Exists
  <2> QED BY <2>1, <2>2 DEF IInv, Exists
<1> QED BY <1>1, <1>2, <1>3, <1>4, <1>5, <1>6, <1>7, <1>8, <1>9, <1>10, <1>11, <1>12, <1>13,
           <1>14, <1>15, <1>16, <1>17, <1>18 DEF Next, Scanning

-----------------------------------------------------------------------------
(* What a step does to the history and to the warnings                     *)

\* The history changes when a claim or startup records occurrences, and when a
\* restart ends.
LEMMA HistorySteps ==
  ASSUME IInv, [Next]_vars
  PROVE  \/ ScanClaim
         \/ Crash
         \/ history' = history
         \/ Finish(lock.op, "uncertain") /\ lock.op \in 1..ops
         \/ \E s \in Servers, result \in {"completed", "failed"} :
              /\ Finish(servers[s].restart, result) /\ servers[s].restart \in 1..ops
              /\ servers' = [servers EXCEPT ![s].restart = 0]
<1>1. CASE Dispatch
  <2>1. history' = history \/ Finish(lock.op, "uncertain")
    BY <1>1 DEF Dispatch
  <2>2. lock.op \in 1..ops
    BY <1>1 DEF Dispatch, IInv
  <2> QED BY <1>1, <2>1, <2>2
<1>2. CASE Resolve
  <2>1. PICK s \in Servers, result \in {"completed", "failed"} :
          /\ Pending(s) /\ Finish(servers[s].restart, result)
          /\ servers' = [servers EXCEPT ![s].restart = 0]
    BY <1>2 DEF Resolve
  <2>2. servers[s].restart \in 1..ops
    BY <2>1, Known DEF Pending
  <2> QED BY <2>1, <2>2
<1>3. CASE ManualClaim \/ ChangeStatus \/ DeleteServer
  BY <1>3 DEF ManualClaim, ChangeStatus, DeleteServer
<1>4. CASE ScanBegin \/ ScanWarn \/ ScanAbort \/ ScanGroup \/ ScanSkip \/ ScanEnd
  BY <1>4 DEF ScanBegin, ScanWarn, ScanAbort, ScanGroup, ScanSkip, ScanEnd, state
<1>5. CASE Save \/ Delete \/ SendWarning \/ Tick \/ UNCHANGED vars
  BY <1>5 DEF Save, Delete, SendWarning, Tick, vars, state
<1> QED BY <1>1, <1>2, <1>3, <1>4, <1>5 DEF Next, Scanning

\* An execution that is new was never recorded, and a restart of it is in time.
LEMMA NewFacts ==
  ASSUME IInv, [Next]_vars, NEW e \in NewExecutions
  PROVE  /\ <<e.schedule, e.at>> \notin recorded
         /\ e.op # 0 => e.at <= now /\ now <= e.at + LateWindow /\ e.at > since[e.schedule]
<1>1. e \in history' /\ e \notin history /\ \A f \in history : f.n # e.n
  BY DEF NewExecutions
<1>2. CASE ScanClaim
  <2>1. /\ All \subseteq Ids /\ e.schedule \in All /\ e.at = schedules[e.schedule].next
        /\ e.op = Op[e.schedule]
        /\ Op[e.schedule] # 0 => e.schedule \in InTime
    BY <1>1, <1>2, ClaimFacts
  <2>2. Due(e.schedule, now) /\ now \in Nat
    BY <2>1, Known DEF All, StillDue
  <2>3. /\ <<e.schedule, e.at>> \notin recorded /\ e.at \in Nat /\ e.at <= now
        /\ e.at > since[e.schedule]
    BY <2>1, <2>2, DueFacts
  <2>4. ASSUME e.op # 0 PROVE now <= e.at + LateWindow
    <3>1. ~(now > e.at + LateWindow)
      BY <2>1, <2>4 DEF InTime, Late
    <3> QED BY <2>2, <2>3, <3>1, Bounds
  <2> QED BY <2>3, <2>4
<1>3. CASE Crash
  <2>1. /\ e.op = 0 /\ e.schedule \in Ids /\ e.at = schedules[e.schedule].next
        /\ schedules[e.schedule].next # 0
    BY <1>1, <1>3, CrashFacts
  <2> QED BY <2>1, Known DEF Ahead
<1>4. CASE Finish(lock.op, "uncertain") /\ lock.op \in 1..ops
  BY <1>1, <1>4, FinishFacts
<1>5. ASSUME NEW s \in Servers, NEW result \in {"completed", "failed"},
             Finish(servers[s].restart, result), servers[s].restart \in 1..ops
      PROVE  FALSE
  BY <1>1, <1>5, FinishFacts
<1>6. history' # history
  BY <1>1
<1> QED BY <1>2, <1>3, <1>4, <1>5, <1>6, HistorySteps

\* What is open for a restart that stays pending is kept open.
LEMMA OpenFacts ==
  ASSUME IInv, [Next]_vars, NEW e \in history, Active(e), servers'[e.server].restart = e.op
  PROVE  \E f \in history' : f.n = e.n /\ Active(f)
<1>1. e.server \in Servers /\ e.op # 0
  BY Known DEF Execution
<1>2. CASE e \in history'
  BY <1>2
<1>3. CASE ScanClaim
  BY <1>3, ClaimFacts
<1>4. CASE Crash
  BY <1>4, CrashFacts
<1>5. CASE Finish(lock.op, "uncertain") /\ lock.op \in 1..ops
  BY <1>5, FinishFacts
<1>6. ASSUME NEW s \in Servers, NEW result \in {"completed", "failed"},
             Finish(servers[s].restart, result), servers[s].restart \in 1..ops,
             servers' = [servers EXCEPT ![s].restart = 0]
      PROVE  \E f \in history' : f.n = e.n /\ Active(f)
  <2> DEFINE r == [servers[s] EXCEPT !.restart = 0]
  <2>1. servers \in [Servers -> ServerRecords(ops)] /\ OneServer(servers)
    BY Known
  <2>2. r.restart = 0 /\ servers' = [servers EXCEPT ![s] = r]
    BY <1>6, <2>1 DEF ServerRecords
  <2> HIDE DEF r
  <2>3. servers'[s] = r /\ \A t \in Servers : t # s => servers'[t] = servers[t]
    BY <2>1, <2>2
  <2>4. e.server # s
    BY <1>1, <2>2, <2>3
  <2>5. servers[e.server].restart = e.op
    BY <1>1, <2>3, <2>4
  <2>6. e.op # servers[s].restart
    BY <1>1, <2>1, <2>4, <2>5 DEF OneServer
  <2> QED BY <1>6, <2>6, FinishFacts
<1> QED BY <1>2, <1>3, <1>4, <1>5, <1>6, HistorySteps

\* A warning is sent by SendWarning alone.
LEMMA SendFacts ==
  ASSUME IInv, [Next]_vars, NEW w \in warnings', w.sent, w \notin warnings
  PROVE  SendWarning
<1>1. CASE ScanWarn
  <2>1. w \in {[id |-> id, rev |-> schedules[id].rev, next |-> schedules[id].next, sent |-> FALSE] :
                 id \in {i \in Ids : Warns(i)}}
    BY <1>1, ValidFacts DEF ScanWarn
  <2>2. w.sent = FALSE
    BY <2>1
  <2> QED BY <2>2
<1>2. CASE ScanClaim
  BY <1>2, ClaimParts, ValidFacts
<1>3. CASE ScanBegin \/ ScanAbort \/ ScanGroup \/ ScanSkip \/ ScanEnd \/ Dispatch \/ Tick \/ Crash \/ UNCHANGED vars
  BY <1>3 DEF ScanBegin, ScanAbort, ScanGroup, ScanSkip, ScanEnd, Dispatch, Tick, Crash, vars, state
<1>4. CASE Save
  BY <1>4, ValidFacts DEF Save
<1>5. CASE Delete
  BY <1>5, ValidFacts DEF Delete
<1>6. CASE ManualClaim
  BY <1>6, ValidFacts DEF ManualClaim
<1>7. CASE Resolve
  BY <1>7, ValidFacts DEF Resolve
<1>8. CASE ChangeStatus
  BY <1>8, ValidFacts DEF ChangeStatus
<1>9. CASE DeleteServer
  BY <1>9 DEF DeleteServer
<1> QED BY <1>1, <1>2, <1>3, <1>4, <1>5, <1>6, <1>7, <1>8, <1>9 DEF Next, Scanning

\* A warning that is sent is of the next run of its schedule.
LEMMA SentFacts ==
  ASSUME IInv, [Next]_vars, NEW w \in warnings', w.sent, w \notin warnings
  PROVE  /\ now < w.next /\ <<w.id, w.next>> \notin recorded
         /\ schedules[w.id].next = w.next /\ schedules[w.id].rev = w.rev
<1>1. PICK v \in warnings :
        warnings' = (warnings \ {v}) \cup
                      (IF WarningValid(v, schedules[v.id], servers, now)
                         THEN {[v EXCEPT !.sent = TRUE]} ELSE {})
  BY SendFacts DEF SendWarning
<1>2. v \in Warnings /\ v.id \in Ids
  BY Known DEF Warnings
<1>3. WarningValid(v, schedules[v.id], servers, now) /\ w = [v EXCEPT !.sent = TRUE]
  BY <1>1
<1>4. w.id = v.id /\ w.rev = v.rev /\ w.next = v.next
  BY <1>2, <1>3 DEF Warnings
<1>5. /\ schedules[v.id].next # 0 /\ now < schedules[v.id].next
      /\ v.rev = schedules[v.id].rev /\ v.next = schedules[v.id].next
  BY <1>3 DEF WarningValid, WarningEligible
<1>6. <<v.id, schedules[v.id].next>> \notin recorded
  BY <1>2, <1>5, Known DEF Ahead
<1> QED BY <1>4, <1>5, <1>6

-----------------------------------------------------------------------------
(* The promise                                                             *)

Fate(o) == FateIn(history, recorded, o)

Of(e, o) == e.schedule = o[1] /\ e.at = o[2]

\* The fate of an occurrence is its execution's; without one it is undecided,
\* or forgotten.
LEMMA FateFacts ==
  ASSUME NEW h, Distinct(h), NEW rec, NEW o
  PROVE  /\ \A e \in h : Of(e, o) => FateIn(h, rec, o) = Promise!Is(e.result, e.op)
         /\ (\A e \in h : ~Of(e, o)) =>
              FateIn(h, rec, o) = IF o \in rec THEN Promise!Forgotten ELSE Promise!None
<1> DEFINE es == {e \in h : e.schedule = o[1] /\ e.at = o[2]}
           f  == CHOOSE e \in es : TRUE
<1>1. FateIn(h, rec, o) =
        IF es # {} THEN [is |-> f.result, by |-> f.op]
        ELSE [is |-> IF o \in rec THEN "forgotten" ELSE "none", by |-> 0]
  BY DEF FateIn
<1>2. ASSUME NEW e \in h, Of(e, o) PROVE es # {} /\ f = e
  <2>1. e \in es
    BY <1>2 DEF Of
  <2>2. f \in es
    BY <2>1
  <2> QED BY <2>1, <2>2 DEF Distinct
<1>3. ASSUME \A e \in h : ~Of(e, o) PROVE es = {}
  BY <1>3 DEF Of
<1> HIDE DEF es, f
<1>4. ASSUME NEW e \in h, Of(e, o) PROVE FateIn(h, rec, o) = Promise!Is(e.result, e.op)
  BY <1>1, <1>2, <1>4 DEF Promise!Is
<1>5. ASSUME \A e \in h : ~Of(e, o)
      PROVE  FateIn(h, rec, o) = IF o \in rec THEN Promise!Forgotten ELSE Promise!None
  BY <1>1, <1>3, <1>5 DEF Promise!Is, Promise!Forgotten, Promise!None
<1> QED BY <1>4, <1>5

\* Two executions of an occurrence are one, and it was recorded.
LEMMA OneExecution ==
  ASSUME IInv, NEW o, NEW e \in history, Of(e, o)
  PROVE  /\ \A f \in history : Of(f, o) => f = e
         /\ o \in Occurrences => o \in recorded
         /\ Fate(o) = Promise!Is(e.result, e.op) /\ e.result \in Results
         /\ Promise!Open(Fate(o)) <=> Active(e)
         /\ Fate(o) # Promise!None /\ Fate(o).by = e.op
<1>1. Distinct(history) /\ Execution(e, ops, recorded)
  BY Known
<1>2. \A f \in history : Of(f, o) => f = e
  BY <1>1 DEF Distinct, Of
<1>3. ASSUME o \in Occurrences PROVE o \in recorded
  BY <1>1, <1>3 DEF Of, Occurrences, Execution
<1>4. Fate(o) = Promise!Is(e.result, e.op) /\ e.result \in Results
  BY <1>1, FateFacts DEF Fate, Execution
<1>5. Fate(o).is = e.result /\ Fate(o).by = e.op
  BY <1>4 DEF Promise!Is
<1>6. Promise!Open(Fate(o)) <=> Active(e)
  BY <1>5 DEF Promise!Open, Active
<1>7. Promise!None.is = "none" /\ "none" \notin Results
  BY DEF Promise!None, Promise!Is, Results
<1> QED BY <1>2, <1>3, <1>4, <1>5, <1>6, <1>7

\* Without an execution.
LEMMA NoExecution ==
  ASSUME IInv, NEW o, \A e \in history : ~Of(e, o)
  PROVE  /\ Fate(o) = IF o \in recorded THEN Promise!Forgotten ELSE Promise!None
         /\ ~Promise!Open(Fate(o))
<1>1. Fate(o) = IF o \in recorded THEN Promise!Forgotten ELSE Promise!None
  BY Known, FateFacts DEF Fate
<1>2. ~Promise!Open(Promise!Forgotten) /\ ~Promise!Open(Promise!None)
  BY DEF Promise!Open, Promise!Forgotten, Promise!None, Promise!Is
<1> QED BY <1>1, <1>2

\* Occurrences that were not recorded are, with a decision each, and what was
\* open stays: the fate of every occurrence turns as the promise has it.
LEMMA RecordedTurns ==
  ASSUME IInv, IInv', NEW decisions, Promise!Forgotten \in decisions,
         recorded \subseteq recorded',
         \A c \in history' : c \in history \/
           (<<c.schedule, c.at>> \notin recorded /\ Promise!Is(c.result, c.op) \in decisions),
         \A e \in history : Active(e) => e \in history',
         NEW o \in Occurrences
  PROVE  Fate(o)' \in Promise!Turns(Fate(o), decisions)
<1>1. o = <<o[1], o[2]>>
  BY DEF Occurrences
<1>2. ASSUME NEW c \in history', Of(c, o) PROVE Fate(o)' = Promise!Is(c.result, c.op)
  <2>1. Distinct(history')
    BY Known DEF IInv, Audit
  <2> QED BY <1>2, <2>1, FateFacts DEF Fate
<1>3. ASSUME \A c \in history' : ~Of(c, o)
      PROVE  Fate(o)' = IF o \in recorded' THEN Promise!Forgotten ELSE Promise!None
  <2>1. Distinct(history')
    BY Known DEF IInv, Audit
  <2> QED BY <1>3, <2>1, FateFacts DEF Fate
<1>4. ASSUME NEW c \in history', Of(c, o), c \notin history
      PROVE  o \notin recorded /\ Promise!Is(c.result, c.op) \in decisions
  BY <1>1, <1>4 DEF Of
<1>5. CASE \E e \in history : Of(e, o)
  <2>1. PICK e \in history : Of(e, o)
    BY <1>5
  <2>2. /\ \A f \in history : Of(f, o) => f = e
        /\ o \in recorded /\ o \in recorded'
        /\ Fate(o) = Promise!Is(e.result, e.op)
        /\ Promise!Open(Fate(o)) <=> Active(e)
        /\ Fate(o) # Promise!None
    BY <2>1, OneExecution
  <2>3. \A c \in history' : Of(c, o) => c = e
    BY <1>4, <2>2
  <2>4. Fate(o)' = Fate(o) \/ (Fate(o)' = Promise!Forgotten /\ ~Promise!Open(Fate(o)))
    BY <1>2, <1>3, <2>1, <2>2, <2>3
  <2> QED BY <2>2, <2>4 DEF Promise!Turns
<1>6. CASE \A e \in history : ~Of(e, o)
  <2>1. /\ Fate(o) = IF o \in recorded THEN Promise!Forgotten ELSE Promise!None
        /\ ~Promise!Open(Fate(o))
    BY <1>6, NoExecution
  <2>2. CASE o \in recorded
    <3>1. \A c \in history' : ~Of(c, o)
      BY <1>4, <1>6, <2>2
    <3>2. Fate(o)' = Promise!Forgotten /\ Fate(o) = Promise!Forgotten
      BY <1>3, <2>1, <2>2, <3>1
    <3>3. Promise!Forgotten # Promise!None
      BY DEF Promise!Forgotten, Promise!None, Promise!Is
    <3> QED BY <2>1, <3>2, <3>3 DEF Promise!Turns
  <2>3. CASE o \notin recorded
    <3>1. Fate(o)' \in {Promise!None} \cup decisions
      BY <1>2, <1>3, <1>4, <1>6, <2>3
    <3> QED BY <2>1, <2>3, <3>1 DEF Promise!Turns
  <2> QED BY <2>2, <2>3
<1> QED BY <1>5, <1>6

\* A restart ends, or becomes uncertain: its occurrences, and they alone, take
\* the outcome.
LEMMA FinishSettles ==
  ASSUME IInv, IInv', NEW op \in 1..ops, NEW result \in {"uncertain", "completed", "failed"},
         Finish(op, result), recorded' = recorded, NEW o \in Occurrences
  PROVE  Fate(o)' \in Promise!Settled(Fate(o), op,
           IF result = "uncertain" THEN {Promise!Is(result, op)}
           ELSE {Promise!Is(result, op), Promise!Forgotten})
<1>1. /\ \A c \in history' : \E e \in history :
           /\ c.schedule = e.schedule /\ c.at = e.at /\ c.op = e.op
           /\ IF e.op = op /\ Active(e) THEN c.result = result ELSE c = e
      /\ \A e \in history : Active(e) /\ (e.op # op \/ result = "uncertain") =>
           \E c \in history' : c.schedule = e.schedule /\ c.at = e.at
  BY FinishFacts
<1>2. Distinct(history')
  BY Known DEF IInv, Audit
<1>3. ASSUME NEW c \in history', Of(c, o) PROVE Fate(o)' = Promise!Is(c.result, c.op)
  BY <1>2, <1>3, FateFacts DEF Fate
<1>4. ASSUME \A c \in history' : ~Of(c, o)
      PROVE  Fate(o)' = IF o \in recorded' THEN Promise!Forgotten ELSE Promise!None
  BY <1>2, <1>4, FateFacts DEF Fate
<1>5. CASE \E e \in history : Of(e, o)
  <2>1. PICK e \in history : Of(e, o)
    BY <1>5
  <2>2. /\ \A f \in history : Of(f, o) => f = e
        /\ o \in recorded'
        /\ Fate(o) = Promise!Is(e.result, e.op)
        /\ Promise!Open(Fate(o)) <=> Active(e)
        /\ Fate(o) # Promise!None /\ Fate(o).by = e.op
    BY <2>1, OneExecution
  <2>3. ASSUME NEW c \in history', Of(c, o)
        PROVE  c.op = e.op /\ IF e.op = op /\ Active(e) THEN c.result = result ELSE c = e
    BY <1>1, <2>2, <2>3 DEF Of
  <2>4. Active(e) /\ (e.op # op \/ result = "uncertain") => \E c \in history' : Of(c, o)
    BY <1>1, <2>1 DEF Of
  <2>5. CASE e.op = op /\ Active(e)
    <3>1. \/ Fate(o)' = Promise!Is(result, op)
          \/ Fate(o)' = Promise!Forgotten /\ result # "uncertain"
      BY <1>3, <1>4, <2>2, <2>3, <2>4, <2>5
    <3> QED BY <2>2, <2>5, <3>1 DEF Promise!Settled
  <2>6. CASE ~(e.op = op /\ Active(e))
    <3>1. Fate(o)' = Fate(o) \/ (Fate(o)' = Promise!Forgotten /\ ~Promise!Open(Fate(o)))
      BY <1>3, <1>4, <2>2, <2>3, <2>4, <2>6
    <3> QED BY <2>2, <2>6, <3>1 DEF Promise!Settled, Promise!Turns
  <2> QED BY <2>5, <2>6
<1>6. CASE \A e \in history : ~Of(e, o)
  <2>1. \A c \in history' : ~Of(c, o)
    BY <1>1, <1>6 DEF Of
  <2>2. /\ Fate(o) = IF o \in recorded THEN Promise!Forgotten ELSE Promise!None
        /\ ~Promise!Open(Fate(o))
    BY <1>6, NoExecution
  <2>3. Fate(o)' = Fate(o)
    BY <1>4, <2>1, <2>2
  <2> QED BY <2>2, <2>3 DEF Promise!Settled, Promise!Turns
<1> QED BY <1>5, <1>6

\* Who holds the lock dispatches the restart of a server that waits for it.
LockHeld == lock # Free => servers[lock.server].restart = lock.op /\ ~Gone(lock.server)

LEMMA ClaimReserves ==
  ASSUME IInv, ScanClaim, Claims
  PROVE  /\ Current \in Servers /\ ~Gone(Current) /\ ~Pending(Current)
         /\ ops' = ops + 1
         /\ servers' = [servers EXCEPT ![Current].restart = ops + 1, ![Current].status = "up"]
         /\ lock' = [op |-> ops + 1, server |-> Current, by |-> "scan"]
BY ClaimParts, CurrentFacts DEF Claims, Claimable, Shut

LEMMA NextLockHeld == ASSUME IInv, LockHeld, [Next]_vars PROVE LockHeld'
<1>1. CASE ScanClaim /\ Claims
  <2>1. /\ Current \in Servers /\ ops' = ops + 1
        /\ servers' = [servers EXCEPT ![Current].restart = ops + 1, ![Current].status = "up"]
        /\ lock'.server = Current /\ lock'.op = ops + 1
    BY <1>1, ClaimReserves
  <2>2. servers'[Current].restart = ops' /\ servers'[Current].status = "up"
    BY <2>1, ReserveFacts
  <2> QED BY <2>1, <2>2 DEF LockHeld, Gone
<1>2. CASE ScanClaim /\ ~Claims
  BY <1>2, ClaimParts DEF LockHeld, Gone
<1>3. CASE ManualClaim
  <2>1. PICK s \in Servers :
          /\ ops' = ops + 1
          /\ servers' = [servers EXCEPT ![s].restart = ops + 1, ![s].status = "up"]
          /\ lock' = [op |-> ops + 1, server |-> s, by |-> "request"]
    BY <1>3 DEF ManualClaim
  <2>2. servers'[s].restart = ops' /\ servers'[s].status = "up"
    BY <2>1, ReserveFacts
  <2>3. lock'.server = s /\ lock'.op = ops'
    BY <2>1
  <2> QED BY <2>2, <2>3 DEF LockHeld, Gone
<1>4. CASE Dispatch \/ Crash
  BY <1>4 DEF Dispatch, Crash, LockHeld
<1>5. CASE Resolve \/ ChangeStatus \/ DeleteServer
  BY <1>5 DEF Resolve, ChangeStatus, DeleteServer, LockHeld
<1>6. CASE ScanBegin \/ ScanWarn \/ ScanAbort \/ ScanGroup \/ ScanSkip \/ ScanEnd
  BY <1>6 DEF ScanBegin, ScanWarn, ScanAbort, ScanGroup, ScanSkip, ScanEnd, state, LockHeld, Gone
<1>7. CASE Save \/ Delete \/ SendWarning \/ Tick \/ UNCHANGED vars
  BY <1>7 DEF Save, Delete, SendWarning, Tick, vars, state, LockHeld, Gone
<1> QED BY <1>1, <1>2, <1>3, <1>4, <1>5, <1>6, <1>7 DEF Next, Scanning

\* Another restart for one server.
LEMMA Replaced ==
  ASSUME NEW a, NEW b, NEW s \in Servers, NEW op, b[s].restart = op,
         \A t \in Servers : t # s => b[t].restart = a[t].restart
  PROVE  [t \in Servers |-> b[t].restart] = [[t \in Servers |-> a[t].restart] EXCEPT ![s] = op]
<1> DEFINE f == [t \in Servers |-> a[t].restart]
           g == [f EXCEPT ![s] = op]
<1>1. g = [t \in Servers |-> IF t = s THEN op ELSE f[t]]
  OBVIOUS
<1>2. \A t \in Servers : b[t].restart = IF t = s THEN op ELSE f[t]
  OBVIOUS
<1> HIDE DEF f
<1> QED BY <1>1, <1>2, Zenon

\* A restart is reserved for a server, as the promise has it.
LEMMA ReservedClaim ==
  ASSUME NEW s \in Servers, ~Gone(s), ~Pending(s), ops' = ops + 1,
         servers'[s].restart = ops', servers'[s].status = "up",
         \A t \in Servers : t # s => servers'[t] = servers[t],
         \A o \in Occurrences :
           Fate(o)' \in Promise!Turns(Fate(o), Promise!Over \cup {Promise!Is("awaiting", ops')})
  PROVE  Promise!Claim(s)
<1>1. \A t \in Servers : t # s => servers'[t].restart = servers[t].restart
  OBVIOUS
<1>2. [t \in Servers |-> servers'[t].restart] = [[t \in Servers |-> servers[t].restart] EXCEPT ![s] = ops']
  BY <1>1, Replaced
<1>3. {t \in Servers : ~Gone(t)}' = {t \in Servers : ~Gone(t)}
  BY DEF Gone
<1>4. s \in {t \in Servers : ~Gone(t)} /\ [t \in Servers |-> servers[t].restart][s] = 0
  BY DEF Pending
<1> QED BY <1>2, <1>3, <1>4 DEF Promise!Claim, Fate

LEMMA ReservePromised ==
  ASSUME IInv, NEW s \in Servers, ~Gone(s), ~Pending(s), ops' = ops + 1,
         servers' = [servers EXCEPT ![s].restart = ops + 1, ![s].status = "up"],
         \A o \in Occurrences :
           Fate(o)' \in Promise!Turns(Fate(o), Promise!Over \cup {Promise!Is("awaiting", ops')})
  PROVE  Promise!Claim(s)
<1>1. /\ servers'[s].restart = ops' /\ servers'[s].status = "up"
      /\ \A t \in Servers : t # s => servers'[t] = servers[t]
  BY ReserveFacts
<1> QED BY <1>1, ReservedClaim

\* Nothing becomes of the servers.
LEMMA OverPromised ==
  ASSUME \A o \in Occurrences : Fate(o)' \in Promise!Turns(Fate(o), Promise!Over),
         servers' = servers, ops' = ops
  PROVE  Promise!PassOver
BY DEF Promise!PassOver, Fate, Gone

LEMMA OverFacts ==
  /\ Promise!Forgotten \in Promise!Over
  /\ Promise!Is("missed", 0) \in Promise!Over /\ Promise!Is("skipped", 0) \in Promise!Over
BY DEF Promise!Over

LEMMA ScanClaimPromised ==
  ASSUME IInv, IInv', ScanClaim
  PROVE  Promise!PassOver \/ \E s \in Servers : Promise!Claim(s)
<1> DEFINE D == IF Claims THEN Promise!Over \cup {Promise!Is("awaiting", ops')} ELSE Promise!Over
<1>1. ASSUME NEW c \in history', c \notin history
      PROVE  <<c.schedule, c.at>> \notin recorded /\ Promise!Is(c.result, c.op) \in D
  <2>1. /\ All \subseteq Ids /\ c.schedule \in All /\ c.at = schedules[c.schedule].next
        /\ c.op = Op[c.schedule] /\ c.result = Outcome[c.schedule]
        /\ Op[c.schedule] # 0 => Claims /\ Op[c.schedule] = ops + 1
    BY <1>1, ClaimFacts
  <2>2. Due(c.schedule, now) /\ now \in Nat
    BY <2>1, Known DEF All, StillDue
  <2>3. <<c.schedule, c.at>> \notin recorded
    BY <2>1, <2>2, DueFacts
  <2>4. CASE c.op # 0
    <3>1. c.result = "awaiting" /\ Claims /\ c.op = ops'
      BY <2>1, <2>4, ClaimParts DEF Outcome
    <3> QED BY <2>3, <3>1
  <2>5. CASE c.op = 0
    <3>1. c.result \in {"missed", "skipped"}
      BY <2>1, <2>5 DEF Outcome
    <3> QED BY <2>3, <2>5, <3>1, OverFacts
  <2> QED BY <2>4, <2>5
<1>2. /\ Promise!Forgotten \in D /\ recorded \subseteq recorded'
      /\ \A e \in history : Active(e) => e \in history'
  BY OverFacts, ClaimParts, ClaimFacts
<1>3. D = IF Claims THEN Promise!Over \cup {Promise!Is("awaiting", ops')} ELSE Promise!Over
  OBVIOUS
<1> HIDE DEF D
<1>4. ASSUME NEW o \in Occurrences PROVE Fate(o)' \in Promise!Turns(Fate(o), D)
  <2>1. \A c \in history' : c \in history \/
          (<<c.schedule, c.at>> \notin recorded /\ Promise!Is(c.result, c.op) \in D)
    BY <1>1
  <2> QED BY <1>2, <2>1, RecordedTurns
<1>5. CASE Claims
  BY <1>3, <1>4, <1>5, ClaimReserves, ReservePromised
<1>6. CASE ~Claims
  BY <1>3, <1>4, <1>6, ClaimParts, OverPromised
<1> QED BY <1>5, <1>6

LEMMA CrashPromised ==
  ASSUME IInv, IInv', Crash
  PROVE  Promise!PassOver
<1>1. /\ \A e \in history : Active(e) => e \in history'
      /\ servers' = servers /\ ops' = ops
  BY CrashFacts
<1>2. recorded \subseteq recorded'
  BY DEF Crash
<1>3. ASSUME NEW c \in history', c \notin history
      PROVE  <<c.schedule, c.at>> \notin recorded /\ Promise!Is(c.result, c.op) \in Promise!Over
  <2>1. /\ c.result = "missed" /\ c.op = 0 /\ c.schedule \in Ids
        /\ c.at = schedules[c.schedule].next /\ schedules[c.schedule].next # 0
    BY <1>3, CrashFacts
  <2> QED BY <2>1, Known, OverFacts DEF Ahead
<1>4. ASSUME NEW o \in Occurrences PROVE Fate(o)' \in Promise!Turns(Fate(o), Promise!Over)
  <2>1. \A c \in history' : c \in history \/
          (<<c.schedule, c.at>> \notin recorded /\ Promise!Is(c.result, c.op) \in Promise!Over)
    BY <1>3
  <2> QED BY <1>1, <1>2, <2>1, OverFacts, RecordedTurns
<1> QED BY <1>1, <1>4, OverPromised

\* No occurrence is touched.
LEMMA SameFates ==
  ASSUME history' = history, recorded' = recorded
  PROVE  \A o : Fate(o)' = Fate(o) /\ \A D : Fate(o)' \in Promise!Turns(Fate(o), D)
BY DEF Fate, FateIn, Promise!Turns

LEMMA ManualClaimPromised ==
  ASSUME IInv, ManualClaim
  PROVE  \E s \in Servers : Promise!Claim(s)
<1>1. PICK s \in Servers :
        /\ ~Gone(s) /\ ~Pending(s) /\ ops' = ops + 1
        /\ servers' = [servers EXCEPT ![s].restart = ops + 1, ![s].status = "up"]
        /\ UNCHANGED <<history, recorded>>
  BY DEF ManualClaim, observe
<1> QED BY <1>1, SameFates, ReservePromised

LEMMA DispatchPromised ==
  ASSUME IInv, IInv', LockHeld, Dispatch
  PROVE  UNCHANGED Promise!promise \/ \E s \in Servers : Promise!Doubt(s)
<1>1. /\ lock # Free /\ servers' = servers /\ ops' = ops /\ recorded' = recorded
      /\ history' = history \/ Finish(lock.op, "uncertain")
  BY DEF Dispatch, observe
<1>2. /\ lock.server \in Servers /\ lock.op \in 1..ops
      /\ servers[lock.server].restart = lock.op /\ ~Gone(lock.server)
  BY <1>1 DEF IInv, LockHeld
<1>3. CASE history' = history
  BY <1>1, <1>3 DEF Promise!promise, Gone
<1>4. CASE Finish(lock.op, "uncertain")
  <2>1. \A o \in Occurrences :
          Fate(o)' \in Promise!Settled(Fate(o), lock.op, {Promise!Is("uncertain", lock.op)})
    BY <1>1, <1>2, <1>4, FinishSettles
  <2>2. [t \in Servers |-> servers[t].restart][lock.server] = lock.op /\ lock.op # 0
    BY <1>2, Known
  <2> QED BY <1>1, <1>2, <2>1, <2>2 DEF Promise!Doubt, Promise!Waits, Fate, Gone
<1> QED BY <1>1, <1>3, <1>4

LEMMA ResolvePromised ==
  ASSUME IInv, IInv', Resolve
  PROVE  \E s \in Servers : Promise!End(s, "completed") \/ Promise!End(s, "failed")
<1>1. PICK s \in Servers, result \in {"completed", "failed"} :
        /\ Pending(s) /\ ~Gone(s)
        /\ Finish(servers[s].restart, result)
        /\ servers' = [servers EXCEPT ![s].restart = 0]
        /\ ops' = ops /\ recorded' = recorded
  BY DEF Resolve, observe
<1> DEFINE op == servers[s].restart
           r  == [servers[s] EXCEPT !.restart = 0]
<1>2. op \in 1..ops
  BY <1>1, Known DEF Pending
<1>3. servers \in [Servers -> ServerRecords(ops)]
  BY Known
<1>4. r.restart = 0 /\ r.status = servers[s].status /\ servers' = [servers EXCEPT ![s] = r]
  BY <1>1, <1>3 DEF ServerRecords
<1> HIDE DEF r
<1>5. /\ servers'[s].restart = 0
      /\ \A t \in Servers : /\ servers'[t].status = servers[t].status
                            /\ t # s => servers'[t] = servers[t]
  BY <1>3, <1>4
<1>6. [t \in Servers |-> servers'[t].restart] = [[t \in Servers |-> servers[t].restart] EXCEPT ![s] = 0]
  BY <1>5
<1>7. {t \in Servers : ~Gone(t)}' = {t \in Servers : ~Gone(t)}
  BY <1>5 DEF Gone
<1>8. \A o \in Occurrences :
        Fate(o)' \in Promise!Settled(Fate(o), op, {Promise!Is(result, op), Promise!Forgotten})
  BY <1>1, <1>2, FinishSettles
<1>9. [t \in Servers |-> servers[t].restart][s] = op /\ op # 0 /\ s \in {t \in Servers : ~Gone(t)}
  BY <1>1, <1>2, Known
<1>10. Promise!End(s, result)
  BY <1>1, <1>6, <1>7, <1>8, <1>9 DEF Promise!End, Promise!Waits, Fate
<1> QED BY <1>10

\* The status of a server that is there is changed.
LEMMA ChangeStatusPromised ==
  ASSUME IInv, ChangeStatus
  PROVE  UNCHANGED Promise!promise
<1>1. PICK s \in Servers, move \in Moves :
        /\ servers[s].status = move[1]
        /\ servers' = [servers EXCEPT ![s].status = move[2]]
        /\ UNCHANGED <<history, recorded, ops>>
  BY DEF ChangeStatus, observe
<1> DEFINE r == [servers[s] EXCEPT !.status = move[2]]
<1>2. servers \in [Servers -> ServerRecords(ops)]
  BY Known
<1>3. move[1] # "gone" /\ move[2] # "gone"
  <2>1. \E a, b \in {"up", "parked", "seen stopped"} : move = <<a, b>>
    BY DEF Moves
  <2>2. PICK a, b \in {"up", "parked", "seen stopped"} : move = <<a, b>>
    BY <2>1
  <2>3. move[1] = a /\ move[2] = b
    BY <2>2
  <2> QED BY <2>3
<1>4. r.restart = servers[s].restart /\ r.status # "gone" /\ servers' = [servers EXCEPT ![s] = r]
  BY <1>1, <1>2, <1>3 DEF ServerRecords
<1> HIDE DEF r
<1>5. \A t \in Servers : /\ servers'[t].restart = servers[t].restart
                         /\ servers'[t].status = "gone" <=> servers[t].status = "gone"
  BY <1>1, <1>2, <1>3, <1>4
<1>6. [t \in Servers |-> servers'[t].restart] = [t \in Servers |-> servers[t].restart]
  BY <1>5
<1>7. {t \in Servers : ~Gone(t)}' = {t \in Servers : ~Gone(t)}
  BY <1>5 DEF Gone
<1> QED BY <1>1, <1>6, <1>7 DEF Promise!promise

LEMMA DeleteServerPromised ==
  ASSUME IInv, DeleteServer
  PROVE  UNCHANGED Promise!promise \/ \E s \in Servers : Promise!Abandon(s)
<1>1. PICK s \in Servers :
        /\ ~Gone(s)
        /\ \/ servers' = [servers EXCEPT ![s].deleting = TRUE]
           \/ servers' = [servers EXCEPT ![s].status = "gone", ![s].restart = 0]
        /\ UNCHANGED <<history, recorded, ops>>
  BY DEF DeleteServer, observe
<1>2. servers \in [Servers -> ServerRecords(ops)]
  BY Known
<1>3. CASE servers' = [servers EXCEPT ![s].deleting = TRUE]
  <2> DEFINE r == [servers[s] EXCEPT !.deleting = TRUE]
  <2>1. /\ r.restart = servers[s].restart /\ r.status = servers[s].status
        /\ servers' = [servers EXCEPT ![s] = r]
    BY <1>2, <1>3 DEF ServerRecords
  <2> HIDE DEF r
  <2>2. \A t \in Servers : /\ servers'[t].restart = servers[t].restart
                           /\ servers'[t].status = servers[t].status
    BY <1>2, <2>1
  <2>3. [t \in Servers |-> servers'[t].restart] = [t \in Servers |-> servers[t].restart]
    BY <2>2
  <2>4. {t \in Servers : ~Gone(t)}' = {t \in Servers : ~Gone(t)}
    BY <2>2 DEF Gone
  <2> QED BY <1>1, <2>3, <2>4 DEF Promise!promise
<1>4. CASE servers' = [servers EXCEPT ![s].status = "gone", ![s].restart = 0]
  <2> DEFINE r == [[servers[s] EXCEPT !.status = "gone"] EXCEPT !.restart = 0]
  <2>1. r.restart = 0 /\ r.status = "gone" /\ servers' = [servers EXCEPT ![s] = r]
    BY <1>2, <1>4 DEF ServerRecords
  <2> HIDE DEF r
  <2>2. /\ servers'[s].restart = 0 /\ servers'[s].status = "gone"
        /\ \A t \in Servers : t # s => servers'[t] = servers[t]
    BY <1>2, <2>1
  <2>3. [t \in Servers |-> servers'[t].restart] = [[t \in Servers |-> servers[t].restart] EXCEPT ![s] = 0]
    BY <2>2
  <2>4. {t \in Servers : ~Gone(t)}' = {t \in Servers : ~Gone(t)} \ {s}
    BY <2>2 DEF Gone
  <2> QED BY <1>1, <2>3, <2>4 DEF Promise!Abandon
<1> QED BY <1>1, <1>3, <1>4

LEMMA InitPromised == Init => LockHeld /\ Promise!Init
<1> SUFFICES ASSUME Init PROVE LockHeld /\ Promise!Init
  OBVIOUS
<1>1. /\ history = {} /\ recorded = {} /\ ops = 0 /\ lock = Free
      /\ servers = [s \in Servers |-> [status |-> "up", deleting |-> FALSE, restart |-> 0]]
  BY DEF Init
<1>2. \A o \in Occurrences : FateIn(history, recorded, o) = Promise!None
  BY <1>1 DEF FateIn, Promise!None, Promise!Is
<1>3. /\ [s \in Servers |-> servers[s].restart] = [s \in Servers |-> 0]
      /\ {s \in Servers : ~Gone(s)} = Servers
  BY <1>1 DEF Gone
<1> QED BY <1>1, <1>2, <1>3 DEF Promise!Init, LockHeld

LEMMA NextPromised ==
  ASSUME IInv, IInv', LockHeld, [Next]_vars
  PROVE  [Promise!Next]_(Promise!promise)
<1>1. CASE ScanClaim
  BY <1>1, ScanClaimPromised DEF Promise!Next
<1>2. CASE Crash
  BY <1>2, CrashPromised DEF Promise!Next
<1>3. CASE ManualClaim
  BY <1>3, ManualClaimPromised DEF Promise!Next
<1>4. CASE Dispatch
  BY <1>4, DispatchPromised DEF Promise!Next
<1>5. CASE Resolve
  BY <1>5, ResolvePromised DEF Promise!Next
<1>6. CASE ChangeStatus
  BY <1>6, ChangeStatusPromised
<1>7. CASE DeleteServer
  BY <1>7, DeleteServerPromised DEF Promise!Next
<1>8. CASE ScanBegin \/ ScanWarn \/ ScanAbort \/ ScanGroup \/ ScanSkip \/ ScanEnd
  BY <1>8 DEF ScanBegin, ScanWarn, ScanAbort, ScanGroup, ScanSkip, ScanEnd, state, observe,
              Promise!promise, Gone
<1>9. CASE Save \/ Delete \/ SendWarning \/ Tick \/ UNCHANGED vars
  <2>1. UNCHANGED <<history, servers, ops>>
    BY <1>9 DEF Save, Delete, SendWarning, Tick, vars, state
  <2>2. recorded' = recorded
    BY <1>9 DEF Save, Delete, SendWarning, Tick, vars, observe
  <2> QED BY <2>1, <2>2 DEF Promise!promise, Gone
<1> QED BY <1>1, <1>2, <1>3, <1>4, <1>5, <1>6, <1>7, <1>8, <1>9 DEF Next, Scanning

-----------------------------------------------------------------------------
(* The theorems                                                            *)

\* The inductive invariant: in every state the next run of a schedule lies
\* beyond what was recorded, an execution is known by its schedule and
\* occurrence, and what is open waits for the restart of its server.
THEOREM InvariantHolds == Spec => []IInv
BY InitIInv, NextIInv, PTL DEF Spec

\* Every variable keeps its type: a schedule is enabled exactly when it has a
\* next run, and an execution names a restart exactly when its result says so.
THEOREM TypeCorrect == Spec => []TypeOK
<1>1. IInv => TypeOK
  <2> SUFFICES ASSUME IInv PROVE TypeOK
    OBVIOUS
  <2>1. now \in 1..MaxTime /\ drawn \in 0..NSchedules /\ scan.phase \in {"idle", "warn", "group", "claim"}
    BY DEF IInv, Counters, Snapshot
  <2>2. ASSUME NEW id \in Ids, schedules[id] # NoSchedule
        PROVE  /\ schedules[id].def \in Definitions /\ schedules[id].enabled \in BOOLEAN
               /\ schedules[id].next # 0 <=> schedules[id].enabled
               /\ schedules[id].op \in 0..ops
    <3>1. ops \in Nat /\ schedules[id] \in Live(ops)
      BY <2>2, Known DEF Sound
    <3>2. schedules[id].next # 0 <=> schedules[id].enabled
      BY Known DEF Sound
    <3>3. schedules[id].def \in Definitions /\ schedules[id].enabled \in BOOLEAN
      BY <3>1, LiveOthers
    <3>4. schedules[id].op \in 0..ops
      BY <3>1, LiveFacts
    <3> QED BY <3>2, <3>3, <3>4
  <2>3. ASSUME NEW e \in history
        PROVE  /\ e.schedule \in Ids /\ e.server \in Servers /\ e.at \in 1..MaxTime
               /\ e.result \in {"awaiting", "uncertain", "completed", "failed", "skipped", "missed"}
               /\ (Active(e) \/ e.result \in {"completed", "failed"}) <=> e.op \in 1..ops
    <3>1. /\ e.schedule \in Ids /\ e.server \in Servers /\ e.op \in Nat /\ e.op <= ops
          /\ e.result \in Results /\ (Active(e) \/ e.result \in Ended <=> e.op # 0)
          /\ <<e.schedule, e.at>> \in recorded /\ ops \in Nat
      BY Known, ExecutionFacts
    <3>2. e.at \in 1..now
      BY <3>1, Known
    <3>3. e.at \in 1..MaxTime
      BY <2>1, <3>2, Bounds
    <3>4. e.op # 0 <=> e.op \in 1..ops
      BY <3>1
    <3> QED BY <3>1, <3>3, <3>4 DEF Results, Ended
  <2>4. lock = Free \/ (lock.op \in 1..ops /\ lock.server \in Servers)
    BY DEF IInv
  <2> QED BY <2>1, <2>2, <2>3, <2>4 DEF TypeOK
<1> QED BY <1>1, InvariantHolds, PTL

\* An open execution waits for the restart its server really has pending, as
\* long as no schedule changes its target between the snapshot of a scan and
\* its claim: the code does not prevent that, and then it fails.
THEOREM OpenAwaited == ASSUME ~RetargetInScan PROVE Spec => []OpenIsPending
<1>1. IInv => OpenIsPending
  BY DEF IInv, Awaits, OpenIsPending, Gone
<1> QED BY <1>1, InvariantHolds, PTL

\* What a schedule shows of its last occurrence is what the history says of it.
THEOREM AuditShown == Spec => []ScheduleShowsAudit
<1>1. IInv => ScheduleShowsAudit
  BY DEF IInv, Audit, Shows, ScheduleShowsAudit, Exists
<1> QED BY <1>1, InvariantHolds, PTL

\* An occurrence is recorded, and so restarted, at most once.
THEOREM OccurrenceRecordedOnce == Spec => RecordedOnce
<1>1. IInv /\ [Next]_vars =>
        [\A e \in NewExecutions : <<e.schedule, e.at>> \notin recorded]_vars
  BY NewFacts
<1> QED BY <1>1, InvariantHolds, PTL DEF Spec, RecordedOnce

\* No restart is claimed before its time, later than the late window after it,
\* or for a time from before C2 started or the timing was saved.
THEOREM NeverCatchesUp == Spec => NoCatchUp
<1>1. IInv /\ [Next]_vars =>
        [\A e \in NewExecutions : e.op # 0 =>
           e.at <= now /\ now <= e.at + LateWindow /\ e.at > since[e.schedule]]_vars
  BY NewFacts
<1> QED BY <1>1, InvariantHolds, PTL DEF Spec, NoCatchUp

\* The open executions of a pending restart never leave the history.
THEOREM OpenKept == Spec => OpenIsKept
<1>1. IInv /\ [Next]_vars =>
        [\A e \in history : Active(e) /\ servers'[e.server].restart = e.op =>
           \E f \in history' : f.n = e.n /\ Active(f)]_vars
  BY OpenFacts
<1> QED BY <1>1, InvariantHolds, PTL DEF Spec, OpenIsKept

\* A warning never goes out for an occurrence that is past or was dealt with,
\* or of a schedule edited since.
THEOREM WarningsTrue == Spec => NoStaleWarning
<1>1. IInv /\ [Next]_vars =>
        [\A w \in warnings' : w.sent /\ w \notin warnings =>
           /\ now < w.next /\ <<w.id, w.next>> \notin recorded
           /\ schedules[w.id].next = w.next /\ schedules[w.id].rev = w.rev]_vars
  BY SentFacts
<1> QED BY <1>1, InvariantHolds, PTL DEF Spec, NoStaleWarning

\* RebootScheduler implements OccurrencePromise, for any edits, moved targets,
\* deletions, late scans and restarts of C2: an occurrence is decided once
\* (claimScheduledReboots, recoverReboots), and all those claimed for one
\* restart end when it does and as it does (finishRebootOccurrences).
THEOREM SchedulerKeepsPromise == Spec => KeepsPromise
<1>1. IInv /\ LockHeld /\ [Next]_vars => LockHeld'
  BY NextLockHeld
<1>2. IInv /\ IInv' /\ LockHeld /\ [Next]_vars => [Promise!Next]_(Promise!promise)
  BY NextPromised
<1> QED BY <1>1, <1>2, InitPromised, InvariantHolds, PTL DEF Spec, KeepsPromise, Promise!Spec
=============================================================================
