--------------------------- MODULE DeliveriesProofs ---------------------------
(***************************************************************************)
(* Theorems about Deliveries: that no provider takes a message twice, that *)
(* what a delivery shows of its fate is true, that a pause of Discord is   *)
(* never cut short, and that Deliveries implements MessagePromise, for any *)
(* integrations, numbers of events, attempts, edits and faults.            *)
(***************************************************************************)
EXTENDS Deliveries, TLAPS

-----------------------------------------------------------------------------
(* The inductive invariant                                                 *)

Stores ==
  [queue: [Ids -> Delivery], clock: Nat, pause: 0..MaxWait,
   integrations: [Integrations -> [enabled: BOOLEAN, target: Targets]],
   deleting: BOOLEAN, eligible: SUBSET (1..MaxEvents)]

Answers == [status: {"none", "retry", "failed", "sent", "uncertain"}, wait: 0..MaxWait]
Workers ==
  [phase: {"idle", "work", "send", "answered"}, stuck: SUBSET Ids, due: SUBSET Ids,
   id: Ids \cup {<<0, 0>>}, attempt: 0..MaxAttempts, answer: Answers]

Types ==
  /\ mem \in Stores /\ disk \in Stores /\ poisoned \in BOOLEAN
  /\ worker \in Workers
  /\ events \in 0..MaxEvents
  /\ accepted \in [Ids -> Nat]

\* The file is memory, or ahead of it; a pause in it is no shorter.
Durable == (~poisoned => mem = disk) /\ disk.pause >= mem.pause

\* A delivery that waits may be tried once more.
MayTry(d) == Waiting(d) => d.attempts < MaxAttempts

\* Of n events only deliveries are queued, and taken.
Emitted(s, n) == \A id \in Ids : id[1] > n => s.queue[id].status = "none"
TakenEmitted == \A id \in Ids : id[1] > events => accepted[id] = 0

\* What a delivery shows of its fate; n messages of it were taken.
True(d, n) ==
  /\ Waiting(d) => n = 0
  /\ d.status = "sent" => n = 1
  /\ d.status = "failed" /\ ~d.told => n = 0

\* What others may have made of a delivery whose message is under way.
UnderWay(d) == d.status \in {"none", "sending", "uncertain"} \/ (d.status = "failed" /\ d.told)

\* A store after n events, with what was taken and where the worker is.
Sound(s, n, taken, w) ==
  /\ Emitted(s, n)
  /\ \A id \in Ids : MayTry(s.queue[id]) /\ True(s.queue[id], taken[id])
  /\ w.phase \in {"send", "answered"} => UnderWay(s.queue[w.id])

\* What the worker knows of the message it sends, or has sent.
Sent ==
  worker.phase \in {"send", "answered"} =>
    /\ worker.id \in Ids /\ worker.id[1] <= events
    /\ worker.attempt > 0
    /\ IsDiscord(worker.id) => mem.pause = 0
    /\ worker.phase = "send" => accepted[worker.id] = 0
    /\ worker.phase = "answered" =>
         /\ worker.answer.status # "none"
         /\ worker.answer.status = "sent" => accepted[worker.id] = 1
         /\ worker.answer.status \in {"retry", "failed"} => accepted[worker.id] = 0

IInv ==
  /\ Types /\ Durable /\ Sent /\ TakenEmitted /\ AcceptedOnce
  /\ Sound(mem, events, accepted, worker) /\ Sound(disk, events, accepted, worker)

-----------------------------------------------------------------------------
(* Operators                                                               *)

LEMMA Bounds ==
  /\ Targets # {} /\ Kinds # {} /\ MaxEvents \in Nat /\ MaxAttempts \in Nat \ {0}
  /\ MaxWait \in Nat \ {0} /\ 0 \in 0..MaxWait /\ 0 \in 0..MaxAttempts
BY DeliveriesAssumption

LEMMA NoDeliveryFacts ==
  /\ NoDelivery \in Delivery /\ NoDelivery.status = "none" /\ NoDelivery.attempts = 0
  /\ ~NoDelivery.told /\ NoDelivery.after = 0
BY Bounds DEF NoDelivery, Delivery, Status

LEMMA IdleFacts ==
  /\ Idle \in Workers /\ Idle.phase = "idle"
  /\ None \in Answers
BY Bounds DEF Idle, None, Workers, Answers

\* What every step but the queueing of an event, a claim and a result may do
\* to a delivery d: it stays as it is but for its wait, is cancelled, is
\* forgotten once it is settled, or is found uncertain, for good.
Fades(d, e) ==
  \/ e.status = d.status /\ e.told = d.told /\ e.attempts = d.attempts
  \/ e.status = "none" /\ d.status # "uncertain"
  \/ d.status = "sending" /\ e.status = "uncertain"
  \/ e.status = "failed" /\ (Waiting(d) \/ (d.status = "sending" /\ e.told))

Faded(s, t) == t \in Stores /\ \A id \in Ids : Fades(s.queue[id], t.queue[id])

LEMMA FadesKeeps ==
  ASSUME NEW d, NEW e, Fades(d, e), NEW n
  PROVE  /\ True(d, n) => True(e, n)
         /\ MayTry(d) => MayTry(e)
         /\ UnderWay(d) => UnderWay(e)
         /\ d.status = "none" => e.status = "none"
BY DEF Fades, True, MayTry, UnderWay, Waiting

LEMMA FadedKeeps ==
  ASSUME NEW s, NEW t, NEW n, NEW taken, NEW v, NEW w,
         Sound(s, n, taken, v), Faded(s, t),
         w.phase \in {"send", "answered"} =>
           v.phase \in {"send", "answered"} /\ w.id = v.id /\ w.id \in Ids
  PROVE  Sound(t, n, taken, w)
<1>1. Emitted(t, n)
  BY FadesKeeps DEF Sound, Emitted, Faded
<1>2. \A id \in Ids : MayTry(t.queue[id]) /\ True(t.queue[id], taken[id])
  BY FadesKeeps DEF Sound, Faded
<1>3. w.phase \in {"send", "answered"} => UnderWay(t.queue[w.id])
  BY FadesKeeps DEF Sound, Faded
<1> QED BY <1>1, <1>2, <1>3 DEF Sound

\* A store of which only some fields are known to differ.
LEMMA StoreFacts ==
  ASSUME NEW s \in Stores
  PROVE  /\ s.queue \in [Ids -> Delivery] /\ s.clock \in Nat /\ s.pause \in 0..MaxWait
         /\ s.integrations \in [Integrations -> [enabled: BOOLEAN, target: Targets]]
         /\ s.deleting \in BOOLEAN /\ s.eligible \in SUBSET (1..MaxEvents)
         /\ \A id \in Ids : s.queue[id] \in Delivery
BY DEF Stores

LEMMA SettleFacts ==
  ASSUME NEW s \in Stores, NEW d \in Delivery, NEW status \in {"sent", "failed"}
  PROVE  /\ Settle(s, d, status) \in Delivery
         /\ Settle(s, d, status).status = status
         /\ Settle(s, d, status).told = d.told
         /\ Settle(s, d, status).attempts = d.attempts
         /\ Settle(s, d, status).order = s.clock + 1
<1> DEFINE n == s.clock + 1
<1>1. n \in Nat /\ status \in Status /\ 0 \in Nat
  BY StoreFacts DEF Status
<1> HIDE DEF n
<1>2. [d EXCEPT !.status = status, !.order = n, !.after = 0] \in Delivery
  BY <1>1 DEF Delivery
<1> QED BY <1>1, <1>2 DEF Settle, Delivery, n

LEMMA PrunedFacts ==
  ASSUME NEW s \in Stores
  PROVE  /\ Pruned(s) \in Stores /\ Pruned(s).pause = s.pause
         /\ \A id \in Ids :
              \/ Pruned(s).queue[id] = s.queue[id]
              \/ Settled(s.queue[id]) /\ Pruned(s).queue[id].status = "none"
<1> DEFINE done == {id \in Ids : Settled(s.queue[id])}
           newer(id) == {e \in done : s.queue[e].order > s.queue[id].order}
           q == [id \in Ids |->
                   IF id \in done /\ Cardinality(newer(id)) >= MaxSettled THEN NoDelivery
                   ELSE s.queue[id]]
<1>1. Pruned(s) = [s EXCEPT !.queue = q]
  BY DEF Pruned
<1>2. q \in [Ids -> Delivery]
  <2> HIDE DEF done, newer
  <2> QED BY StoreFacts, NoDeliveryFacts
<1>3. \A id \in Ids : q[id] = s.queue[id] \/ (Settled(s.queue[id]) /\ q[id] = NoDelivery)
  <2> HIDE DEF newer
  <2> QED OBVIOUS
<1> HIDE DEF q
<1>4. [s EXCEPT !.queue = q] \in Stores
  BY <1>2 DEF Stores
<1>5. [s EXCEPT !.queue = q].queue = q /\ [s EXCEPT !.queue = q].pause = s.pause
  BY DEF Stores
<1> QED BY <1>1, <1>3, <1>4, <1>5, NoDeliveryFacts

LEMMA PrunedFades ==
  ASSUME NEW s \in Stores, NEW t, Faded(s, t)
  PROVE  Faded(s, Pruned(t)) /\ Pruned(t).pause = t.pause
BY PrunedFacts DEF Faded, Fades, Settled, Waiting

\* Deliveries that are cancelled wait, or are told to be under way.
LEMMA CancelledFades ==
  ASSUME NEW s \in Stores, NEW ids \in SUBSET Ids, NEW tell \in BOOLEAN,
         \A id \in ids : Waiting(s.queue[id]) \/ (s.queue[id].status = "sending" /\ tell)
  PROVE  Faded(s, Cancelled(s, ids, tell)) /\ Cancelled(s, ids, tell).pause = s.pause
<1> DEFINE c == IF ids = {} THEN s.clock ELSE s.clock + 1
           done(id) == [Settle(s, s.queue[id], "failed") EXCEPT !.told = tell]
           q == [id \in Ids |-> IF id \in ids THEN done(id) ELSE s.queue[id]]
           t == [s EXCEPT !.clock = c, !.queue = q]
<1>1. Cancelled(s, ids, tell) = t
  BY DEF Cancelled
<1>2. c \in Nat
  BY StoreFacts
<1>3. ASSUME NEW id \in Ids
      PROVE  done(id) \in Delivery /\ done(id).status = "failed" /\ done(id).told = tell
  BY SettleFacts, StoreFacts DEF Delivery
<1> HIDE DEF done, c
<1>4. q \in [Ids -> Delivery]
  BY <1>3, StoreFacts
<1>5. \A id \in Ids : Fades(s.queue[id], q[id])
  BY <1>3 DEF Fades
<1> HIDE DEF q
<1>6. t \in Stores /\ t.queue = q /\ t.pause = s.pause
  BY <1>2, <1>4 DEF Stores
<1> QED BY <1>1, <1>5, <1>6 DEF Faded

LEMMA EditedFades ==
  ASSUME NEW s \in Stores, NEW i \in Integrations, NEW input \in [enabled: BOOLEAN, target: Targets]
  PROVE  Faded(s, Edited(s, i, input)) /\ Edited(s, i, input).pause = s.pause
<1> DEFINE new == [s EXCEPT !.integrations[i] = input]
           ids == {id \in Ids : id[2] = i /\ Waiting(s.queue[id]) /\ ~Enables(input, s.queue[id])}
<1>1. new \in Stores /\ new.queue = s.queue /\ new.pause = s.pause
  BY DEF Stores
<1>2. Faded(new, Cancelled(new, ids, FALSE)) /\ Cancelled(new, ids, FALSE).pause = new.pause
  <2>1. \A id \in ids : Waiting(new.queue[id])
    BY <1>1
  <2>2. ids \in SUBSET Ids
    OBVIOUS
  <2> HIDE DEF new, ids
  <2> QED BY <1>1, <2>1, <2>2, CancelledFades
<1>3. Edited(s, i, input) = Pruned(Cancelled(new, ids, FALSE))
  BY DEF Edited
<1> HIDE DEF new, ids
<1>4. Faded(s, Cancelled(new, ids, FALSE))
  BY <1>1, <1>2 DEF Faded
<1> QED BY <1>1, <1>2, <1>3, <1>4, PrunedFades

\* Alerts that wait or are being sent are cancelled at once.
LEMMA ParkedFades ==
  ASSUME NEW s \in Stores
  PROVE  Faded(s, Parked(s)) /\ Parked(s).pause = s.pause
<1> DEFINE new == [s EXCEPT !.eligible = {}]
           ids == {id \in Ids : s.queue[id].kind = "health"
                            /\ (Waiting(s.queue[id]) \/ s.queue[id].status = "sending")}
<1>1. new \in Stores /\ new.queue = s.queue /\ new.pause = s.pause
  BY DEF Stores
<1>2. Faded(new, Cancelled(new, ids, TRUE)) /\ Cancelled(new, ids, TRUE).pause = new.pause
  <2>1. \A id \in ids : Waiting(new.queue[id]) \/ new.queue[id].status = "sending"
    BY <1>1
  <2>2. ids \in SUBSET Ids
    OBVIOUS
  <2> HIDE DEF new, ids
  <2> QED BY <1>1, <2>1, <2>2, CancelledFades
<1>3. Parked(s) = Cancelled(new, ids, TRUE)
  BY DEF Parked
<1> HIDE DEF new, ids
<1> QED BY <1>1, <1>2, <1>3 DEF Faded

LEMMA DeletedFades ==
  ASSUME NEW s \in Stores
  PROVE  Faded(s, Deleted(s)) /\ Deleted(s).pause = s.pause
<1> DEFINE new == [s EXCEPT !.deleting = TRUE, !.eligible = {}]
           ids == {id \in Ids : s.queue[id].kind # "test"
                            /\ (Waiting(s.queue[id]) \/ s.queue[id].status = "sending")}
<1>1. new \in Stores /\ new.queue = s.queue /\ new.pause = s.pause
  BY DEF Stores
<1>2. Faded(new, Cancelled(new, ids, TRUE)) /\ Cancelled(new, ids, TRUE).pause = new.pause
  <2>1. \A id \in ids : Waiting(new.queue[id]) \/ new.queue[id].status = "sending"
    BY <1>1
  <2>2. ids \in SUBSET Ids
    OBVIOUS
  <2> HIDE DEF new, ids
  <2> QED BY <1>1, <2>1, <2>2, CancelledFades
<1>3. Deleted(s) = Cancelled(new, ids, TRUE)
  BY DEF Deleted
<1> HIDE DEF new, ids
<1> QED BY <1>1, <1>2, <1>3 DEF Faded

LEMMA ObsoleteFades ==
  ASSUME NEW s \in Stores, NEW event, NEW cancel \in BOOLEAN
  PROVE  Faded(s, Obsolete(s, event, cancel)) /\ Obsolete(s, event, cancel).pause = s.pause
<1> DEFINE new == [s EXCEPT !.eligible = @ \ {event}]
           ids == {id \in Ids : Waiting(s.queue[id]) /\ ~WarningValid(new, id)}
<1>1. new \in Stores /\ new.queue = s.queue /\ new.pause = s.pause
  BY DEF Stores
<1>2. Faded(new, new)
  BY <1>1 DEF Faded, Fades
<1>3. Faded(new, Cancelled(new, ids, FALSE)) /\ Cancelled(new, ids, FALSE).pause = new.pause
  <2>1. \A id \in ids : Waiting(new.queue[id])
    BY <1>1
  <2>2. ids \in SUBSET Ids
    OBVIOUS
  <2> HIDE DEF new, ids
  <2> QED BY <1>1, <2>1, <2>2, CancelledFades
<1>4. Obsolete(s, event, cancel) = IF cancel THEN Cancelled(new, ids, FALSE) ELSE new
  BY DEF Obsolete
<1> HIDE DEF new, ids
<1> QED BY <1>1, <1>2, <1>3, <1>4 DEF Faded

LEMMA MarkedFades ==
  ASSUME NEW s \in Stores, NEW id \in Ids
  PROVE  Faded(s, MarkedUncertain(s, id)) /\ MarkedUncertain(s, id).pause = s.pause
<1> DEFINE q == [s.queue EXCEPT ![id] = [@ EXCEPT !.status = "uncertain"]]
<1>1. s.queue[id] \in Delivery /\ s.queue \in [Ids -> Delivery]
  BY StoreFacts
<1>2. [s.queue[id] EXCEPT !.status = "uncertain"] \in Delivery
  BY <1>1 DEF Delivery, Status
<1>3. q \in [Ids -> Delivery]
  BY <1>1, <1>2
<1>4. ASSUME s.queue[id].status = "sending" PROVE \A e \in Ids : Fades(s.queue[e], q[e])
  BY <1>1, <1>4 DEF Fades, Delivery
<1>5. MarkedUncertain(s, id) = IF s.queue[id].status = "sending" THEN [s EXCEPT !.queue = q] ELSE s
  BY DEF MarkedUncertain, Stores
<1>6. Faded(s, s)
  BY DEF Faded, Fades
<1> HIDE DEF q
<1>7. [s EXCEPT !.queue = q] \in Stores /\ [s EXCEPT !.queue = q].queue = q
        /\ [s EXCEPT !.queue = q].pause = s.pause
  BY <1>3 DEF Stores
<1> QED BY <1>4, <1>5, <1>6, <1>7 DEF Faded

LEMMA RecoveredFades ==
  ASSUME NEW s \in Stores
  PROVE  Faded(s, Recovered(s)) /\ Recovered(s).pause = s.pause
<1> DEFINE q == [id \in Ids |-> MarkedUncertain(s, id).queue[id]]
           t == [s EXCEPT !.queue = q]
<1>1. \A id \in Ids : q[id] \in Delivery /\ Fades(s.queue[id], q[id])
  BY MarkedFades, StoreFacts DEF Faded
<1>2. q \in [Ids -> Delivery]
  BY <1>1
<1> HIDE DEF q
<1>3. t \in Stores /\ t.queue = q /\ t.pause = s.pause
  BY <1>2 DEF Stores
<1>4. Recovered(s) = Pruned(t)
  BY DEF Recovered, q
<1> HIDE DEF t
<1> QED BY <1>1, <1>3, <1>4, PrunedFades DEF Faded

LEMMA ElapsedFacts ==
  ASSUME NEW n \in Nat
  PROVE  Elapsed(n) \in Nat /\ Elapsed(n) <= n /\ (\A m \in Nat : m <= n => Elapsed(m) <= Elapsed(n))
BY DEF Elapsed

LEMMA LaterFades ==
  ASSUME NEW s \in Stores
  PROVE  Faded(s, Later(s)) /\ Later(s).pause = Elapsed(s.pause)
<1> DEFINE q == [id \in Ids |-> [s.queue[id] EXCEPT !.after = Elapsed(@)]]
           p == Elapsed(s.pause)
           t == [s EXCEPT !.pause = p, !.queue = q]
<1>1. ASSUME NEW id \in Ids PROVE q[id] \in Delivery /\ Fades(s.queue[id], q[id])
  <2>1. s.queue[id] \in Delivery
    BY StoreFacts
  <2>2. Elapsed(s.queue[id].after) \in Nat
    BY <2>1, ElapsedFacts DEF Delivery
  <2> QED BY <2>1, <2>2 DEF Delivery, Fades
<1>2. q \in [Ids -> Delivery]
  BY <1>1
<1>3. p \in 0..MaxWait
  BY StoreFacts, ElapsedFacts, Bounds
<1>4. Later(s) = t
  BY DEF Later
<1> HIDE DEF q, p
<1>5. t \in Stores /\ t.queue = q /\ t.pause = p
  BY <1>2, <1>3 DEF Stores
<1> QED BY <1>1, <1>4, <1>5 DEF Faded, p

-----------------------------------------------------------------------------
(* Steps of the store                                                      *)

LEMMA WriteFacts ==
  ASSUME Types, Durable, NEW next \in Stores, next.pause >= mem.pause,
         Commit(next) \/ Refuse(next)
  PROVE  /\ mem' \in {mem, next} /\ disk' \in {disk, next}
         /\ mem' \in Stores /\ disk' \in Stores /\ poisoned' \in BOOLEAN
         /\ Durable' /\ mem'.pause >= mem.pause /\ disk'.pause >= mem.pause
<1>1. next.pause \in Int /\ mem.pause \in Int /\ disk.pause \in Int
  BY StoreFacts, Bounds DEF Types
<1>2. CASE Commit(next)
  BY <1>1, <1>2 DEF Types, Durable, Commit
<1>3. CASE Refuse(next)
  <2>1. CASE UNCHANGED store
    BY <1>1, <2>1 DEF Types, Durable, store
  <2>2. CASE /\ ~poisoned /\ mem' = mem
             /\ \/ disk' = disk /\ poisoned' = poisoned
                \/ disk' = next /\ poisoned' = TRUE
    BY <1>1, <2>2 DEF Types, Durable
  <2> QED BY <1>3, <2>1, <2>2 DEF Refuse, store
<1> QED BY <1>2, <1>3

\* A write by which deliveries only fade, of the worker or of a request.
LEMMA QuietStep ==
  ASSUME IInv, NEW next, Faded(mem, next), next.pause = mem.pause,
         Commit(next) \/ Refuse(next), UNCHANGED <<events, accepted>>,
         worker' = worker \/ (worker' \in Workers /\ worker'.phase \notin {"send", "answered"})
  PROVE  IInv' /\ mem'.pause = mem.pause /\ disk'.pause >= mem.pause
<1>1. next \in Stores /\ next.pause >= mem.pause
  BY StoreFacts, Bounds DEF Faded, IInv, Types
<1>2. /\ mem' \in {mem, next} /\ disk' \in {disk, next}
      /\ mem' \in Stores /\ disk' \in Stores /\ poisoned' \in BOOLEAN
      /\ Durable' /\ disk'.pause >= mem.pause
  BY <1>1, WriteFacts DEF IInv
<1>3. Types' /\ TakenEmitted' /\ AcceptedOnce' /\ mem'.pause = mem.pause
  BY <1>2 DEF IInv, Types, TakenEmitted, AcceptedOnce
<1>4. Sent'
  BY <1>3 DEF IInv, Sent
<1>5. worker'.phase \in {"send", "answered"} =>
        worker.phase \in {"send", "answered"} /\ worker'.id = worker.id /\ worker'.id \in Ids
  BY DEF IInv, Sent
<1>6. Sound(next, events, accepted, worker')
  BY <1>5, FadedKeeps DEF IInv
<1>7. Sound(mem, events, accepted, worker') /\ Sound(disk, events, accepted, worker')
  <2>1. Faded(mem, mem) /\ Faded(disk, disk)
    BY DEF Faded, Fades, IInv, Types
  <2> QED BY <2>1, <1>5, FadedKeeps DEF IInv
<1>8. Sound(mem', events', accepted', worker') /\ Sound(disk', events', accepted', worker')
  BY <1>2, <1>6, <1>7
<1> QED BY <1>2, <1>3, <1>4, <1>8 DEF IInv

LEMMA QueuedFacts ==
  ASSUME IInv, events < MaxEvents, NEW kind \in Kinds, NEW to \in SUBSET Integrations
  PROVE  LET t == Queued(mem, kind, to)
         IN /\ t \in Stores /\ t.pause = mem.pause
            /\ \A id \in Ids :
                 \/ t.queue[id] = mem.queue[id]
                 \/ /\ id[1] = events + 1
                    /\ t.queue[id].status = "pending" /\ t.queue[id].attempts = 0
<1> DEFINE d(id) == [NoDelivery EXCEPT !.status = "pending", !.kind = kind,
                                       !.target = mem.integrations[id[2]].target]
           q == [id \in Ids |-> IF id[1] = events + 1 /\ id[2] \in to THEN d(id) ELSE mem.queue[id]]
           e == IF kind = "warning" THEN mem.eligible \cup {events + 1} ELSE mem.eligible
           t == [mem EXCEPT !.queue = q, !.eligible = e]
<1>1. mem \in Stores /\ events \in 0..MaxEvents
  BY DEF IInv, Types
<1>2. ASSUME NEW id \in Ids
      PROVE  d(id) \in Delivery /\ d(id).status = "pending" /\ d(id).attempts = 0
  <2>1. mem.integrations[id[2]].target \in Targets
    BY <1>1, StoreFacts DEF Ids
  <2>2. "pending" \in Status
    BY DEF Status
  <2> QED BY <2>1, <2>2, NoDeliveryFacts DEF Delivery
<1> HIDE DEF d
<1>3. q \in [Ids -> Delivery]
  BY <1>1, <1>2, StoreFacts
<1>4. e \in SUBSET (1..MaxEvents)
  BY <1>1, StoreFacts, Bounds
<1>5. \A id \in Ids : q[id] = mem.queue[id] \/ (id[1] = events + 1 /\ q[id] = d(id))
  OBVIOUS
<1>6. Queued(mem, kind, to) = t
  BY DEF Queued, d
<1> HIDE DEF q, e
<1>7. t \in Stores /\ t.queue = q /\ t.pause = mem.pause
  BY <1>1, <1>3, <1>4 DEF Stores
<1> QED BY <1>2, <1>5, <1>6, <1>7

LEMMA EmitStep ==
  ASSUME IInv, Emit
  PROVE  IInv' /\ worker' = worker
<1>1. PICK kind \in Kinds, to \in SUBSET Integrations :
        /\ events < MaxEvents /\ events' = events + 1
        /\ Commit(Queued(mem, kind, to)) \/ Refuse(Queued(mem, kind, to))
        /\ UNCHANGED <<worker, edits, accepted>>
  BY DEF Emit
<1> DEFINE next == Queued(mem, kind, to)
<1>2. /\ next \in Stores /\ next.pause = mem.pause
      /\ \A id \in Ids :
           \/ next.queue[id] = mem.queue[id]
           \/ /\ id[1] = events + 1
              /\ next.queue[id].status = "pending" /\ next.queue[id].attempts = 0
  BY <1>1, QueuedFacts
<1>3. Commit(next) \/ Refuse(next)
  BY <1>1
<1> HIDE DEF next
<1>4. /\ events \in Nat /\ events \in 0..MaxEvents /\ MaxEvents \in Nat /\ MaxAttempts \in Nat \ {0}
      /\ mem \in Stores /\ \A id \in Ids : id[1] \in Nat
  BY Bounds DEF IInv, Types, Ids
<1>5. /\ mem' \in {mem, next} /\ disk' \in {disk, next}
      /\ mem' \in Stores /\ disk' \in Stores /\ poisoned' \in BOOLEAN /\ Durable'
  <2>1. next.pause >= mem.pause
    BY <1>2, <1>4, StoreFacts, Bounds
  <2> QED BY <1>2, <1>3, <2>1, WriteFacts DEF IInv
<1>6. Types' /\ AcceptedOnce'
  BY <1>1, <1>4, <1>5 DEF IInv, Types, AcceptedOnce
<1>7. TakenEmitted'
  BY <1>1, <1>4 DEF IInv, TakenEmitted
<1>8. Sent'
  <2>1. mem'.pause = mem.pause
    BY <1>2, <1>5
  <2> QED BY <1>1, <1>4, <2>1 DEF IInv, Sent
<1>9. Sound(mem, events', accepted, worker) /\ Sound(disk, events', accepted, worker)
  BY <1>1, <1>4 DEF IInv, Sound, Emitted
<1>10. Sound(next, events', accepted, worker)
  <2>1. Emitted(next, events')
    BY <1>1, <1>2, <1>4 DEF IInv, Sound, Emitted
  <2>2. ASSUME NEW id \in Ids PROVE MayTry(next.queue[id]) /\ True(next.queue[id], accepted[id])
    <3>1. CASE next.queue[id] = mem.queue[id]
      BY <3>1 DEF IInv, Sound
    <3>2. CASE id[1] = events + 1 /\ next.queue[id].status = "pending" /\ next.queue[id].attempts = 0
      BY <3>2, <1>4 DEF IInv, TakenEmitted, MayTry, True, Waiting
    <3> QED BY <1>2, <3>1, <3>2
  <2>3. worker.phase \in {"send", "answered"} => UnderWay(next.queue[worker.id])
    BY <1>2, <1>4 DEF IInv, Sound, Sent
  <2> QED BY <2>1, <2>2, <2>3 DEF Sound
<1> QED BY <1>1, <1>5, <1>6, <1>7, <1>8, <1>9, <1>10 DEF IInv

LEMMA RequestFades ==
  ASSUME IInv, Request
  PROVE  \E next : Faded(mem, next) /\ next.pause = mem.pause /\ (Commit(next) \/ Refuse(next))
<1>1. PICK next \in {Edited(mem, i, input) :
                 i \in Integrations, input \in [enabled: BOOLEAN, target: Targets]}
                \cup {Parked(mem)}
                \cup (IF mem.deleting THEN {} ELSE {Deleted(mem)})
                \cup {Obsolete(mem, e, cancel) : e \in mem.eligible, cancel \in BOOLEAN} :
        /\ Commit(next) \/ Refuse(next)
        /\ UNCHANGED <<worker, events, accepted>>
  BY DEF Request
<1>2. mem \in Stores
  BY DEF IInv, Types
<1>3. Faded(mem, next) /\ next.pause = mem.pause
  <2>1. CASE next \in {Edited(mem, i, input) :
                 i \in Integrations, input \in [enabled: BOOLEAN, target: Targets]}
    BY <2>1, <1>2, EditedFades
  <2>2. CASE next = Parked(mem)
    BY <2>2, <1>2, ParkedFades
  <2>3. CASE next = Deleted(mem)
    BY <2>3, <1>2, DeletedFades
  <2>4. CASE next \in {Obsolete(mem, e, cancel) : e \in mem.eligible, cancel \in BOOLEAN}
    BY <2>4, <1>2, ObsoleteFades
  <2> QED BY <1>1, <2>1, <2>2, <2>3, <2>4
<1> QED BY <1>1, <1>3

LEMMA RequestStep ==
  ASSUME IInv, Request
  PROVE  IInv' /\ worker' = worker
<1>1. UNCHANGED <<worker, events, accepted>>
  BY DEF Request
<1> QED BY <1>1, RequestFades, QuietStep

-----------------------------------------------------------------------------
(* Steps of the worker, of time and of the process                         *)

LEMMA Next1Facts ==
  ASSUME NEW w \in Workers, NEW id
  PROVE  Next1(w, id) \in Workers /\ Next1(w, id).phase = "work"
BY Bounds, IdleFacts DEF Next1, Workers

\* A snapshot of the queue is taken, or done with.
LEMMA PassStep ==
  ASSUME IInv, PassBegin \/ PassEnd
  PROVE  IInv' /\ mem'.pause = mem.pause
<1>1. /\ UNCHANGED <<mem, disk, poisoned, events, accepted>>
      /\ worker' \in Workers /\ worker'.phase \notin {"send", "answered"}
  <2>1. CASE PassBegin
    BY <2>1, IdleFacts DEF PassBegin, store, Sending, Due, Idle, Workers
  <2>2. CASE PassEnd
    BY <2>2, IdleFacts DEF PassEnd, store
  <2> QED BY <2>1, <2>2
<1>2. Types' /\ Durable' /\ Sent' /\ TakenEmitted' /\ AcceptedOnce'
  BY <1>1 DEF IInv, Types, Durable, Sent, TakenEmitted, AcceptedOnce
<1>3. Sound(mem', events', accepted', worker') /\ Sound(disk', events', accepted', worker')
  BY <1>1 DEF IInv, Sound
<1> QED BY <1>1, <1>2, <1>3 DEF IInv

LEMMA MarkStep ==
  ASSUME IInv, Mark
  PROVE  IInv' /\ mem'.pause = mem.pause
<1>1. PICK id \in worker.stuck :
        /\ worker.phase = "work"
        /\ \/ Commit(MarkedUncertain(mem, id)) /\ worker' = [worker EXCEPT !.stuck = @ \ {id}]
           \/ Refuse(MarkedUncertain(mem, id)) /\ worker' = Idle
        /\ UNCHANGED <<events, accepted>>
  BY DEF Mark
<1>2. worker \in Workers /\ mem \in Stores /\ id \in Ids
  BY <1>1 DEF IInv, Types, Workers
<1>3. worker' \in Workers /\ worker'.phase \notin {"send", "answered"}
  BY <1>1, <1>2, IdleFacts DEF Workers
<1> QED BY <1>1, <1>2, <1>3, MarkedFades, QuietStep

LEMMA ClaimantFacts ==
  ASSUME NEW w \in Workers, NEW id \in Ids, NEW n \in 1..MaxAttempts
  PROVE  LET v == [w EXCEPT !.phase = "send", !.id = id, !.attempt = n]
         IN v \in Workers /\ v.phase = "send" /\ v.id = id /\ v.attempt > 0
<1> n \in 0..MaxAttempts /\ n > 0
  BY Bounds
<1> QED BY DEF Workers

LEMMA ClaimedFacts ==
  ASSUME NEW s \in Stores, NEW id \in Ids, MayTry(s.queue[id]), Waiting(s.queue[id])
  PROVE  LET t == Claimed(s, id)
         IN /\ t \in Stores /\ t.pause = s.pause
            /\ t.queue[id].status = "sending"
            /\ \A e \in Ids \ {id} : t.queue[e] = s.queue[e]
            /\ s.queue[id].attempts + 1 \in 1..MaxAttempts
<1> DEFINE a == s.queue[id].attempts + 1
           d == [s.queue[id] EXCEPT !.status = "sending", !.attempts = a]
           q == [s.queue EXCEPT ![id] = d]
           t == [s EXCEPT !.queue = q]
<1>1. s.queue[id] \in Delivery /\ s.queue \in [Ids -> Delivery]
  BY StoreFacts
<1>2. a \in 1..MaxAttempts /\ a \in 0..MaxAttempts
  BY <1>1, Bounds DEF MayTry, Delivery
<1>3. Claimed(s, id) = t
  BY DEF Claimed, Stores
<1>4. d \in Delivery /\ d.status = "sending"
  <2> HIDE DEF a
  <2> QED BY <1>1, <1>2 DEF Delivery, Status
<1> HIDE DEF d
<1>5. q \in [Ids -> Delivery] /\ q[id] = d /\ \A e \in Ids \ {id} : q[e] = s.queue[e]
  BY <1>1, <1>4
<1> HIDE DEF q
<1>6. t \in Stores /\ t.queue = q /\ t.pause = s.pause
  BY <1>5 DEF Stores
<1> QED BY <1>2, <1>3, <1>4, <1>5, <1>6

\* A claim: the message of a delivery that waits was not taken.
LEMMA ClaimStep ==
  ASSUME IInv, Claim
  PROVE  IInv' /\ mem'.pause = mem.pause
<1> DEFINE next(id) == IF Allowed(mem, id) THEN Claimed(mem, id)
                       ELSE Pruned(Cancelled(mem, {id}, FALSE))
           passed(id) == ~Waiting(mem.queue[id]) \/ mem.queue[id].after > 0
                           \/ (Allowed(mem, id) /\ Paused(mem, id))
           claimant(id) == [worker EXCEPT !.phase = "send", !.id = id,
                                          !.attempt = mem.queue[id].attempts + 1]
<1>1. PICK id \in worker.due :
        /\ worker.phase = "work"
        /\ IF passed(id) THEN
             \/ worker' = Next1(worker, id) /\ UNCHANGED <<store, faults>>
             \/ Refuse(mem) /\ worker' = Idle
           ELSE
             \/ /\ Commit(next(id))
                /\ worker' = IF Allowed(mem, id) THEN claimant(id) ELSE Next1(worker, id)
             \/ Refuse(next(id)) /\ worker' = Idle
        /\ UNCHANGED <<events, accepted>>
  BY DEF Claim
<1>2. worker \in Workers /\ mem \in Stores /\ disk \in Stores /\ id \in Ids
  BY <1>1 DEF IInv, Types, Workers
<1>3. Faded(mem, mem) /\ Faded(disk, disk)
  BY <1>2 DEF Faded, Fades
<1>4. CASE passed(id)
  <2>1. CASE worker' = Next1(worker, id) /\ UNCHANGED <<store, faults>>
    <3>1. worker' \in Workers /\ worker'.phase = "work"
      BY <2>1, <1>2, Next1Facts
    <3>2. Types' /\ Durable' /\ Sent' /\ TakenEmitted' /\ AcceptedOnce'
      BY <1>1, <2>1, <3>1 DEF IInv, Types, Durable, Sent, TakenEmitted, AcceptedOnce, store
    <3>3. Sound(mem', events', accepted', worker') /\ Sound(disk', events', accepted', worker')
      BY <1>1, <2>1, <3>1 DEF IInv, Sound, store
    <3> QED BY <2>1, <3>2, <3>3 DEF IInv, store
  <2>2. CASE Refuse(mem) /\ worker' = Idle
    BY <2>2, <1>1, <1>3, IdleFacts, QuietStep
  <2> QED BY <1>1, <1>4, <2>1, <2>2
<1>5. CASE ~passed(id) /\ ~Allowed(mem, id)
  <2>1. Waiting(mem.queue[id]) /\ next(id) = Pruned(Cancelled(mem, {id}, FALSE))
    BY <1>5
  <2>2. Faded(mem, Cancelled(mem, {id}, FALSE)) /\ Cancelled(mem, {id}, FALSE).pause = mem.pause
    BY <1>2, <2>1, CancelledFades
  <2>3. Faded(mem, next(id)) /\ next(id).pause = mem.pause
    BY <1>2, <2>1, <2>2, PrunedFades
  <2>4. /\ Commit(next(id)) \/ Refuse(next(id))
        /\ worker' \in Workers /\ worker'.phase \notin {"send", "answered"}
    BY <1>1, <1>2, <1>5, IdleFacts, Next1Facts
  <2> HIDE DEF next
  <2> QED BY <1>1, <2>3, <2>4, QuietStep
<1>6. CASE ~passed(id) /\ Allowed(mem, id)
  <2>1. /\ Waiting(mem.queue[id]) /\ ~Paused(mem, id) /\ next(id) = Claimed(mem, id)
        /\ MayTry(mem.queue[id]) /\ True(mem.queue[id], accepted[id])
    BY <1>2, <1>6 DEF IInv, Sound
  <2> HIDE DEF next
  <2>2. /\ next(id) \in Stores /\ next(id).pause = mem.pause
        /\ next(id).queue[id].status = "sending"
        /\ \A e \in Ids \ {id} : next(id).queue[e] = mem.queue[e]
        /\ mem.queue[id].attempts + 1 \in 1..MaxAttempts
    BY <1>2, <2>1, ClaimedFacts
  <2>3. id[1] <= events /\ accepted[id] = 0
    <3>1. mem.queue[id].status # "none" /\ id[1] \in Int /\ events \in Int
      BY <1>2, <2>1, Bounds DEF Waiting, Ids, IInv, Types
    <3> QED BY <1>2, <2>1, <3>1 DEF IInv, Sound, Emitted, True
  <2>4. \/ Commit(next(id)) /\ worker' = claimant(id)
        \/ Refuse(next(id)) /\ worker' = Idle
    BY <1>1, <1>6
  <2>5. worker' \in Workers /\ (worker'.phase = "send" => Commit(next(id)) /\ worker' = claimant(id))
          /\ worker'.phase # "answered"
          /\ (worker'.phase = "send" => worker'.id = id /\ worker'.attempt > 0)
    <3>1. claimant(id) \in Workers /\ claimant(id).phase = "send" /\ claimant(id).id = id
            /\ claimant(id).attempt > 0
      BY <1>2, <2>2, ClaimantFacts
    <3> HIDE DEF claimant
    <3> QED BY <2>4, <3>1, IdleFacts
  <2> DEFINE t == next(id)
  <2>6. /\ Commit(t) \/ Refuse(t)
        /\ t \in Stores /\ t.pause = mem.pause /\ t.queue[id].status = "sending"
        /\ \A e \in Ids \ {id} : t.queue[e] = mem.queue[e]
    BY <2>2, <2>4
  <2> HIDE DEF t
  <2>7. \A w : w.phase \notin {"send", "answered"} \/ (w.phase = "send" /\ w.id = id) =>
          Sound(t, events, accepted, w)
    <3>1. Emitted(t, events)
      BY <1>2, <2>6, <2>3, Bounds DEF IInv, Sound, Emitted, Ids, Types
    <3>2. \A e \in Ids : MayTry(t.queue[e]) /\ True(t.queue[e], accepted[e])
      BY <2>6 DEF IInv, Sound, MayTry, True, Waiting
    <3> QED BY <2>6, <3>1, <3>2 DEF Sound, UnderWay
  <2>8. Paused(mem, id) \/ ~IsDiscord(id) \/ mem.pause = 0
    BY <1>2, StoreFacts, Bounds DEF Paused
  <2> HIDE DEF claimant
  <2>9. /\ mem' \in {mem, t} /\ disk' \in {disk, t}
         /\ mem' \in Stores /\ disk' \in Stores /\ poisoned' \in BOOLEAN /\ Durable'
    <3>1. t.pause >= mem.pause
      BY <2>6, <1>2, StoreFacts, Bounds
    <3> QED BY <2>6, <3>1, WriteFacts DEF IInv
  <2>10. mem'.pause = mem.pause
    BY <2>6, <2>9
  <2>11. Types' /\ TakenEmitted' /\ AcceptedOnce'
    BY <1>1, <2>5, <2>9 DEF IInv, Types, TakenEmitted, AcceptedOnce
  <2>12. Sent'
    BY <1>1, <1>2, <2>1, <2>3, <2>5, <2>8, <2>10 DEF Sent
  <2>13. Sound(mem', events', accepted', worker') /\ Sound(disk', events', accepted', worker')
    <3>1. CASE worker'.phase = "send"
      BY <3>1, <1>1, <2>5, <2>7 DEF Commit, t
    <3>2. CASE worker'.phase # "send"
      <4>1. Sound(mem, events, accepted, worker') /\ Sound(disk, events, accepted, worker')
        BY <3>2, <2>5, <1>3, FadedKeeps DEF IInv
      <4> QED BY <3>2, <4>1, <1>1, <2>5, <2>7, <2>9
    <3> QED BY <3>1, <3>2
  <2> QED BY <2>9, <2>10, <2>11, <2>12, <2>13 DEF IInv
<1> QED BY <1>4, <1>5, <1>6

\* The answer to the message sent: n of it were taken.
LEMMA SendFacts ==
  ASSUME Send
  PROVE  \E status \in {"retry", "failed", "sent", "uncertain"}, wait \in 0..MaxWait, n \in {0, 1} :
           /\ worker.phase = "send"
           /\ worker' = [worker EXCEPT !.phase = "answered",
                                      !.answer = [status |-> status, wait |-> wait]]
           /\ accepted' = [accepted EXCEPT ![worker.id] = @ + n] \/ (n = 0 /\ accepted' = accepted)
           /\ status = "sent" => n = 1
           /\ status \in {"retry", "failed"} => n = 0
           /\ UNCHANGED <<store, events>>
<1> DEFINE id == worker.id
           answered(status, wait) ==
             [worker EXCEPT !.phase = "answered", !.answer = [status |-> status, wait |-> wait]]
<1>1. 0 \in 0..MaxWait /\ 1..MaxWait \subseteq 0..MaxWait
  BY Bounds
<1>2. worker.phase = "send" /\ UNCHANGED <<store, events>>
  BY DEF Send
<1>3. CASE \E wait \in IF IsDiscord(id) THEN 0..MaxWait ELSE {0} :
             worker' = answered("retry", wait) /\ UNCHANGED accepted
  BY <1>1, <1>2, <1>3
<1>4. CASE worker' = answered("failed", 0) /\ UNCHANGED accepted
  BY <1>1, <1>2, <1>4
<1>5. CASE \E wait \in IF IsDiscord(id) THEN 0..MaxWait ELSE {0} :
             worker' = answered("sent", wait) /\ accepted' = [accepted EXCEPT ![id] = @ + 1]
  BY <1>1, <1>2, <1>5
<1>6. CASE \E wait \in 1..MaxWait : worker' = answered("retry", wait) /\ UNCHANGED accepted
  BY <1>1, <1>2, <1>6
<1>7. CASE \E wait \in IF IsDiscord(id) THEN 0..MaxWait ELSE {0}, n \in {0, 1} :
             worker' = answered("uncertain", wait) /\ accepted' = [accepted EXCEPT ![id] = @ + n]
  BY <1>1, <1>2, <1>7
<1> QED BY <1>3, <1>4, <1>5, <1>6, <1>7 DEF Send, Answered

\* The provider answers: of a message under way, what is shown stays true.
LEMMA SendStep ==
  ASSUME IInv, Send
  PROVE  IInv' /\ mem'.pause = mem.pause
<1> DEFINE id == worker.id
           answered(status, wait) ==
             [worker EXCEPT !.phase = "answered", !.answer = [status |-> status, wait |-> wait]]
<1>1. PICK status \in {"retry", "failed", "sent", "uncertain"}, wait \in 0..MaxWait, n \in {0, 1} :
        /\ worker.phase = "send"
        /\ worker' = answered(status, wait)
        /\ accepted' = [accepted EXCEPT ![id] = @ + n] \/ (n = 0 /\ accepted' = accepted)
        /\ status = "sent" => n = 1
        /\ status \in {"retry", "failed"} => n = 0
        /\ UNCHANGED <<store, events>>
  BY SendFacts
<1>2. /\ worker \in Workers /\ accepted \in [Ids -> Nat] /\ id \in Ids /\ id[1] <= events
      /\ accepted[id] = 0
  BY <1>1 DEF IInv, Types, Sent
<1>3. worker' \in Workers /\ worker'.phase = "answered" /\ worker'.id = id
        /\ worker'.attempt = worker.attempt /\ worker'.answer.status = status
  <2> DEFINE a == [status |-> status, wait |-> wait]
  <2>1. a \in Answers /\ a.status = status
    BY DEF Answers
  <2> HIDE DEF a
  <2>2. worker' = [worker EXCEPT !.phase = "answered", !.answer = a]
    BY <1>1 DEF a
  <2> QED BY <1>2, <2>1, <2>2 DEF Workers
<1>4. accepted' \in [Ids -> Nat] /\ accepted'[id] = n /\ \A e \in Ids \ {id} : accepted'[e] = accepted[e]
  BY <1>1, <1>2
<1> HIDE DEF answered
<1>5. Types' /\ Durable'
  BY <1>1, <1>3, <1>4 DEF IInv, Types, Durable, store
<1>6. AcceptedOnce' /\ TakenEmitted'
  <2>1. AcceptedOnce'
    BY <1>2, <1>4 DEF IInv, AcceptedOnce
  <2>2. TakenEmitted'
    BY <1>1, <1>2, <1>4, Bounds DEF IInv, TakenEmitted, Ids, Types
  <2> QED BY <2>1, <2>2
<1>7. Sent'
  BY <1>1, <1>2, <1>3, <1>4 DEF IInv, Sent, store
<1>8. ASSUME NEW s \in {mem, disk} PROVE Sound(s, events, accepted', worker')
  <2>1. Sound(s, events, accepted, worker) /\ UnderWay(s.queue[id])
    BY <1>1, <1>8 DEF IInv, Sound
  <2>2. ASSUME NEW e \in Ids PROVE True(s.queue[e], accepted'[e])
    BY <1>4, <2>1 DEF Sound, True, UnderWay, Waiting
  <2> QED BY <1>3, <2>1, <2>2 DEF Sound
<1> QED BY <1>1, <1>5, <1>6, <1>7, <1>8 DEF IInv, store

\* A result for a delivery still in sending.
LEMMA ResultFacts ==
  ASSUME NEW s \in Stores, NEW id \in Ids, NEW attempt \in 1..MaxAttempts, NEW answer \in Answers,
         s.queue[id].attempts = attempt, answer.status # "none"
  PROVE  LET t == Result(s, id, attempt, answer)
             d == s.queue[id]
             e == t.queue[id]
         IN /\ t \in Stores
            /\ t.pause = IF answer.wait > 0 /\ IsDiscord(id) THEN answer.wait ELSE s.pause
            /\ \A x \in Ids \ {id} : Fades(s.queue[x], t.queue[x])
            /\ \/ e.status \in {"none", "uncertain"}
               \/ e.status = "sent" /\ answer.status = "sent"
               \/ e.status = "failed" /\ answer.status \in {"retry", "failed"}
               \/ e.status = "retry" /\ answer.status = "retry" /\ e.attempts < MaxAttempts
<1> DEFINE d == s.queue[id]
           late == Larger(2 ^ (attempt - 1), answer.wait)
           retried == [d EXCEPT !.status = "retry", !.after = late]
           new == IF answer.status = "uncertain" THEN [d EXCEPT !.status = "uncertain"]
                  ELSE IF answer.status # "retry" THEN Settle(s, d, answer.status)
                  ELSE IF Exhausted(attempt) THEN Settle(s, d, "failed")
                  ELSE retried
           q == [s.queue EXCEPT ![id] = new]
           c == Larger(s.clock, new.order)
           p == IF answer.wait > 0 /\ IsDiscord(id) THEN answer.wait ELSE s.pause
           u == [s EXCEPT !.queue = q, !.clock = c, !.pause = p]
<1>1. /\ d \in Delivery /\ s.queue \in [Ids -> Delivery] /\ answer.wait \in 0..MaxWait
      /\ answer.status \in {"retry", "failed", "sent", "uncertain"} /\ d.attempts = attempt
  BY StoreFacts DEF Answers
<1>2. late \in Nat
  <2>1. 2 ^ (attempt - 1) \in Int
    BY Bounds
  <2> QED BY <1>1, <2>1, Bounds DEF Larger
<1>3. retried \in Delivery /\ retried.status = "retry" /\ retried.attempts = attempt
  <2> HIDE DEF late, d
  <2> QED BY <1>1, <1>2 DEF Delivery, Status
<1>4. ~Exhausted(attempt) => attempt < MaxAttempts
  BY Bounds DEF Exhausted
<1>5. [d EXCEPT !.status = "uncertain"] \in Delivery /\ [d EXCEPT !.status = "uncertain"].status = "uncertain"
  <2> HIDE DEF d
  <2> QED BY <1>1 DEF Delivery, Status
<1>6. ASSUME NEW status \in {"sent", "failed"}
      PROVE  Settle(s, d, status) \in Delivery /\ Settle(s, d, status).status = status
  BY <1>1, SettleFacts
<1> HIDE DEF retried
<1>7. /\ new \in Delivery
      /\ \/ new.status = "uncertain"
         \/ new.status = "sent" /\ answer.status = "sent"
         \/ new.status = "failed" /\ answer.status \in {"retry", "failed"}
         \/ new.status = "retry" /\ answer.status = "retry" /\ new.attempts < MaxAttempts
  <2> HIDE DEF d
  <2> QED BY <1>1, <1>3, <1>4, <1>5, <1>6
<1>8. Result(s, id, attempt, answer) = Pruned(u)
  BY DEF Result, retried, Stores
<1> HIDE DEF new
<1>9. q \in [Ids -> Delivery] /\ q[id] = new /\ \A x \in Ids \ {id} : q[x] = s.queue[x]
  BY <1>1, <1>7
<1>10. c \in Nat /\ p \in 0..MaxWait
  BY <1>1, <1>7, StoreFacts DEF Larger, Delivery
<1> HIDE DEF q, c, p
<1>11. u \in Stores /\ u.queue = q /\ u.pause = p
  BY <1>9, <1>10 DEF Stores
<1> HIDE DEF u
<1>12. /\ Pruned(u) \in Stores /\ Pruned(u).pause = p
       /\ \A x \in Ids : \/ Pruned(u).queue[x] = q[x]
                         \/ Settled(q[x]) /\ Pruned(u).queue[x].status = "none"
  BY <1>11, PrunedFacts
<1>13. \A x \in Ids \ {id} : Fades(s.queue[x], Pruned(u).queue[x])
  BY <1>9, <1>12 DEF Fades, Settled
<1>14. LET e == Pruned(u).queue[id]
       IN \/ e.status \in {"none", "uncertain"}
          \/ e.status = "sent" /\ answer.status = "sent"
          \/ e.status = "failed" /\ answer.status \in {"retry", "failed"}
          \/ e.status = "retry" /\ answer.status = "retry" /\ e.attempts < MaxAttempts
  BY <1>7, <1>9, <1>12
<1> QED BY <1>8, <1>12, <1>13, <1>14 DEF p

\* A result is written as the provider answered, unless the delivery was
\* cancelled; a pause was over when the claim was made, and is only set.
LEMMA PersistStep ==
  ASSUME IInv, Persist
  PROVE  IInv' /\ mem'.pause >= mem.pause
<1> DEFINE id == worker.id
           next == IF StillSending(mem, id, worker.attempt)
                     THEN Result(mem, id, worker.attempt, worker.answer) ELSE mem
<1>1. /\ worker.phase = "answered"
      /\ \/ Commit(next) /\ worker' = Next1(worker, id)
         \/ Refuse(next) /\ worker' = Idle
      /\ UNCHANGED <<events, accepted>>
  BY DEF Persist
<1>2. /\ worker \in Workers /\ mem \in Stores /\ disk \in Stores /\ id \in Ids /\ id[1] <= events
      /\ worker.attempt \in 1..MaxAttempts /\ worker.answer \in Answers
      /\ worker.answer.status # "none"
      /\ worker.answer.status = "sent" => accepted[id] = 1
      /\ worker.answer.status \in {"retry", "failed"} => accepted[id] = 0
      /\ IsDiscord(id) => mem.pause = 0
  BY <1>1, Bounds DEF IInv, Types, Sent, Workers
<1>3. worker' \in Workers /\ worker'.phase \notin {"send", "answered"} /\ (Commit(next) \/ Refuse(next))
  BY <1>1, <1>2, Next1Facts, IdleFacts
<1>4. Faded(mem, mem) /\ Faded(disk, disk)
  BY <1>2 DEF Faded, Fades
<1>5. CASE ~StillSending(mem, id, worker.attempt)
  <2>1. mem.pause \in Int
    BY <1>2, StoreFacts, Bounds
  <2> QED BY <1>1, <1>3, <1>4, <1>5, <2>1, QuietStep
<1>6. CASE StillSending(mem, id, worker.attempt)
  <2>1. /\ next \in Stores
        /\ next.pause = IF worker.answer.wait > 0 /\ IsDiscord(id) THEN worker.answer.wait ELSE mem.pause
        /\ \A x \in Ids \ {id} : Fades(mem.queue[x], next.queue[x])
        /\ \/ next.queue[id].status \in {"none", "uncertain"}
           \/ next.queue[id].status = "sent" /\ worker.answer.status = "sent"
           \/ next.queue[id].status = "failed" /\ worker.answer.status \in {"retry", "failed"}
           \/ /\ next.queue[id].status = "retry" /\ worker.answer.status = "retry"
              /\ next.queue[id].attempts < MaxAttempts
    <3>1. mem.queue[id].attempts = worker.attempt
      BY <1>6 DEF StillSending
    <3> QED BY <1>2, <1>6, <3>1, ResultFacts
  <2> HIDE DEF next
  <2>2. next.pause >= mem.pause
    BY <1>2, <2>1, StoreFacts, Bounds DEF Answers
  <2>3. /\ mem' \in {mem, next} /\ disk' \in {disk, next}
        /\ mem' \in Stores /\ disk' \in Stores /\ poisoned' \in BOOLEAN
        /\ Durable' /\ mem'.pause >= mem.pause
    BY <1>3, <2>1, <2>2, WriteFacts DEF IInv
  <2>4. Types' /\ TakenEmitted' /\ AcceptedOnce' /\ Sent'
    BY <1>1, <1>3, <2>3 DEF IInv, Types, TakenEmitted, AcceptedOnce, Sent
  <2>5. Sound(mem, events, accepted, worker') /\ Sound(disk, events, accepted, worker')
    BY <1>3, <1>4, FadedKeeps DEF IInv
  <2>6. Sound(next, events, accepted, worker')
    <3>1. Emitted(next, events)
      <4>1. \A x \in Ids \ {id} : mem.queue[x].status = "none" => next.queue[x].status = "none"
        BY <2>1, FadesKeeps
      <4>2. events \in Int /\ id[1] \in Int
        BY <1>2, Bounds DEF Ids, IInv, Types
      <4> QED BY <1>2, <4>1, <4>2 DEF IInv, Sound, Emitted
    <3>2. ASSUME NEW x \in Ids PROVE MayTry(next.queue[x]) /\ True(next.queue[x], accepted[x])
      <4>1. CASE x # id
        BY <4>1, <2>1, FadesKeeps DEF IInv, Sound
      <4>2. CASE x = id
        BY <4>2, <1>2, <2>1 DEF MayTry, True, Waiting
      <4> QED BY <4>1, <4>2
    <3> QED BY <1>3, <3>1, <3>2 DEF Sound
  <2>7. Sound(mem', events', accepted', worker') /\ Sound(disk', events', accepted', worker')
    BY <1>1, <2>3, <2>5, <2>6
  <2> QED BY <2>3, <2>4, <2>7 DEF IInv
<1> QED BY <1>5, <1>6

LEMMA TickStep ==
  ASSUME IInv, Tick
  PROVE  IInv' /\ worker' = worker
<1>1. mem' = Later(mem) /\ disk' = Later(disk) /\ UNCHANGED <<poisoned, worker, events, accepted>>
  BY DEF Tick
<1>2. mem \in Stores /\ disk \in Stores
  BY DEF IInv, Types
<1>3. /\ Faded(mem, Later(mem)) /\ Later(mem).pause = Elapsed(mem.pause)
      /\ Faded(disk, Later(disk)) /\ Later(disk).pause = Elapsed(disk.pause)
  BY <1>2, LaterFades
<1>4. Types' /\ TakenEmitted' /\ AcceptedOnce'
  BY <1>1, <1>3 DEF IInv, Types, TakenEmitted, AcceptedOnce, Faded
<1>5. mem.pause \in Nat /\ disk.pause \in Nat /\ disk.pause >= mem.pause
  BY <1>2, StoreFacts, Bounds DEF IInv, Durable
<1>6. Durable'
  <2>1. Elapsed(disk.pause) >= Elapsed(mem.pause)
    BY <1>5 DEF Elapsed
  <2> QED BY <1>1, <1>3, <2>1 DEF IInv, Durable
<1>7. Sent'
  <2>1. mem.pause = 0 => mem'.pause = 0
    BY <1>1, <1>3 DEF Elapsed
  <2> QED BY <1>1, <2>1 DEF IInv, Sent
<1>8. Sound(Later(mem), events, accepted, worker) /\ Sound(Later(disk), events, accepted, worker)
  BY <1>3, FadedKeeps DEF IInv, Sent
<1> QED BY <1>1, <1>4, <1>6, <1>7, <1>8 DEF IInv

\* After a crash either file may be found, and is recovered.
LEMMA RestartedStep ==
  ASSUME IInv, Restarted
  PROVE  IInv' /\ mem'.pause >= mem.pause
<1>1. PICK file \in {mem, disk} : mem' = Recovered(file) /\ disk' = Recovered(file)
  BY DEF Restarted
<1>2. poisoned' = FALSE /\ worker' = Idle /\ UNCHANGED <<events, accepted>>
  BY DEF Restarted
<1>3. file \in Stores /\ file.pause >= mem.pause /\ Sound(file, events, accepted, worker)
  BY <1>1, StoreFacts, Bounds DEF IInv, Types, Durable
<1>4. Faded(file, Recovered(file)) /\ Recovered(file).pause = file.pause
  BY <1>3, RecoveredFades
<1>5. Recovered(file) \in Stores /\ Recovered(file).pause \in Int
  BY <1>4, StoreFacts, Bounds DEF Faded
<1>6. Types' /\ Durable' /\ Sent' /\ TakenEmitted' /\ AcceptedOnce'
  <2>1. Types'
    BY <1>1, <1>2, <1>5, IdleFacts DEF IInv, Types
  <2>2. Durable'
    BY <1>1, <1>2, <1>5 DEF Durable
  <2>3. Sent'
    BY <1>2, IdleFacts DEF Sent
  <2>4. TakenEmitted' /\ AcceptedOnce'
    BY <1>2 DEF IInv, TakenEmitted, AcceptedOnce
  <2> QED BY <2>1, <2>2, <2>3, <2>4
<1>7. Sound(Recovered(file), events, accepted, Idle)
  BY <1>3, <1>4, IdleFacts, FadedKeeps
<1> QED BY <1>1, <1>2, <1>3, <1>4, <1>6, <1>7 DEF IInv

-----------------------------------------------------------------------------
(* The theorems                                                            *)

LEMMA InitIInv == Init => IInv
<1> SUFFICES ASSUME Init PROVE IInv
  OBVIOUS
<1>1. FirstState \in Stores /\ FirstState.pause = 0
        /\ \A id \in Ids : FirstState.queue[id] = NoDelivery
  <2>1. (CHOOSE t \in Targets : TRUE) \in Targets
    BY Bounds
  <2> DEFINE q == [id \in Ids |-> NoDelivery]
             i == [x \in Integrations |->
                     [enabled |-> TRUE, target |-> CHOOSE t \in Targets : TRUE]]
  <2>2. q \in [Ids -> Delivery] /\ \A id \in Ids : q[id] = NoDelivery
    BY NoDeliveryFacts
  <2>3. i \in [Integrations -> [enabled: BOOLEAN, target: Targets]]
    BY <2>1
  <2>4. FirstState = [queue |-> q, clock |-> 0, pause |-> 0, integrations |-> i,
                      deleting |-> FALSE, eligible |-> {}]
    BY DEF FirstState
  <2> HIDE DEF q, i
  <2> QED BY <2>2, <2>3, <2>4, Bounds DEF Stores
<1>2. Types /\ Durable
  <2>1. events \in 0..MaxEvents /\ accepted \in [Ids -> Nat]
    BY Bounds DEF Init
  <2>2. poisoned = FALSE /\ mem = FirstState /\ disk = FirstState /\ worker = Idle
    BY DEF Init
  <2>3. Types
    BY <1>1, <2>1, <2>2, IdleFacts DEF Types
  <2>4. Durable
    BY <1>1, <2>2 DEF Durable
  <2> QED BY <2>3, <2>4
<1>3. Sent /\ TakenEmitted /\ AcceptedOnce
  BY IdleFacts DEF Init, Sent, TakenEmitted, AcceptedOnce
<1>4. Sound(FirstState, 0, accepted, Idle)
  BY <1>1, NoDeliveryFacts, IdleFacts DEF Init, Sound, Emitted, MayTry, True, Waiting
<1> QED BY <1>2, <1>3, <1>4 DEF Init, IInv

LEMMA StutterStep ==
  ASSUME IInv, UNCHANGED vars
  PROVE  IInv'
BY DEF IInv, Types, Durable, Sent, TakenEmitted, AcceptedOnce, vars, store

LEMMA NextIInv == IInv /\ [Next]_vars => IInv'
<1> SUFFICES ASSUME IInv, [Next]_vars PROVE IInv'
  OBVIOUS
<1>1. CASE Worker
  BY <1>1, PassStep, MarkStep, ClaimStep, SendStep, PersistStep DEF Worker
<1>2. CASE Emit
  BY <1>2, EmitStep
<1>3. CASE Request
  BY <1>3, RequestStep
<1>4. CASE Tick
  BY <1>4, TickStep
<1>5. CASE Crash \/ Relaunch
  BY <1>5, RestartedStep DEF Crash, Relaunch
<1>6. CASE UNCHANGED vars
  BY <1>6, StutterStep
<1> QED BY <1>1, <1>2, <1>3, <1>4, <1>5, <1>6 DEF Next

\* The invariant of every reachable state.
THEOREM InvariantHolds == Spec => []IInv
BY InitIInv, NextIInv, PTL DEF Spec

\* The types of the store, of its file and of the worker.
THEOREM TypeCorrect == Spec => []TypeOK
<1>1. IInv => TypeOK
  <2> SUFFICES ASSUME IInv PROVE TypeOK
    OBVIOUS
  <2>1. \A s \in {mem, disk} : s \in Stores
    BY DEF IInv, Types
  <2>2. worker \in Workers /\ poisoned \in BOOLEAN
    BY DEF IInv, Types
  <2> QED BY <2>1, <2>2, StoreFacts DEF TypeOK, Workers, IInv, Sent
<1> QED BY <1>1, InvariantHolds, PTL

\* No provider takes the message of a delivery twice (processDeliveries,
\* recoverAlerts), whatever crashes, failed writes, cancellations and retries
\* do.
THEOREM NoMessageTwice == Spec => []AcceptedOnce
BY InvariantHolds, PTL DEF IInv

\* What the list of deliveries shows of a message is what became of it, in
\* memory and in the file.
THEOREM StatusTold == Spec => []StatusIsTrue
<1>1. IInv => StatusIsTrue
  BY DEF IInv, Sound, True, StatusIsTrue
<1> QED BY <1>1, InvariantHolds, PTL

\* The worker never shortens the pause Discord asked for: it claims nothing
\* of Discord's before it is over.
THEOREM PauseKept == Spec => PauseNeverShortened
<1>1. IInv /\ [Next]_vars => [worker' # worker => mem'.pause >= mem.pause]_vars
  <2> SUFFICES ASSUME IInv, [Next]_vars, ~UNCHANGED vars, worker' # worker
               PROVE  mem'.pause >= mem.pause
    OBVIOUS
  <2>1. mem.pause \in Int
    BY StoreFacts, Bounds DEF IInv, Types
  <2>2. CASE Worker
    BY <2>1, <2>2, PassStep, MarkStep, ClaimStep, SendStep, PersistStep DEF Worker
  <2>3. CASE Emit \/ Request \/ Tick
    BY <2>3, EmitStep, RequestStep, TickStep
  <2>4. CASE Crash \/ Relaunch
    BY <2>4, RestartedStep DEF Crash, Relaunch
  <2> QED BY <2>2, <2>3, <2>4 DEF Next
<1> QED BY <1>1, InvariantHolds, PTL DEF Spec, PauseNeverShortened

-----------------------------------------------------------------------------
(* The promise.  The mapping reads the list off the memory of the store;   *)
(* the file is ahead of it by the write that poisoned the store.           *)

\* One delivery becomes another, without being fetched by the worker.
Turns(d, e) == Shown(e) \in Promise!Becomes(Shown(d))

Fetched(d, e) == Shown(d) = "waiting" /\ Shown(e) = "sending"

Ahead == \A id \in Ids : Turns(mem.queue[id], disk.queue[id])
                           \/ Fetched(mem.queue[id], disk.queue[id])

\* The message under way, as the promise names it.
Carried(w) == IF w.phase = "send" THEN {w.id} ELSE {}

LEMMA TurnsFacts ==
  ASSUME NEW d \in Delivery, NEW e \in Delivery
  PROVE  /\ Turns(d, d)
         /\ Fades(d, e) => Turns(d, e)
         /\ d.status = "sending" => Turns(d, e)
         /\ d.status = "none" /\ e.status = "pending" => Turns(d, e)
         /\ Shown(d) = Shown(e) => Turns(d, e)
<1>1. Shown(d) \in {"none", "waiting", "sending", "sent", "failed", "stopped", "uncertain"}
  BY DEF Shown, Waiting, Delivery, Status
<1>2. Turns(d, d) /\ (Shown(d) = Shown(e) => Turns(d, e))
  BY <1>1 DEF Turns, Promise!Becomes
<1>3. Fades(d, e) => Turns(d, e)
  <2>1. CASE e.status = d.status /\ e.told = d.told
    BY <1>2, <2>1 DEF Shown, Waiting
  <2>2. CASE e.status = "none" /\ d.status # "uncertain"
    BY <1>1, <2>2 DEF Turns, Shown, Waiting, Promise!Becomes
  <2>3. CASE d.status = "sending" /\ e.status = "uncertain"
    BY <2>3 DEF Turns, Shown, Waiting, Promise!Becomes
  <2>4. CASE e.status = "failed" /\ (Waiting(d) \/ (d.status = "sending" /\ e.told))
    BY <2>4 DEF Turns, Shown, Waiting, Promise!Becomes
  <2> QED BY <2>1, <2>2, <2>3, <2>4 DEF Fades
<1>4. d.status = "sending" => Turns(d, e)
  <2>1. Shown(e) \in {"none", "waiting", "sending", "sent", "failed", "stopped", "uncertain"}
    BY DEF Shown, Waiting, Delivery, Status
  <2> QED BY <2>1 DEF Turns, Shown, Waiting, Promise!Becomes
<1>5. d.status = "none" /\ e.status = "pending" => Turns(d, e)
  BY DEF Turns, Shown, Waiting, Promise!Becomes
<1> QED BY <1>2, <1>3, <1>4, <1>5

LEMMA FadedTurns ==
  ASSUME NEW s \in Stores, NEW t, Faded(s, t)
  PROVE  \A id \in Ids : Turns(s.queue[id], t.queue[id])
BY TurnsFacts, StoreFacts DEF Faded

\* What a recovery makes of a delivery that the file held ahead of memory.
LEMMA RecoveredShows ==
  ASSUME NEW s \in Stores, NEW id \in Ids
  PROVE  LET b == s.queue[id]
             c == Recovered(s).queue[id]
         IN \/ b.status # "sending" /\ c = b
            \/ Settled(b) /\ c.status = "none"
            \/ b.status = "sending" /\ c.status = "uncertain"
<1> DEFINE q == [e \in Ids |-> MarkedUncertain(s, e).queue[e]]
           t == [s EXCEPT !.queue = q]
<1>1. \A e \in Ids : MarkedUncertain(s, e).queue[e] \in Delivery
  BY MarkedFades, StoreFacts DEF Faded
<1>2. q \in [Ids -> Delivery]
  BY <1>1
<1>3. q[id] = IF s.queue[id].status = "sending"
                THEN [s.queue[id] EXCEPT !.status = "uncertain"] ELSE s.queue[id]
  BY StoreFacts DEF MarkedUncertain, Stores
<1>4. [s.queue[id] EXCEPT !.status = "uncertain"].status = "uncertain"
  BY StoreFacts DEF Delivery
<1> HIDE DEF q
<1>5. t \in Stores /\ t.queue = q
  BY <1>2 DEF Stores
<1>6. Recovered(s) = Pruned(t)
  BY DEF Recovered, q
<1> HIDE DEF t
<1>7. \/ Recovered(s).queue[id] = q[id]
      \/ Settled(q[id]) /\ Recovered(s).queue[id].status = "none"
  BY <1>5, <1>6, PrunedFacts
<1> QED BY <1>3, <1>4, <1>7 DEF Settled

LEMMA RecoveredTurns ==
  ASSUME NEW s \in Stores, NEW t \in Stores, NEW id \in Ids,
         Turns(s.queue[id], t.queue[id]) \/ Fetched(s.queue[id], t.queue[id])
  PROVE  Turns(s.queue[id], Recovered(t).queue[id])
<1> DEFINE a == s.queue[id]
           b == t.queue[id]
           c == Recovered(t).queue[id]
<1>1. a \in Delivery /\ b \in Delivery
  BY StoreFacts
<1>2. Shown(a) \in {"none", "waiting", "sending", "sent", "failed", "stopped", "uncertain"}
  BY <1>1 DEF Shown, Waiting, Delivery, Status
<1>3. \/ b.status # "sending" /\ c = b
      \/ Settled(b) /\ c.status = "none"
      \/ b.status = "sending" /\ c.status = "uncertain"
  BY RecoveredShows
<1> HIDE DEF a, b, c
<1>4. Turns(a, b) \/ Fetched(a, b)
  BY DEF a, b
<1>5. ASSUME b.status # "sending" /\ c = b PROVE Turns(a, c)
  BY <1>4, <1>5 DEF Fetched, Shown, Waiting
<1>6. ASSUME Settled(b) /\ c.status = "none" PROVE Turns(a, c)
  <2>1. Shown(c) = "none" /\ Shown(b) \in {"sent", "failed", "stopped"}
    BY <1>6 DEF Settled, Shown, Waiting
  <2>2. Shown(a) \in {"waiting", "sending", "sent", "failed", "stopped"}
    BY <1>2, <1>4, <2>1 DEF Turns, Fetched, Promise!Becomes
  <2> QED BY <2>1, <2>2 DEF Turns, Promise!Becomes
<1>7. ASSUME b.status = "sending" /\ c.status = "uncertain" PROVE Turns(a, c)
  <2>1. Shown(c) = "uncertain" /\ Shown(b) = "sending"
    BY <1>7 DEF Shown, Waiting
  <2>2. Shown(a) \in {"waiting", "sending"}
    BY <1>2, <1>4, <2>1 DEF Turns, Fetched, Promise!Becomes
  <2> QED BY <2>1, <2>2 DEF Turns, Promise!Becomes
<1>8. Turns(a, c)
  BY <1>3, <1>5, <1>6, <1>7
<1> QED BY <1>8 DEF a, c

\* What is shown is true, of the message under way as well.
LEMMA ShownIsTrue ==
  ASSUME NEW s \in Stores, NEW n, NEW taken, NEW w, Sound(s, n, taken, w), NEW id \in Ids
  PROVE  Promise!True(Shown(s.queue[id]), taken[id], id \in Carried(w))
<1> DEFINE d == s.queue[id]
<1>0. d \in Delivery
  BY StoreFacts
<1>1. True(d, taken[id]) /\ (id \in Carried(w) => UnderWay(d))
  BY DEF Sound, Carried
<1>2. /\ Shown(d) \in {"waiting", "failed"} => taken[id] = 0 /\ id \notin Carried(w)
      /\ Shown(d) = "sent" => taken[id] = 1 /\ id \notin Carried(w)
  <2> HIDE DEF d
  <2>1. Shown(d) = "waiting" => Waiting(d)
    BY <1>0 DEF Shown, Waiting, Delivery, Status
  <2>2. Shown(d) = "failed" => d.status = "failed" /\ ~d.told
    BY DEF Shown
  <2>3. Shown(d) = "sent" => d.status = "sent"
    BY DEF Shown
  <2>4. Shown(d) \in {"waiting", "failed", "sent"} => ~UnderWay(d)
    BY <2>1, <2>2, <2>3 DEF UnderWay, Waiting
  <2> QED BY <1>1, <2>1, <2>2, <2>3, <2>4 DEF True
<1> HIDE DEF d
<1>3. Promise!True(Shown(d), taken[id], id \in Carried(w))
  BY <1>2 DEF Promise!True
<1> QED BY <1>3 DEF d

\* Whatever a step does that leaves the messages alone is an update, if it
\* turns each delivery and lets go of the message under way, or of none.
LEMMA UpdatePromised ==
  ASSUME IInv', accepted' = accepted,
         \A id \in Ids : Turns(mem.queue[id], mem'.queue[id]),
         worker' = worker \/ worker'.phase # "send"
  PROVE  Promise!Update
<1>1. Carried(worker') = Carried(worker) \/ Carried(worker') = {}
  BY DEF Carried
<1>2. \A id \in Ids : Promise!True(Shown(mem'.queue[id]), accepted[id], id \in Carried(worker'))
  BY ShownIsTrue DEF IInv, Types
<1> QED BY <1>1, <1>2 DEF Promise!Update, Turns, Carried

\* A write that turns deliveries, of memory and of the file.
LEMMA WriteTurns ==
  ASSUME IInv, Ahead, NEW next \in Stores,
         \A id \in Ids : Turns(mem.queue[id], next.queue[id]),
         Commit(next) \/ Refuse(next)
  PROVE  Ahead' /\ \A id \in Ids : Turns(mem.queue[id], mem'.queue[id])
<1>1. \A s \in {mem, disk, next}, id \in Ids : Turns(s.queue[id], s.queue[id])
  BY StoreFacts, TurnsFacts DEF IInv, Types
<1>2. CASE Commit(next)
  BY <1>1, <1>2 DEF Commit, Ahead
<1>3. CASE Refuse(next)
  <2>1. CASE UNCHANGED store
    BY <1>1, <2>1 DEF Ahead, store
  <2>2. CASE mem' = mem /\ (disk' = disk \/ disk' = next)
    BY <1>1, <2>2 DEF Ahead
  <2> QED BY <1>3, <2>1, <2>2 DEF Refuse, store
<1> QED BY <1>2, <1>3

\* A write of a step that fetches nothing.
LEMMA QuietPromised ==
  ASSUME IInv, IInv', Ahead, NEW next \in Stores,
         \A id \in Ids : Turns(mem.queue[id], next.queue[id]),
         Commit(next) \/ Refuse(next), accepted' = accepted,
         worker' = worker \/ worker'.phase # "send"
  PROVE  Ahead' /\ Promise!Update
BY WriteTurns, UpdatePromised

LEMMA EmitPromised ==
  ASSUME IInv, IInv', Ahead, Emit
  PROVE  Ahead' /\ Promise!Update
<1>1. PICK kind \in Kinds, to \in SUBSET Integrations :
        /\ events < MaxEvents
        /\ Commit(Queued(mem, kind, to)) \/ Refuse(Queued(mem, kind, to))
        /\ UNCHANGED <<worker, accepted>>
  BY DEF Emit
<1> DEFINE next == Queued(mem, kind, to)
<1>2. /\ next \in Stores
      /\ \A id \in Ids : \/ next.queue[id] = mem.queue[id]
                         \/ id[1] = events + 1 /\ next.queue[id].status = "pending"
  BY <1>1, QueuedFacts
<1>3. Commit(next) \/ Refuse(next)
  BY <1>1
<1> HIDE DEF next
<1>4. ASSUME NEW id \in Ids PROVE Turns(mem.queue[id], next.queue[id])
  <2>1. mem.queue[id] \in Delivery /\ next.queue[id] \in Delivery
    BY <1>2, StoreFacts DEF IInv, Types
  <2>2. id[1] = events + 1 => mem.queue[id].status = "none"
    BY Bounds DEF IInv, Sound, Emitted, Types
  <2> QED BY <1>2, <2>1, <2>2, TurnsFacts
<1> QED BY <1>1, <1>2, <1>3, <1>4, QuietPromised

LEMMA RequestPromised ==
  ASSUME IInv, IInv', Ahead, Request
  PROVE  Ahead' /\ Promise!Update
<1>1. PICK next : Faded(mem, next) /\ (Commit(next) \/ Refuse(next))
  BY RequestFades
<1>2. UNCHANGED <<worker, accepted>>
  BY DEF Request
<1>3. next \in Stores /\ \A id \in Ids : Turns(mem.queue[id], next.queue[id])
  BY <1>1, FadedTurns DEF Faded, IInv, Types
<1> QED BY <1>1, <1>2, <1>3, QuietPromised

LEMMA PassPromised ==
  ASSUME IInv, IInv', Ahead, PassBegin \/ PassEnd
  PROVE  Ahead' /\ Promise!Update
<1>1. UNCHANGED <<mem, disk, accepted>> /\ worker'.phase # "send"
  BY IdleFacts DEF PassBegin, PassEnd, store, Idle
<1>2. \A id \in Ids : Turns(mem.queue[id], mem.queue[id])
  BY StoreFacts, TurnsFacts DEF IInv, Types
<1> QED BY <1>1, <1>2, UpdatePromised DEF Ahead

LEMMA MarkPromised ==
  ASSUME IInv, IInv', Ahead, Mark
  PROVE  Ahead' /\ Promise!Update
<1>1. PICK id \in worker.stuck :
        /\ worker.phase = "work"
        /\ \/ Commit(MarkedUncertain(mem, id)) /\ worker' = [worker EXCEPT !.stuck = @ \ {id}]
           \/ Refuse(MarkedUncertain(mem, id)) /\ worker' = Idle
        /\ UNCHANGED accepted
  BY DEF Mark
<1>2. worker \in Workers /\ mem \in Stores /\ id \in Ids
  BY <1>1 DEF IInv, Types, Workers
<1>3. worker'.phase # "send"
  BY <1>1, <1>2, IdleFacts DEF Workers
<1>4. /\ MarkedUncertain(mem, id) \in Stores
      /\ \A e \in Ids : Turns(mem.queue[e], MarkedUncertain(mem, id).queue[e])
  BY <1>2, MarkedFades, FadedTurns DEF Faded
<1> QED BY <1>1, <1>3, <1>4, QuietPromised

\* A claim that is written fetches the message; one that is not may leave the
\* file ahead by it.
LEMMA ClaimPromised ==
  ASSUME IInv, IInv', Ahead, Claim
  PROVE  Ahead' /\ Promise!Next
<1> DEFINE next(id) == IF Allowed(mem, id) THEN Claimed(mem, id)
                       ELSE Pruned(Cancelled(mem, {id}, FALSE))
           passed(id) == ~Waiting(mem.queue[id]) \/ mem.queue[id].after > 0
                           \/ (Allowed(mem, id) /\ Paused(mem, id))
           claimant(id) == [worker EXCEPT !.phase = "send", !.id = id,
                                          !.attempt = mem.queue[id].attempts + 1]
<1>1. PICK id \in worker.due :
        /\ worker.phase = "work"
        /\ IF passed(id) THEN
             \/ worker' = Next1(worker, id) /\ UNCHANGED <<store, faults>>
             \/ Refuse(mem) /\ worker' = Idle
           ELSE
             \/ /\ Commit(next(id))
                /\ worker' = IF Allowed(mem, id) THEN claimant(id) ELSE Next1(worker, id)
             \/ Refuse(next(id)) /\ worker' = Idle
        /\ UNCHANGED <<events, accepted>>
  BY DEF Claim
<1>2. worker \in Workers /\ mem \in Stores /\ disk \in Stores /\ id \in Ids
  BY <1>1 DEF IInv, Types, Workers
<1>3. \A s \in {mem, disk}, e \in Ids : Turns(s.queue[e], s.queue[e])
  BY <1>2, StoreFacts, TurnsFacts
<1>4. Idle.phase # "send" /\ Next1(worker, id).phase # "send"
  BY <1>2, IdleFacts, Next1Facts
<1>5. CASE passed(id)
  <2>1. CASE worker' = Next1(worker, id) /\ UNCHANGED <<store, faults>>
    <3>1. Ahead' /\ \A e \in Ids : Turns(mem.queue[e], mem'.queue[e])
      BY <2>1, <1>3 DEF Ahead, store
    <3> QED BY <3>1, <2>1, <1>1, <1>4, UpdatePromised DEF Promise!Next
  <2>2. CASE Refuse(mem) /\ worker' = Idle
    BY <2>2, <1>1, <1>2, <1>3, <1>4, QuietPromised DEF Promise!Next
  <2> QED BY <1>1, <1>5, <2>1, <2>2
<1>6. CASE ~passed(id) /\ ~Allowed(mem, id)
  <2>1. Waiting(mem.queue[id]) /\ next(id) = Pruned(Cancelled(mem, {id}, FALSE))
    BY <1>6
  <2>2. Faded(mem, next(id))
    BY <1>2, <2>1, CancelledFades, PrunedFades
  <2>3. (Commit(next(id)) \/ Refuse(next(id))) /\ worker'.phase # "send"
    BY <1>1, <1>4, <1>6
  <2> HIDE DEF next
  <2>4. next(id) \in Stores /\ \A e \in Ids : Turns(mem.queue[e], next(id).queue[e])
    BY <1>2, <2>2, FadedTurns DEF Faded
  <2> QED BY <1>1, <2>3, <2>4, QuietPromised DEF Promise!Next
<1>7. CASE ~passed(id) /\ Allowed(mem, id)
  <2>1. Waiting(mem.queue[id]) /\ next(id) = Claimed(mem, id) /\ MayTry(mem.queue[id])
    BY <1>2, <1>7 DEF IInv, Sound
  <2> DEFINE t == next(id)
  <2>2. \/ Commit(t) /\ worker' = claimant(id)
        \/ Refuse(t) /\ worker' = Idle
    BY <1>1, <1>7
  <2>3. /\ t \in Stores /\ t.queue[id].status = "sending"
        /\ \A e \in Ids \ {id} : t.queue[e] = mem.queue[e]
    <3> HIDE DEF next
    <3> QED BY <1>2, <2>1, ClaimedFacts
  <2> HIDE DEF t
  <2>4. Shown(mem.queue[id]) = "waiting" /\ Shown(t.queue[id]) = "sending"
    BY <2>1, <2>3 DEF Shown, Waiting
  <2>5. \A e \in Ids : Turns(mem.queue[e], t.queue[e]) \/ Fetched(mem.queue[e], t.queue[e])
    BY <1>3, <2>3, <2>4 DEF Fetched
  <2>6. CASE Commit(t) /\ worker' = claimant(id)
    <3>1. Ahead'
      <4>1. \A e \in Ids : Turns(t.queue[e], t.queue[e])
        BY <2>3, StoreFacts, TurnsFacts
      <4> QED BY <2>6, <4>1 DEF Commit, Ahead
    <3>2. mem' = t /\ worker'.phase = "send" /\ worker'.id = id
      BY <2>6, <1>2 DEF Commit, Workers
    <3>3. [e \in Ids |-> Shown(mem'.queue[e])]
            = [[e \in Ids |-> Shown(mem.queue[e])] EXCEPT ![id] = "sending"]
      BY <2>3, <2>4, <3>2
    <3>4. Promise!Fetch(id)
      BY <1>1, <1>2, <2>4, <3>2, <3>3 DEF Promise!Fetch
    <3> QED BY <1>2, <3>1, <3>4 DEF Promise!Next
  <2>7. CASE Refuse(t) /\ worker' = Idle
    <3>1. mem' = mem /\ (disk' = disk \/ (~poisoned /\ disk' = t))
      BY <2>7 DEF Refuse, store
    <3>2. Ahead'
      BY <2>5, <3>1 DEF Ahead
    <3> QED BY <1>1, <1>3, <1>4, <2>7, <3>1, <3>2, UpdatePromised DEF Promise!Next
  <2> QED BY <2>2, <2>6, <2>7
<1> QED BY <1>5, <1>6, <1>7

\* What the provider takes is the message under way.
LEMMA SendPromised ==
  ASSUME IInv, IInv', Ahead, Send
  PROVE  Ahead' /\ Promise!Next
<1> DEFINE id == worker.id
<1>1. PICK status \in {"retry", "failed", "sent", "uncertain"}, wait \in 0..MaxWait, n \in {0, 1} :
        /\ worker.phase = "send"
        /\ worker' = [worker EXCEPT !.phase = "answered",
                                    !.answer = [status |-> status, wait |-> wait]]
        /\ accepted' = [accepted EXCEPT ![id] = @ + n] \/ (n = 0 /\ accepted' = accepted)
        /\ UNCHANGED <<store, events>>
  BY SendFacts
<1>2. worker \in Workers /\ accepted \in [Ids -> Nat] /\ id \in Ids
  BY <1>1 DEF IInv, Types, Sent
<1>3. mem' = mem /\ Ahead' /\ worker'.phase # "send"
  BY <1>1, <1>2 DEF Ahead, store, Workers
<1>4. CASE n = 0
  <2>1. accepted' = accepted
    BY <1>1, <1>2, <1>4
  <2>2. \A e \in Ids : Turns(mem.queue[e], mem.queue[e])
    BY StoreFacts, TurnsFacts DEF IInv, Types
  <2> QED BY <1>3, <2>1, <2>2, UpdatePromised DEF Promise!Next
<1>5. CASE n = 1
  <2>1. Promise!Take(id)
    BY <1>1, <1>3, <1>5 DEF Promise!Take
  <2> QED BY <1>2, <1>3, <2>1 DEF Promise!Next
<1> QED BY <1>1, <1>4, <1>5

LEMMA PersistPromised ==
  ASSUME IInv, IInv', Ahead, Persist
  PROVE  Ahead' /\ Promise!Update
<1> DEFINE id == worker.id
           next == IF StillSending(mem, id, worker.attempt)
                     THEN Result(mem, id, worker.attempt, worker.answer) ELSE mem
<1>1. /\ worker.phase = "answered"
      /\ \/ Commit(next) /\ worker' = Next1(worker, id)
         \/ Refuse(next) /\ worker' = Idle
      /\ UNCHANGED <<events, accepted>>
  BY DEF Persist
<1>2. /\ worker \in Workers /\ mem \in Stores /\ id \in Ids
      /\ worker.attempt \in 1..MaxAttempts /\ worker.answer \in Answers
      /\ worker.answer.status # "none"
  BY <1>1, Bounds DEF IInv, Types, Sent, Workers
<1>3. worker'.phase # "send" /\ (Commit(next) \/ Refuse(next))
  BY <1>1, <1>2, Next1Facts, IdleFacts
<1>4. next \in Stores /\ \A x \in Ids : Turns(mem.queue[x], next.queue[x])
  <2>1. CASE ~StillSending(mem, id, worker.attempt)
    BY <1>2, <2>1, StoreFacts, TurnsFacts
  <2>2. CASE StillSending(mem, id, worker.attempt)
    <3>1. mem.queue[id].attempts = worker.attempt /\ mem.queue[id].status = "sending"
      BY <2>2 DEF StillSending
    <3>2. /\ next \in Stores
          /\ \A x \in Ids \ {id} : Fades(mem.queue[x], next.queue[x])
      BY <1>2, <2>2, <3>1, ResultFacts
    <3> HIDE DEF next
    <3> QED BY <1>2, <3>1, <3>2, StoreFacts, TurnsFacts
  <2> QED BY <2>1, <2>2
<1> HIDE DEF next
<1> QED BY <1>1, <1>3, <1>4, QuietPromised

LEMMA TickPromised ==
  ASSUME IInv, IInv', Ahead, Tick
  PROVE  Ahead' /\ Promise!Update
<1>1. mem' = Later(mem) /\ disk' = Later(disk) /\ UNCHANGED <<worker, accepted>>
  BY DEF Tick
<1>2. mem \in Stores /\ disk \in Stores
  BY DEF IInv, Types
<1>3. ASSUME NEW s \in Stores, NEW id \in Ids
      PROVE  Shown(Later(s).queue[id]) = Shown(s.queue[id])
  <2>1. Later(s).queue[id] = [s.queue[id] EXCEPT !.after = Elapsed(@)]
    BY DEF Later, Stores
  <2>2. s.queue[id] \in Delivery
    BY StoreFacts
  <2> QED BY <2>1, <2>2 DEF Shown, Waiting, Delivery
<1>4. Ahead'
  BY <1>1, <1>2, <1>3 DEF Ahead, Turns, Fetched
<1>5. \A id \in Ids : Turns(mem.queue[id], mem'.queue[id])
  <2>1. \A id \in Ids : Turns(mem.queue[id], mem.queue[id])
    BY <1>2, StoreFacts, TurnsFacts
  <2> QED BY <1>1, <1>2, <1>3, <2>1 DEF Turns
<1> QED BY <1>1, <1>4, <1>5, UpdatePromised

\* A recovery shows nothing of the file that the promise does not allow.
LEMMA RestartedPromised ==
  ASSUME IInv, IInv', Ahead, Restarted
  PROVE  Ahead' /\ Promise!Update
<1>1. PICK file \in {mem, disk} : mem' = Recovered(file) /\ disk' = Recovered(file)
  BY DEF Restarted
<1>2. worker'.phase # "send" /\ accepted' = accepted
  BY IdleFacts DEF Restarted
<1>3. mem \in Stores /\ file \in Stores /\ mem' \in Stores
  BY <1>1 DEF IInv, Types
<1>4. Ahead'
  <2>1. \A id \in Ids : Turns(mem'.queue[id], mem'.queue[id])
    BY <1>3, StoreFacts, TurnsFacts
  <2> QED BY <1>1, <2>1 DEF Ahead
<1>5. \A id \in Ids : Turns(mem.queue[id], file.queue[id]) \/ Fetched(mem.queue[id], file.queue[id])
  BY <1>1, <1>3, StoreFacts, TurnsFacts DEF Ahead
<1>6. \A id \in Ids : Turns(mem.queue[id], mem'.queue[id])
  BY <1>1, <1>3, <1>5, RecoveredTurns
<1> QED BY <1>2, <1>4, <1>6, UpdatePromised

LEMMA InitPromised == Init => Ahead /\ Promise!Init
<1> SUFFICES ASSUME Init PROVE Ahead /\ Promise!Init
  OBVIOUS
<1>1. mem = disk /\ mem \in Stores
  BY InitIInv DEF Init, IInv, Types
<1>2. Ahead
  BY <1>1, StoreFacts, TurnsFacts DEF Ahead
<1>3. \A id \in Ids : Shown(mem.queue[id]) = "none"
  BY NoDeliveryFacts DEF Init, FirstState, Shown, Waiting
<1> QED BY <1>2, <1>3, IdleFacts DEF Init, Promise!Init

LEMMA NextPromised ==
  ASSUME IInv, IInv', Ahead, [Next]_vars
  PROVE  Ahead' /\ [Promise!Next]_(Promise!promise)
<1>1. CASE Worker
  BY <1>1, PassPromised, MarkPromised, ClaimPromised, SendPromised, PersistPromised
     DEF Worker, Promise!Next
<1>2. CASE Emit \/ Request \/ Tick
  BY <1>2, EmitPromised, RequestPromised, TickPromised DEF Promise!Next
<1>3. CASE Crash \/ Relaunch
  BY <1>3, RestartedPromised DEF Crash, Relaunch, Promise!Next
<1>4. CASE UNCHANGED vars
  BY <1>4 DEF Ahead, vars, store, Promise!promise
<1> QED BY <1>1, <1>2, <1>3, <1>4 DEF Next

\* Deliveries implements MessagePromise, whatever is edited, cancelled, lost
\* and recovered: a message goes out by the claim of a delivery that waits
\* (processDeliveries), nothing shown of it is false, and no end is undone.
THEOREM DeliveriesKeepPromise == Spec => KeepsPromise
<1>1. IInv /\ IInv' /\ Ahead /\ [Next]_vars => Ahead' /\ [Promise!Next]_(Promise!promise)
  BY NextPromised
<1> QED BY <1>1, InitPromised, InvariantHolds, PTL DEF Spec, KeepsPromise, Promise!Spec
=============================================================================
