----------------------------- MODULE Deliveries -----------------------------
(***************************************************************************)
(* Alert deliveries (integrations.go, discord.go, webhook.go and the       *)
(* cancellations of lifecycle.go, deletion.go and restart_warnings.go):    *)
(* the queue in the JSON store, the worker that claims a delivery, sends   *)
(* it outside the store and writes the result back, and the requests that  *)
(* cancel deliveries meanwhile.                                            *)
(*                                                                         *)
(* A delivery is named by its event and its integration, as its id is a    *)
(* hash of both.  One server is the subject of all events.  Times to wait  *)
(* are kept as ticks that remain; a tick stands for two seconds, the first *)
(* back-off.  An integration's rules, servers and Enabled are one flag.    *)
(***************************************************************************)
EXTENDS Integers, FiniteSets

CONSTANTS
  Integrations, \* ids of the integrations
  Discord,      \* those of them with provider discord; the others, webhook
  Targets,      \* channels and URLs an integration may name
  Kinds,        \* alert kinds, as far as deliveries tell them apart
  MaxEvents,    \* bound: events
  MaxAttempts,  \* deliveryMaxAttempts
  MaxSettled,   \* terminalDeliveryHistoryLimit
  MaxWait,      \* bound: ticks a provider may ask to wait
  MaxEdits,     \* bound: edits, stops, deletions, obsolete warnings
  MaxFaults     \* bound: crashes and failed writes

ASSUME DeliveriesAssumption ==
  /\ Discord \subseteq Integrations /\ IsFiniteSet(Integrations)
  /\ Targets # {} /\ Kinds # {}
  /\ Kinds \subseteq {"health", "warning", "test", "other"}
  /\ MaxEvents \in Nat /\ MaxAttempts \in Nat \ {0} /\ MaxSettled \in Nat
  /\ MaxWait \in Nat \ {0} /\ MaxEdits \in Nat /\ MaxFaults \in Nat

VARIABLES
  mem, disk, poisoned,  \* the store: memory, file, writeErr # nil
  worker,               \* processDeliveries: where it is
  events,               \* events emitted so far
  edits, faults,
  accepted              \* observer: messages the provider took

store    == <<mem, disk, poisoned>>
vars     == <<store, worker, events, edits, faults, accepted>>

-----------------------------------------------------------------------------
Ids    == (1..MaxEvents) \X Integrations
Status == {"none", "pending", "sending", "sent", "retry", "failed", "uncertain"}

\* Delivery.  after: ticks until NextAttempt; told: the Result says that an
\* in-flight message may have been sent; order: UpdatedAt when it settled.
Delivery   == [status: Status, kind: Kinds, target: Targets, attempts: 0..MaxAttempts,
               after: Nat, told: BOOLEAN, order: Nat]
NoDelivery == [status |-> "none", kind |-> CHOOSE k \in Kinds : TRUE,
               target |-> CHOOSE t \in Targets : TRUE,
               attempts |-> 0, after |-> 0, told |-> FALSE, order |-> 0]

Waiting(d) == d.status \in {"pending", "retry"}
Settled(d) == d.status \in {"sent", "failed"}

IsDiscord(id) == id[2] \in Discord

Larger(a, b) == IF a >= b THEN a ELSE b

\* deliveryEnabled
Enables(i, d) == d.target = i.target /\ (d.kind = "test" \/ i.enabled)

\* warningDeliveryValid; eligible holds the events of the warnings whose
\* occurrence is still to come.
WarningValid(s, id) == s.queue[id].kind # "warning" \/ id[1] \in s.eligible

\* A delivery that settles, and is the last of all to have done so.
Settle(s, d, status) == [d EXCEPT !.status = status, !.order = s.clock + 1, !.after = 0]

\* pruneDeliveryHistory: of the sent and failed ones the newest stay.
Pruned(s) ==
  LET done == {id \in Ids : Settled(s.queue[id])}
      newer(id) == {e \in done : s.queue[e].order > s.queue[id].order}
  IN [s EXCEPT !.queue = [id \in Ids |->
        IF id \in done /\ Cardinality(newer(id)) >= MaxSettled THEN NoDelivery
        ELSE s.queue[id]]]

\* Some deliveries are cancelled in one Update; told as above.
Cancelled(s, ids, tell) ==
  [s EXCEPT !.clock = IF ids = {} THEN @ ELSE @ + 1,
            !.queue = [id \in Ids |->
               IF id \in ids THEN [Settle(s, s.queue[id], "failed") EXCEPT !.told = tell]
               ELSE s.queue[id]]]

-----------------------------------------------------------------------------
(* Store.Update, as in RestartLifecycle.                                   *)

Fault == faults < MaxFaults /\ faults' = faults + 1

Commit(next) ==
  /\ ~poisoned
  /\ mem' = next /\ disk' = next
  /\ UNCHANGED <<poisoned, faults>>

Refuse(next) ==
  \/ poisoned /\ UNCHANGED <<store, faults>>
  \/ /\ ~poisoned
     /\ Fault
     /\ \/ UNCHANGED <<disk, poisoned>>
        \/ disk' = next /\ poisoned' = TRUE
     /\ UNCHANGED mem

-----------------------------------------------------------------------------
(* Events.  emitAlertEvidence queues one delivery for every integration    *)
(* that wants the event, unless its quiet hours keep it silent; a test is  *)
(* for one integration, enabled or not.                                    *)

Queued(s, kind, to) ==
  [s EXCEPT !.queue = [id \in Ids |->
              IF id[1] = events + 1 /\ id[2] \in to
                THEN [NoDelivery EXCEPT !.status = "pending", !.kind = kind,
                                        !.target = s.integrations[id[2]].target]
                ELSE s.queue[id]],
            !.eligible = IF kind = "warning" THEN @ \cup {events + 1} ELSE @]

Emit ==
  \E kind \in Kinds, to \in SUBSET Integrations \ {{}} :
    LET next == Queued(mem, kind, to)
    IN /\ events < MaxEvents /\ events' = events + 1
       /\ IF kind = "test" THEN Cardinality(to) = 1
          ELSE ~mem.deleting /\ \A i \in to : mem.integrations[i].enabled
       /\ Commit(next) \/ Refuse(next)
       /\ UNCHANGED <<worker, edits, accepted>>

-----------------------------------------------------------------------------
(* Requests that cancel deliveries.                                        *)

\* handleIntegrations, PUT: waiting deliveries it no longer enables fail.
Edited(s, i, input) ==
  LET new == [s EXCEPT !.integrations[i] = input]
  IN Pruned(Cancelled(new, {id \in Ids : id[2] = i /\ Waiting(s.queue[id])
                                           /\ ~Enables(input, s.queue[id])}, FALSE))

\* handleStop, persistStop: health alerts that wait or are being sent fail;
\* a warning of a stopped server is no longer eligible.
Parked(s) ==
  Cancelled([s EXCEPT !.eligible = {}],
            {id \in Ids : s.queue[id].kind = "health"
                            /\ (Waiting(s.queue[id]) \/ s.queue[id].status = "sending")},
            TRUE)

\* Mutant: deliveries of unknown outcome are failed with the rest.
DeletedUnknown(s) ==
  Cancelled([s EXCEPT !.deleting = TRUE, !.eligible = {}],
            {id \in Ids : s.queue[id].kind # "test"
                            /\ s.queue[id].status \notin {"none", "sent", "failed"}},
            TRUE)

\* handleDelete: all alerts of the server that wait or are being sent fail.
Deleted(s) ==
  Cancelled([s EXCEPT !.deleting = TRUE, !.eligible = {}],
            {id \in Ids : s.queue[id].kind # "test"
                            /\ (Waiting(s.queue[id]) \/ s.queue[id].status = "sending")},
            TRUE)

\* An occurrence is claimed, skipped, edited away or past; the Update that
\* finds out may call cancelObsoleteWarnings.
Obsolete(s, event, cancel) ==
  LET new == [s EXCEPT !.eligible = @ \ {event}]
  IN IF cancel
       THEN Cancelled(new, {id \in Ids : Waiting(s.queue[id]) /\ ~WarningValid(new, id)}, FALSE)
       ELSE new

Request ==
  \E next \in {Edited(mem, i, input) :
                 i \in Integrations, input \in [enabled: BOOLEAN, target: Targets]}
                \cup {Parked(mem)}
                \cup (IF mem.deleting THEN {} ELSE {Deleted(mem)})
                \cup {Obsolete(mem, e, cancel) : e \in mem.eligible, cancel \in BOOLEAN} :
    /\ edits < MaxEdits /\ edits' = edits + 1
    /\ Commit(next) \/ Refuse(next)
    /\ UNCHANGED <<worker, events, accepted>>

-----------------------------------------------------------------------------
(* The worker.  processDeliveries holds deliveryMu, so there is one.       *)

None   == [status |-> "none", wait |-> 0]
Idle   == [phase |-> "idle", stuck |-> {}, due |-> {}, id |-> <<0, 0>>,
           attempt |-> 0, answer |-> None]
Next1(w, id) == [w EXCEPT !.phase = "work", !.due = @ \ {id}, !.id = <<0, 0>>,
                          !.attempt = 0, !.answer = None]

Sending == {id \in Ids : mem.queue[id].status = "sending"}
Due     == {id \in Ids : Waiting(mem.queue[id]) /\ mem.queue[id].after = 0}

\* The snapshot.
PassBegin ==
  /\ worker = Idle
  /\ worker' = [Idle EXCEPT !.phase = "work", !.stuck = Sending, !.due = Due]
  /\ UNCHANGED <<store, events, edits, faults, accepted>>

PassEnd ==
  /\ worker.phase = "work" /\ worker.stuck = {} /\ worker.due = {}
  /\ worker' = Idle
  /\ UNCHANGED <<store, events, edits, faults, accepted>>

\* Mutant: a delivery whose result was not written stays as it is.
MarkedNever(s, id) == s

MarkedUncertain(s, id) ==
  IF s.queue[id].status = "sending"
    THEN [s EXCEPT !.queue[id].status = "uncertain"] ELSE s

\* A delivery left in sending by a result that could not be written.
Mark ==
  \E id \in worker.stuck :
    LET next == MarkedUncertain(mem, id)
    IN /\ worker.phase = "work"
       /\ \/ Commit(next) /\ worker' = [worker EXCEPT !.stuck = @ \ {id}]
          \/ Refuse(next) /\ worker' = Idle
       /\ UNCHANGED <<events, edits, accepted>>

\* Mutant: a rate limit pauses nothing.
PausedNever(s, id) == FALSE

Paused(s, id) == IsDiscord(id) /\ s.pause > 0

Allowed(s, id) ==
  /\ Enables(s.integrations[id[2]], s.queue[id])
  /\ s.deleting => s.queue[id].kind = "test"
  /\ WarningValid(s, id)

Claimed(s, id) ==
  [s EXCEPT !.queue[id].status = "sending", !.queue[id].attempts = @ + 1]

\* The claim, with the delivery and its integration read again.
Claim ==
  \E id \in worker.due :
    LET d    == mem.queue[id]
        next == IF Allowed(mem, id) THEN Claimed(mem, id)
                ELSE Pruned(Cancelled(mem, {id}, FALSE))
    IN /\ worker.phase = "work" /\ worker.stuck = {}
       /\ IF ~Waiting(d) \/ d.after > 0 \/ (Allowed(mem, id) /\ Paused(mem, id)) THEN
            \/ /\ ~poisoned /\ worker' = Next1(worker, id)
               /\ UNCHANGED <<store, faults>>
            \/ Refuse(mem) /\ worker' = Idle
          ELSE
            \/ /\ Commit(next)
               /\ worker' = IF Allowed(mem, id)
                              THEN [worker EXCEPT !.phase = "send", !.id = id,
                                                  !.attempt = d.attempts + 1]
                              ELSE Next1(worker, id)
            \/ Refuse(next) /\ worker' = Idle
       /\ UNCHANGED <<events, edits, accepted>>

Answered(status, wait) ==
  worker' = [worker EXCEPT !.phase = "answered",
                           !.answer = [status |-> status, wait |-> wait]]

\* sendDiscord and sendWebhook: before the message is submitted a failure
\* is safe to retry; once it is, only a 429 is.
Send ==
  LET id == worker.id
      took(n) == accepted' = [accepted EXCEPT ![id] = @ + n]
      discord == IsDiscord(id)
  IN /\ worker.phase = "send"
     /\ \/ \E wait \in IF discord THEN 0..MaxWait ELSE {0} :   \* Secret, channel
             Answered("retry", wait) /\ UNCHANGED accepted
        \/ Answered("failed", 0) /\ UNCHANGED accepted
        \/ \E wait \in IF discord THEN 0..MaxWait ELSE {0} :
             Answered("sent", wait) /\ took(1)
        \/ \E wait \in 1..MaxWait :                            \* 429
             Answered("retry", wait) /\ UNCHANGED accepted
        \/ \E wait \in IF discord THEN 0..MaxWait ELSE {0}, n \in {0, 1} :
             Answered("uncertain", wait) /\ took(n)
     /\ UNCHANGED <<store, events, edits, faults>>

StillSending(s, id, attempt) ==
  s.queue[id].status = "sending" /\ s.queue[id].attempts = attempt

\* Mutant: one attempt too many.
ExhaustedLate(attempt) == attempt > MaxAttempts

Exhausted(attempt) == attempt >= MaxAttempts

\* The store after an answer; 2^attempts seconds are 2^(attempts - 1) ticks.
Result(s, id, attempt, answer) ==
  LET d == s.queue[id]
      new == IF answer.status = "uncertain" THEN [d EXCEPT !.status = "uncertain"]
             ELSE IF answer.status # "retry" THEN Settle(s, d, answer.status)
             ELSE IF Exhausted(attempt) THEN Settle(s, d, "failed")
             ELSE [d EXCEPT !.status = "retry",
                            !.after = Larger(2 ^ (attempt - 1), answer.wait)]
  IN Pruned([s EXCEPT !.queue[id] = new, !.clock = Larger(@, new.order),
                      !.pause = IF answer.wait > 0 /\ IsDiscord(id) THEN answer.wait ELSE @])

\* The result, dropped when the delivery was cancelled while it was sent.
Persist ==
  LET id   == worker.id
      next == IF StillSending(mem, id, worker.attempt)
                THEN Result(mem, id, worker.attempt, worker.answer) ELSE mem
  IN /\ worker.phase = "answered"
     /\ \/ Commit(next) /\ worker' = Next1(worker, id)
        \/ Refuse(next) /\ worker' = Idle
     /\ UNCHANGED <<events, edits, accepted>>

-----------------------------------------------------------------------------
(* Time, and the process.                                                  *)

Elapsed(n) == IF n > 0 THEN n - 1 ELSE 0

Later(s) == [s EXCEPT !.pause = Elapsed(@),
                      !.queue = [id \in Ids |-> [s.queue[id] EXCEPT !.after = Elapsed(@)]]]

Tick ==
  /\ mem' = Later(mem) /\ disk' = Later(disk)
  /\ <<mem', disk'>> # <<mem, disk>>
  /\ UNCHANGED <<poisoned, worker, events, edits, faults, accepted>>

\* Mutant: a claim found in the file is sent again.
RecoveredToRetry(s) ==
  [s EXCEPT !.queue = [id \in Ids |->
     IF s.queue[id].status = "sending" THEN [s.queue[id] EXCEPT !.status = "retry"]
     ELSE s.queue[id]]]

\* recoverAlerts
Recovered(s) ==
  Pruned([s EXCEPT !.queue = [id \in Ids |-> MarkedUncertain(s, id).queue[id]]])

Restarted ==
  /\ \E file \in IF poisoned THEN {mem, disk} ELSE {disk} :
       mem' = Recovered(file) /\ disk' = Recovered(file)
  /\ poisoned' = FALSE
  /\ worker' = Idle
  /\ UNCHANGED <<events, edits, accepted>>

Crash    == Fault /\ Restarted
Relaunch == poisoned /\ worker.phase \in {"idle", "work"} /\ Restarted /\ UNCHANGED faults

-----------------------------------------------------------------------------
FirstState == [queue |-> [id \in Ids |-> NoDelivery], clock |-> 0, pause |-> 0,
               integrations |-> [i \in Integrations |->
                  [enabled |-> TRUE, target |-> CHOOSE t \in Targets : TRUE]],
               deleting |-> FALSE, eligible |-> {}]

Init ==
  /\ mem = FirstState /\ disk = FirstState /\ poisoned = FALSE
  /\ worker = Idle /\ events = 0 /\ edits = 0 /\ faults = 0
  /\ accepted = [id \in Ids |-> 0]

Worker == PassBegin \/ Mark \/ Claim \/ Send \/ Persist \/ PassEnd

Next == Worker \/ Emit \/ Request \/ Tick \/ Crash \/ Relaunch

Spec == Init /\ [][Next]_vars

(* runDeliveries starts a pass every second and its calls have deadlines;  *)
(* time passes; a poisoned C2 is restarted.                                *)
FairSpec == Spec /\ WF_vars(Worker) /\ WF_vars(Tick) /\ WF_vars(Relaunch)

-----------------------------------------------------------------------------
TypeOK ==
  /\ \A s \in {mem, disk} :
       /\ s.queue \in [Ids -> Delivery]
       /\ s.clock \in Nat /\ s.pause \in 0..MaxWait /\ s.deleting \in BOOLEAN
       /\ s.integrations \in [Integrations -> [enabled: BOOLEAN, target: Targets]]
       /\ s.eligible \subseteq 1..MaxEvents
  /\ poisoned \in BOOLEAN
  /\ worker.phase \in {"idle", "work", "send", "answered"}
  /\ worker.stuck \subseteq Ids /\ worker.due \subseteq Ids
  /\ worker.phase \in {"send", "answered"} => worker.id \in Ids

\* docs/integrations.md, "Delivery reference": whatever crashes, failed
\* writes, cancellations and retries do, no provider takes the message of a
\* delivery twice.
AcceptedOnce == \A id \in Ids : accepted[id] <= 1

\* A delivery still to be sent was not taken, one shown as sent was, and one
\* shown as failed was not unless its Result says that it may have been.
StatusIsTrue ==
  \A s \in {mem, disk}, id \in Ids :
    LET d == s.queue[id]
    IN /\ Waiting(d) => accepted[id] = 0
       /\ d.status = "sent" => accepted[id] = 1
       /\ d.status = "failed" /\ ~d.told => accepted[id] = 0

\* A pause Discord asked for is never cut short by a later answer.
PauseNeverShortened ==
  [][worker' # worker => mem'.pause >= mem.pause]_vars

\* What the list shows of a delivery.
Shown(d) == IF Waiting(d) THEN "waiting"
            ELSE IF d.status = "failed" /\ d.told THEN "stopped" ELSE d.status

Promise == INSTANCE MessagePromise WITH
  Messages <- Ids, taken <- accepted,
  shown <- [id \in Ids |-> Shown(mem.queue[id])],
  carried <- IF worker.phase = "send" THEN {worker.id} ELSE {}

\* docs/integrations.md, "Delivery reference": a message goes out only by the
\* claim of a delivery that waits, while nothing shown of it is false, and what
\* has ended is neither sent nor changed again, but for being forgotten.
KeepsPromise == Promise!Spec

\* Every delivery is sent, given up or found uncertain.
EveryDeliverySettles ==
  \A id \in Ids :
    (mem.queue[id].status \in {"pending", "retry", "sending"})
      ~> (mem.queue[id].status \notin {"pending", "retry", "sending"})

=============================================================================
