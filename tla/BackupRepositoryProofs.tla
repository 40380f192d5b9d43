---------------------- MODULE BackupRepositoryProofs ----------------------
(***************************************************************************)
(* Theorems about BackupRepository: what the steps of its calls, the       *)
(* directories and what a power failure leaves of them agree on, and from  *)
(* it that no publication is torn by anything but its deletion, that a     *)
(* recovery leaves nothing staged, and that the repository implements      *)
(* RepositoryPromise.                                                      *)
(***************************************************************************)
EXTENDS BackupRepository, FiniteSetTheorems, WellFoundedInduction, TLAPS

-----------------------------------------------------------------------------
(* The inductive invariant                                                 *)

\* A local directory is there, hollow or not at all.
LocalEntry(e) ==
  /\ e.record # Nothing => e = WholeEntry(e.record)
  /\ e.record = Nothing => e.bundle = Nothing

Types ==
  /\ kind \in Kinds /\ kind \in {"local", "s3"}
  /\ phase \in {"down", "recovering", "serving"}
  /\ objects \in [Ids -> Entries] /\ staging \in [Keys -> Entries] /\ litter \in BOOLEAN
  /\ synced \in [objects : [Ids -> Entries], staging : [Keys -> Entries]]
  /\ writer \in Procs \cup {Nothing}
  /\ op \in [Procs -> [step : Steps, record : Records \cup {Nothing}]]
  /\ todo \subseteq Keys
  /\ told \in [Ids -> Records \cup {Nothing}] /\ retired \subseteq Ids
  /\ retired # {} => Records # {}

\* Who needs the lock holds it; each kind has its steps, and so has a
\* recovery.
Locked == \A p \in Procs : op[p].step \notin Unlocked => writer = p
LocalSteps ==
  {"stage", "syncStage", "admit", "syncObjects", "syncStaging",
   "removeObject", "syncRemoval", "recover"}
BucketSteps == {"staged", "putBundle", "putRecord", "put", "removeBundle", "removeRecord"}
RecoverySteps == {"idle", "recover", "admit", "syncObjects", "syncStaging"}
Phases ==
  /\ \A p \in Procs :
       /\ op[p].step \in LocalSteps => kind = "local"
       /\ op[p].step \in BucketSteps => kind = "s3"
       /\ op[p].step \notin {"idle", "recover"} => op[p].record # Nothing
       /\ phase = "down" => op[p] = Idle
       /\ phase = "recovering" => op[p].step \in RecoverySteps
       /\ phase = "serving" => op[p].step # "recover"
  /\ phase # "serving" => kind = "local"
  /\ phase = "down" => writer = Nothing

\* The publications under objects/, as they are and as a power failure
\* leaves them, and the stages.
ObjectsGood(os) ==
  \A id \in Ids :
    /\ os[id].record # Nothing => os[id].record.id = id
    /\ kind = "local" => LocalEntry(os[id])
    /\ Torn(os[id]) => id \in retired
StagesGood(st) ==
  \A k \in Keys :
    /\ LocalEntry(st[k])
    /\ st[k].record # Nothing => st[k].record.key = k
Contents ==
  /\ ObjectsGood(objects) /\ ObjectsGood(synced.objects)
  /\ StagesGood(staging) /\ StagesGood(synced.staging)

\* What was told is there, and a power failure does not take it.
Told ==
  \A id \in Ids : told[id] # Nothing =>
    /\ Whole(objects[id]) /\ objects[id].record = told[id]
    /\ kind = "local" => synced.objects[id] = objects[id]
    /\ kind = "s3" => id \notin retired

\* What the step of a call relies on.
Relies(p) ==
  LET s == op[p].step
      r == op[p].record
  IN /\ s \in {"syncStage", "admit"} => staging[r.key] = WholeEntry(r)
     /\ s \in {"syncObjects", "syncStaging"} => objects[r.id] = WholeEntry(r)
     /\ s \in {"removeObject", "syncRemoval", "removeBundle", "removeRecord"} =>
          r.id \in retired /\ told[r.id] = Nothing
     /\ s \in {"staged", "putBundle", "putRecord", "put"} => r.id \notin retired
     /\ s \in {"putBundle", "putRecord"} => objects[r.id].record = Nothing
     /\ s \in {"putRecord", "put"} => objects[r.id].bundle = r.data
     /\ s = "put" => objects[r.id].record = r
Calls == \A p \in Procs : Relies(p)

\* A stage that a recovery has looked at is gone, or about to be published.
Recovered ==
  phase = "recovering" =>
    \A k \in Keys : staging[k].dir =>
      k \in todo \/ \E p \in Procs : op[p].step = "admit" /\ op[p].record.key = k

IInv == Types /\ Locked /\ Phases /\ Contents /\ Told /\ Calls /\ Recovered

-----------------------------------------------------------------------------
(* Records and entries                                                     *)

LEMMA RecordFacts ==
  /\ Nothing \notin Records /\ Nothing \notin Data /\ Nothing \notin Procs
  /\ Requests \subseteq Records
  /\ \A r \in Records : r.id \in Ids /\ r.key \in Keys /\ r.data \in Data
BY RepositoryAssumption DEF Records

LEMMA AbsentFacts ==
  /\ Absent \in Entries /\ Absent.record = Nothing /\ Absent.bundle = Nothing
  /\ ~Absent.dir /\ ~Torn(Absent) /\ ~Whole(Absent) /\ LocalEntry(Absent)
BY DEF Absent, Entries, Whole, Torn, LocalEntry

LEMMA WholeFacts ==
  ASSUME NEW r \in Records
  PROVE  /\ WholeEntry(r) \in Entries /\ Whole(WholeEntry(r)) /\ LocalEntry(WholeEntry(r))
         /\ ~Torn(WholeEntry(r)) /\ WholeEntry(r).record = r /\ WholeEntry(r).dir
         /\ WholeEntry(r).bundle = r.data
BY RecordFacts DEF WholeEntry, Entries, Whole, Torn, LocalEntry

LEMMA RemainsFacts ==
  ASSUME NEW e \in Entries, NEW f \in Remains(e)
  PROVE  /\ f \in Entries /\ f.dir /\ f.record \in {e.record, Nothing}
         /\ LocalEntry(e) => LocalEntry(f)
<1>1. CASE f = [e EXCEPT !.dir = TRUE]
  <2>1. f \in Entries /\ f.dir /\ f.record = e.record /\ f.bundle = e.bundle
    BY <1>1 DEF Entries
  <2>2. ASSUME e = WholeEntry(e.record) PROVE f = WholeEntry(f.record)
    BY <2>1, <2>2 DEF WholeEntry, Entries
  <2> QED BY <2>1, <2>2 DEF LocalEntry
<1>2. CASE f = [Absent EXCEPT !.dir = TRUE]
  BY <1>2 DEF Entries, LocalEntry, Absent
<1> QED BY <1>1, <1>2 DEF Remains

\* A local entry with a record is whole.
LEMMA LocalFacts ==
  ASSUME NEW e \in Entries, LocalEntry(e)
  PROVE  /\ e.record # Nothing => Whole(e) /\ e.dir /\ e = WholeEntry(e.record)
         /\ Whole(e) <=> e.record # Nothing
         /\ Torn(e) <=> e.dir /\ e.record = Nothing
BY DEF Entries, LocalEntry, WholeEntry, Whole, Torn

\* A record that matches a request, with its contents put in, is itself.
LEMMA MatchFacts ==
  ASSUME NEW e \in Records, NEW r \in Records, Matches(e, r)
  PROVE  e.id = r.id /\ [r EXCEPT !.data = e.data] = e
BY DEF Matches, Records

-----------------------------------------------------------------------------
(* What the steps of a call do to its state and to that of the others      *)

LEMMA GotoFacts ==
  ASSUME Types, NEW p \in Procs, NEW step \in Steps, Goto(p, step)
  PROVE  /\ op' \in [Procs -> [step : Steps, record : Records \cup {Nothing}]]
         /\ op'[p].step = step /\ op'[p].record = op[p].record
         /\ \A q \in Procs \ {p} : op'[q] = op[q]
BY DEF Types, Goto

LEMMA BeginFacts ==
  ASSUME Types, NEW p \in Procs, NEW step \in Steps, NEW r \in Records \cup {Nothing},
         Begin(p, step, r)
  PROVE  /\ op' \in [Procs -> [step : Steps, record : Records \cup {Nothing}]]
         /\ op'[p].step = step /\ op'[p].record = r
         /\ \A q \in Procs \ {p} : op'[q] = op[q]
BY DEF Types, Begin

LEMMA IdleFacts ==
  ASSUME Types, NEW p \in Procs, op' = [op EXCEPT ![p] = Idle]
  PROVE  /\ op' \in [Procs -> [step : Steps, record : Records \cup {Nothing}]]
         /\ op'[p] = Idle /\ op'[p].step = "idle"
         /\ \A q \in Procs \ {p} : op'[q] = op[q]
BY DEF Types, Idle, Steps

LEMMA ReturnFacts ==
  ASSUME Types, NEW p \in Procs, Return(p)
  PROVE  /\ op' \in [Procs -> [step : Steps, record : Records \cup {Nothing}]]
         /\ phase = "recovering" =>
              op'[p].step = "recover" /\ op'[p].record = op[p].record /\ writer' = writer
         /\ phase # "recovering" => op'[p] = Idle /\ op'[p].step = "idle" /\ writer' = Nothing
         /\ \A q \in Procs \ {p} : op'[q] = op[q]
<1>1. CASE phase = "recovering"
  BY <1>1, GotoFacts DEF Return, Steps
<1>2. CASE phase # "recovering"
  BY <1>2, IdleFacts DEF Return
<1> QED BY <1>1, <1>2

\* A local call runs alone.
LEMMA Alone ==
  ASSUME IInv, kind = "local", NEW p \in Procs, writer \in {p, Nothing}
  PROVE  \A q \in Procs \ {p} : op[q].step = "idle"
BY RecordFacts DEF IInv, Locked, Phases, Types, Steps, Unlocked, BucketSteps

\* One object of a pair is written or removed.
LEMMA BundleFacts ==
  ASSUME Types, NEW id \in Ids, NEW b \in Data \cup {Nothing}, NEW put,
         put = [objects EXCEPT ![id].bundle = b]
  PROVE  /\ put \in [Ids -> Entries]
         /\ put[id].bundle = b /\ put[id].record = objects[id].record
         /\ put[id].dir = objects[id].dir
         /\ \A i \in Ids \ {id} : put[i] = objects[i]
<1>1. objects \in [Ids -> Entries]
  BY DEF Types
<1>2. [objects[id] EXCEPT !.bundle = b] \in Entries
  BY <1>1 DEF Entries
<1>3. put = [objects EXCEPT ![id] = [objects[id] EXCEPT !.bundle = b]]
  BY <1>1
<1> QED BY <1>1, <1>2, <1>3 DEF Entries

LEMMA RecordPutFacts ==
  ASSUME Types, NEW id \in Ids, NEW r \in Records \cup {Nothing}, NEW put,
         put = [objects EXCEPT ![id].record = r]
  PROVE  /\ put \in [Ids -> Entries]
         /\ put[id].record = r /\ put[id].bundle = objects[id].bundle
         /\ put[id].dir = objects[id].dir
         /\ \A i \in Ids \ {id} : put[i] = objects[i]
<1>1. objects \in [Ids -> Entries]
  BY DEF Types
<1>2. [objects[id] EXCEPT !.record = r] \in Entries
  BY <1>1 DEF Entries
<1>3. put = [objects EXCEPT ![id] = [objects[id] EXCEPT !.record = r]]
  BY <1>1
<1> QED BY <1>1, <1>2, <1>3 DEF Entries

\* A call in progress has its publication, and holds the lock if it needs it.
LEMMA CallFacts ==
  ASSUME IInv, NEW p \in Procs
  PROVE  /\ op[p].step \in Steps /\ op[p].record \in Records \cup {Nothing}
         /\ op[p].step \notin {"idle", "recover"} =>
              /\ op[p].record \in Records /\ op[p].record.id \in Ids
              /\ op[p].record.key \in Keys /\ op[p].record.data \in Data
         /\ op[p].step \notin Unlocked => writer = p
         /\ op[p] = Idle => op[p].step = "idle"
         /\ op[p].step \in LocalSteps => kind = "local"
         /\ op[p].step \in BucketSteps => kind = "s3" /\ phase = "serving"
         /\ phase = "down" => op[p] = Idle
         /\ phase = "recovering" => kind = "local" /\ op[p].step \in RecoverySteps
         /\ phase = "serving" => op[p].step # "recover"
         /\ kind = "local" \/ kind = "s3"
         /\ Relies(p)
BY RecordFacts DEF IInv, Types, Phases, Locked, Calls, Idle

\* What stands in staging is a publication.
LEMMA StagedFacts ==
  ASSUME IInv, NEW k \in Keys, Whole(staging[k])
  PROVE  /\ staging[k].record \in Records /\ staging[k].record.key = k
         /\ staging[k].record.id \in Ids /\ staging[k] = WholeEntry(staging[k].record)
BY RecordFacts DEF IInv, Types, Contents, StagesGood, Entries, LocalEntry, Whole

\* Who deletes knows a record of that id.
LEMMA DeletedFacts ==
  ASSUME IInv, NEW id \in Ids, told[id] # Nothing \/ id \in retired
  PROVE  /\ (CHOOSE r \in Records : r.id = id) \in Records
         /\ (CHOOSE r \in Records : r.id = id).id = id
<1>1. PICK q : q \in Records
  BY DEF IInv, Types
<1>2. [q EXCEPT !.id = id] \in Records /\ [q EXCEPT !.id = id].id = id
  BY <1>1 DEF Records
<1> QED BY <1>2

\* A step of p changes its own state only, and takes or keeps the lock for
\* what needs it.
LEMMA StepFacts ==
  ASSUME IInv, NEW p \in Procs, Publication(p) \/ Deletion(p) \/ Recovery(p)
  PROVE  /\ op' \in [Procs -> [step : Steps, record : Records \cup {Nothing}]]
         /\ \A q \in Procs \ {p} : op'[q] = op[q]
         /\ op'[p].step \in Unlocked \/ writer' = p
         /\ writer' = writer \/ (writer \in {p, Nothing} /\ writer' \in {p, Nothing})
<1> USE CallFacts, RecordFacts DEF Unlocked, Steps
<1>0. /\ Types /\ op[p].step \in Steps /\ op[p].record \in Records \cup {Nothing}
      /\ op \in [Procs -> [step : Steps, record : Records \cup {Nothing}]]
      /\ phase = "down" => writer = Nothing /\ op[p] = Idle
  BY DEF IInv, Types, Phases
<1> USE <1>0
<1>1. CASE Stage(p)
  BY <1>1, ReturnFacts, GotoFacts, IdleFacts DEF Stage
<1>2. CASE SyncStage(p)
  BY <1>2, ReturnFacts, GotoFacts, IdleFacts DEF SyncStage
<1>3. CASE Publish(p)
  BY <1>3, ReturnFacts, GotoFacts, IdleFacts DEF Publish
<1>4. CASE Reject(p)
  BY <1>4, ReturnFacts, GotoFacts, IdleFacts DEF Reject, GiveUp
<1>5. CASE PublishFails(p)
  BY <1>5, ReturnFacts, GotoFacts, IdleFacts DEF PublishFails
<1>6. CASE SyncObjects(p)
  BY <1>6, ReturnFacts, GotoFacts, IdleFacts DEF SyncObjects
<1>7. CASE SyncStaging(p)
  BY <1>7, ReturnFacts, GotoFacts, IdleFacts DEF SyncStaging
<1>8. CASE LockBucket(p)
  BY <1>8, ReturnFacts, GotoFacts DEF LockBucket, BucketSteps
<1>9. CASE PutBundle(p)
  BY <1>9, ReturnFacts, GotoFacts, IdleFacts DEF PutBundle
<1>10. CASE PutRecord(p)
  BY <1>10, ReturnFacts, GotoFacts, IdleFacts DEF PutRecord
<1>11. CASE AnswerPut(p)
  BY <1>11, ReturnFacts, GotoFacts, IdleFacts DEF AnswerPut
<1>12. CASE RemoveObject(p)
  BY <1>12, ReturnFacts, GotoFacts, IdleFacts DEF RemoveObject
<1>13. CASE SyncRemoval(p)
  BY <1>13, ReturnFacts, GotoFacts, IdleFacts DEF SyncRemoval
<1>14. CASE RemoveBundle(p)
  BY <1>14, GotoFacts, IdleFacts DEF RemoveBundle, Leave
<1>15. CASE RemoveRecord(p)
  BY <1>15, GotoFacts, IdleFacts DEF RemoveRecord, Leave
<1>16. CASE RecoverBegin(p)
  BY <1>16, BeginFacts, IdleFacts DEF RecoverBegin
<1>17. CASE RecoverLitter(p)
  BY <1>17, BeginFacts, IdleFacts DEF RecoverLitter
<1>18. CASE RecoverEnd(p)
  BY <1>18, BeginFacts, IdleFacts DEF RecoverEnd, GiveUp
<1>19. CASE RecoverFails(p)
  BY <1>19, BeginFacts, IdleFacts DEF RecoverFails, GiveUp
<1>20. CASE \E r \in Requests : PublishedBefore(p, r)
  BY <1>20, BeginFacts DEF PublishedBefore, Locally, Asked, Called
<1>21. CASE \E r \in Requests : PublishStage(p, r)
  BY <1>21, BeginFacts, StagedFacts DEF PublishStage, Locally, Asked, Called
<1>22. CASE \E r \in Requests : CreateStage(p, r)
  BY <1>22, BeginFacts DEF CreateStage, Locally, Asked, Called
<1>23. CASE \E r \in Requests : PublishedInBucket(p, r)
  BY <1>23, BeginFacts DEF PublishedInBucket, Locally, Asked, Called
<1>24. CASE \E r \in Requests : StageBundle(p, r)
  BY <1>24, BeginFacts DEF StageBundle, Locally, Asked, Called
<1>25. CASE \E id \in Ids : Delete(p, id)
  BY <1>25, BeginFacts, DeletedFacts DEF Delete, Locally, Called
<1>26. CASE \E k \in Keys : RecoverStage(p, k)
  BY <1>26, BeginFacts DEF RecoverStage, Recovering
<1>27. CASE \E k \in Keys : RecoverPublish(p, k)
  BY <1>27, BeginFacts, StagedFacts DEF RecoverPublish, Recovering
<1> QED BY <1>1, <1>2, <1>3, <1>4, <1>5, <1>6, <1>7, <1>8, <1>9, <1>10, <1>11, <1>12, <1>13, <1>14,
           <1>15, <1>16, <1>17, <1>18, <1>19, <1>20, <1>21, <1>22, <1>23, <1>24, <1>25, <1>26, <1>27
       DEF Publication, Deletion, Recovery

\* Which steps leave what alone.
LEMMA Untouched ==
  ASSUME NEW p \in Procs, Publication(p) \/ Deletion(p) \/ Recovery(p)
  PROVE  /\ kind' = kind
         /\ objects' # objects =>
              Publish(p) \/ RemoveObject(p) \/ PutBundle(p)
              \/ PutRecord(p) \/ RemoveBundle(p) \/ RemoveRecord(p)
         /\ staging' # staging =>
              Stage(p) \/ Publish(p) \/ Reject(p)
              \/ (\E k \in Keys : RecoverStage(p, k)) \/ RecoverFails(p)
         /\ synced' # synced =>
              SyncStage(p) \/ Reject(p) \/ SyncObjects(p)
              \/ SyncStaging(p) \/ SyncRemoval(p) \/ RecoverEnd(p)
         /\ told' # told =>
              (\E r \in Requests : PublishedBefore(p, r)) \/ SyncStaging(p)
              \/ (\E id \in Ids : Delete(p, id)) \/ RecoverEnd(p) \/ (\E r \in Requests : PublishedInBucket(p, r)) \/ LockBucket(p)
              \/ AnswerPut(p)
         /\ retired' # retired =>
              (\E id \in Ids : Delete(p, id))
BY DEF Publication, Deletion, Recovery, files,
       Stage, SyncStage, Publish, Reject, PublishFails, SyncObjects,
       SyncStaging, LockBucket, PutBundle, PutRecord, AnswerPut, RemoveObject,
       SyncRemoval, RemoveBundle, RemoveRecord, RecoverBegin, RecoverLitter, RecoverEnd,
       RecoverFails, PublishedBefore, PublishStage, CreateStage, PublishedInBucket, StageBundle,
       Delete, RecoverStage, RecoverPublish

LEMMA TypesStep ==
  ASSUME IInv, NEW p \in Procs, Publication(p) \/ Deletion(p) \/ Recovery(p)
  PROVE  Types'
<1>0. /\ Types /\ objects \in [Ids -> Entries] /\ staging \in [Keys -> Entries]
      /\ synced \in [objects : [Ids -> Entries], staging : [Keys -> Entries]]
      /\ told \in [Ids -> Records \cup {Nothing}]
      /\ retired # {} => Records # {}
      /\ phase \in {"down", "recovering", "serving"} /\ litter \in BOOLEAN
      /\ todo \subseteq Keys /\ retired \subseteq Ids
  BY DEF IInv, Types
<1>1. /\ op' \in [Procs -> [step : Steps, record : Records \cup {Nothing}]]
      /\ writer' \in Procs \cup {Nothing}
  BY <1>0, StepFacts DEF Types
<1>2. StagingSynced \in [objects : [Ids -> Entries], staging : [Keys -> Entries]]
  BY <1>0 DEF StagingSynced
<1>3. ObjectsSynced \in [objects : [Ids -> Entries], staging : [Keys -> Entries]]
  BY <1>0 DEF ObjectsSynced
<1>4. kind' = kind
  BY Untouched
<1>5. phase' \in {"down", "recovering", "serving"}
  BY <1>0 DEF Publication, Deletion, Recovery, GiveUp, files,
         Stage, SyncStage, Publish, Reject, PublishFails, SyncObjects,
         SyncStaging, LockBucket, PutBundle, PutRecord, AnswerPut, RemoveObject,
         SyncRemoval, RemoveBundle, RemoveRecord, RecoverBegin, RecoverLitter, RecoverEnd,
         RecoverFails, PublishedBefore, PublishStage, CreateStage, PublishedInBucket, StageBundle,
         Delete, RecoverStage, RecoverPublish
<1>6. litter' \in BOOLEAN
  BY <1>0 DEF Publication, Deletion, Recovery, files,
         Stage, SyncStage, Publish, Reject, PublishFails, SyncObjects,
         SyncStaging, LockBucket, PutBundle, PutRecord, AnswerPut, RemoveObject,
         SyncRemoval, RemoveBundle, RemoveRecord, RecoverBegin, RecoverLitter, RecoverEnd,
         RecoverFails, PublishedBefore, PublishStage, CreateStage, PublishedInBucket, StageBundle,
         Delete, RecoverStage, RecoverPublish
<1>7. todo' \subseteq Keys
  BY <1>0 DEF Publication, Deletion, Recovery, GiveUp, Recovering, files,
         Stage, SyncStage, Publish, Reject, PublishFails, SyncObjects,
         SyncStaging, LockBucket, PutBundle, PutRecord, AnswerPut, RemoveObject,
         SyncRemoval, RemoveBundle, RemoveRecord, RecoverBegin, RecoverLitter, RecoverEnd,
         RecoverFails, PublishedBefore, PublishStage, CreateStage, PublishedInBucket, StageBundle,
         Delete, RecoverStage, RecoverPublish
<1>8. objects' \in [Ids -> Entries]
  <2>1. CASE Publish(p)
    BY <1>0, <2>1, CallFacts, StagedFacts, WholeFacts DEF Publish, Relies
  <2>2. CASE RemoveObject(p)
    BY <1>0, <2>2, CallFacts, AbsentFacts, RemainsFacts DEF RemoveObject
  <2>3. CASE PutBundle(p)
    <3> DEFINE put == [objects EXCEPT ![op[p].record.id].bundle = op[p].record.data]
    <3>1. /\ objects' \in {objects, put} /\ op[p].record.id \in Ids
          /\ op[p].record.data \in Data \cup {Nothing}
      BY <2>3, CallFacts DEF PutBundle
    <3>2. put \in [Ids -> Entries]
      BY <1>0, <3>1, BundleFacts
    <3> QED BY <1>0, <3>1, <3>2
  <2>4. CASE PutRecord(p)
    <3> DEFINE put == [objects EXCEPT ![op[p].record.id].record = op[p].record]
    <3>1. /\ objects' \in {objects, put} /\ op[p].record.id \in Ids
          /\ op[p].record \in Records \cup {Nothing}
      BY <2>4, CallFacts DEF PutRecord
    <3>2. put \in [Ids -> Entries]
      BY <1>0, <3>1, RecordPutFacts
    <3> QED BY <1>0, <3>1, <3>2
  <2>5. CASE RemoveBundle(p)
    <3> DEFINE put == [objects EXCEPT ![op[p].record.id].bundle = Nothing]
    <3>1. objects' \in {objects, put} /\ op[p].record.id \in Ids /\ Nothing \in Data \cup {Nothing}
      BY <2>5, CallFacts DEF RemoveBundle
    <3>2. put \in [Ids -> Entries]
      BY <1>0, <3>1, BundleFacts
    <3> QED BY <1>0, <3>1, <3>2
  <2>6. CASE RemoveRecord(p)
    <3> DEFINE put == [objects EXCEPT ![op[p].record.id].record = Nothing]
    <3>1. objects' \in {objects, put} /\ op[p].record.id \in Ids /\ Nothing \in Records \cup {Nothing}
      BY <2>6, CallFacts DEF RemoveRecord
    <3>2. put \in [Ids -> Entries]
      BY <1>0, <3>1, RecordPutFacts
    <3> QED BY <1>0, <3>1, <3>2
  <2> QED BY <1>0, <2>1, <2>2, <2>3, <2>4, <2>5, <2>6, Untouched
<1>9. staging' \in [Keys -> Entries]
  <2>1. CASE Stage(p)
    BY <1>0, <2>1, CallFacts, WholeFacts DEF Stage
  <2>2. CASE Publish(p)
    BY <1>0, <2>2, CallFacts, AbsentFacts DEF Publish
  <2>3. CASE Reject(p)
    <3>1. PICK e \in Remains(staging[op[p].record.key]) \cup {Absent} :
            staging' = [staging EXCEPT ![op[p].record.key] = e]
      BY <2>3 DEF Reject
    <3>2. op[p].record.key \in Keys
      BY <2>3, CallFacts DEF Reject
    <3>3. e \in Entries
      BY <1>0, <3>1, <3>2, AbsentFacts, RemainsFacts
    <3> QED BY <1>0, <3>1, <3>3
  <2>4. CASE \E k \in Keys : RecoverStage(p, k)
    BY <1>0, <2>4, AbsentFacts DEF RecoverStage
  <2>5. CASE RecoverFails(p)
    BY <1>0, <2>5, RemainsFacts DEF RecoverFails
  <2> QED BY <1>0, <2>1, <2>2, <2>3, <2>4, <2>5, Untouched
<1>10. synced' \in [objects : [Ids -> Entries], staging : [Keys -> Entries]]
  <2>1. CASE SyncStage(p) \/ SyncStaging(p) \/ RecoverEnd(p)
    BY <1>0, <1>2, <2>1 DEF SyncStage, SyncStaging, RecoverEnd
  <2>2. CASE SyncObjects(p) \/ SyncRemoval(p)
    BY <1>0, <1>3, <2>2 DEF SyncObjects, SyncRemoval
  <2>3. CASE Reject(p)
    BY <1>0, <1>9, <2>3 DEF Reject
  <2> QED BY <1>0, <2>1, <2>2, <2>3, Untouched
<1>11. told' \in [Ids -> Records \cup {Nothing}]
  <2>1. CASE \E r \in Requests : PublishedBefore(p, r) \/ PublishedInBucket(p, r)
    BY <1>0, <2>1, RecordFacts DEF PublishedBefore, PublishedInBucket, Answer, Entries, Records, Whole
  <2>2. CASE SyncStaging(p)
    BY <1>0, <2>2, CallFacts DEF SyncStaging, Answers, Answer, Records
  <2>3. CASE \E id \in Ids : Delete(p, id)
    BY <1>0, <2>3 DEF Delete
  <2>4. CASE RecoverEnd(p)
    BY <1>0, <2>4 DEF RecoverEnd, Entries
  <2>5. CASE LockBucket(p)
    BY <1>0, <2>5, CallFacts DEF LockBucket, Answer, Records, Entries
  <2>6. CASE AnswerPut(p)
    BY <1>0, <2>6, CallFacts DEF AnswerPut, Answer, Records
  <2> QED BY <1>0, <2>1, <2>2, <2>3, <2>4, <2>5, <2>6, Untouched
<1>12. retired' \subseteq Ids /\ (retired' # {} => Records # {})
  <2>1. CASE \E id \in Ids : Delete(p, id)
    BY <1>0, <2>1 DEF Delete
  <2> QED BY <1>0, <2>1, Untouched
<1> QED BY <1>0, <1>1, <1>4, <1>5, <1>6, <1>7, <1>8, <1>9, <1>10, <1>11, <1>12 DEF Types

-----------------------------------------------------------------------------
(* The lock and the steps of calls                                         *)

LEMMA LockedStep ==
  ASSUME IInv, NEW p \in Procs, Publication(p) \/ Deletion(p) \/ Recovery(p)
  PROVE  Locked'
<1>1. ASSUME NEW q \in Procs \ {p}, op'[q].step \notin Unlocked PROVE writer' = q
  BY <1>1, StepFacts, CallFacts, RecordFacts
<1> QED BY <1>1, StepFacts DEF Locked

\* The call of p fits the repository and its phase; a phase ends when nobody
\* else is at work.
LEMMA PhaseFacts ==
  ASSUME IInv, NEW p \in Procs, Publication(p) \/ Deletion(p) \/ Recovery(p)
  PROVE  /\ op'[p].step \in LocalSteps => kind = "local"
         /\ op'[p].step \in BucketSteps => kind = "s3"
         /\ op'[p].step \notin {"idle", "recover"} => op'[p].record # Nothing
         /\ phase' = "recovering" => op'[p].step \in RecoverySteps /\ kind = "local"
         /\ phase' = "serving" => op'[p].step # "recover"
         /\ phase' # "down"
         /\ phase' = phase \/ (writer \in {p, Nothing} /\ kind = "local")
<1> USE CallFacts, RecordFacts DEF LocalSteps, BucketSteps, RecoverySteps, Unlocked
<1>0. /\ Types /\ op \in [Procs -> [step : Steps, record : Records \cup {Nothing}]]
      /\ phase = "down" => writer = Nothing /\ op[p] = Idle
      /\ phase \in {"down", "recovering", "serving"} /\ (phase # "serving" => kind = "local")
      /\ LocalSteps \cup BucketSteps \cup {"idle"} = Steps
  BY DEF IInv, Types, Phases, Steps
<1> USE <1>0
<1>1. CASE Stage(p)
  BY <1>1, ReturnFacts, GotoFacts, IdleFacts DEF Stage
<1>2. CASE SyncStage(p)
  BY <1>2, ReturnFacts, GotoFacts, IdleFacts DEF SyncStage
<1>3. CASE Publish(p)
  BY <1>3, ReturnFacts, GotoFacts, IdleFacts DEF Publish
<1>4. CASE Reject(p)
  BY <1>4, ReturnFacts, GotoFacts, IdleFacts DEF Reject, GiveUp
<1>5. CASE PublishFails(p)
  BY <1>5, ReturnFacts, GotoFacts, IdleFacts DEF PublishFails
<1>6. CASE SyncObjects(p)
  BY <1>6, ReturnFacts, GotoFacts, IdleFacts DEF SyncObjects
<1>7. CASE SyncStaging(p)
  BY <1>7, ReturnFacts, GotoFacts, IdleFacts DEF SyncStaging
<1>8. CASE LockBucket(p)
  BY <1>8, ReturnFacts, GotoFacts, IdleFacts DEF LockBucket
<1>9. CASE PutBundle(p)
  BY <1>9, ReturnFacts, GotoFacts, IdleFacts DEF PutBundle
<1>10. CASE PutRecord(p)
  BY <1>10, ReturnFacts, GotoFacts, IdleFacts DEF PutRecord
<1>11. CASE AnswerPut(p)
  BY <1>11, ReturnFacts, GotoFacts, IdleFacts DEF AnswerPut
<1>12. CASE RemoveObject(p)
  BY <1>12, ReturnFacts, GotoFacts, IdleFacts DEF RemoveObject
<1>13. CASE SyncRemoval(p)
  BY <1>13, ReturnFacts, GotoFacts, IdleFacts DEF SyncRemoval
<1>14. CASE RemoveBundle(p)
  BY <1>14, GotoFacts, IdleFacts DEF RemoveBundle, Leave
<1>15. CASE RemoveRecord(p)
  BY <1>15, GotoFacts, IdleFacts DEF RemoveRecord, Leave
<1>16. CASE RecoverBegin(p)
  BY <1>16, BeginFacts, IdleFacts DEF Steps, RecoverBegin
<1>17. CASE RecoverLitter(p)
  BY <1>17, BeginFacts, IdleFacts DEF RecoverLitter
<1>18. CASE RecoverEnd(p)
  BY <1>18, BeginFacts, IdleFacts DEF RecoverEnd, GiveUp
<1>19. CASE RecoverFails(p)
  BY <1>19, BeginFacts, IdleFacts DEF RecoverFails, GiveUp
<1>20. CASE \E r \in Requests : PublishedBefore(p, r)
  BY <1>20, BeginFacts DEF PublishedBefore, Locally, Asked, Called
<1>21. CASE \E r \in Requests : PublishStage(p, r)
  BY <1>21, BeginFacts, StagedFacts DEF Steps, PublishStage, Locally, Asked, Called
<1>22. CASE \E r \in Requests : CreateStage(p, r)
  BY <1>22, BeginFacts DEF Steps, CreateStage, Locally, Asked, Called
<1>23. CASE \E r \in Requests : PublishedInBucket(p, r)
  BY <1>23, BeginFacts DEF PublishedInBucket, Locally, Asked, Called
<1>24. CASE \E r \in Requests : StageBundle(p, r)
  BY <1>24, BeginFacts DEF Steps, StageBundle, Locally, Asked, Called
<1>25. CASE \E id \in Ids : Delete(p, id)
  BY <1>25, BeginFacts, DeletedFacts DEF Steps, Delete, Locally, Called
<1>26. CASE \E k \in Keys : RecoverStage(p, k)
  BY <1>26, BeginFacts DEF RecoverStage, Recovering
<1>27. CASE \E k \in Keys : RecoverPublish(p, k)
  BY <1>27, BeginFacts, StagedFacts DEF Steps, RecoverPublish, Recovering
<1> QED BY <1>1, <1>2, <1>3, <1>4, <1>5, <1>6, <1>7, <1>8, <1>9, <1>10, <1>11, <1>12, <1>13, <1>14,
           <1>15, <1>16, <1>17, <1>18, <1>19, <1>20, <1>21, <1>22, <1>23, <1>24, <1>25, <1>26, <1>27
       DEF Publication, Deletion, Recovery

LEMMA PhasesStep ==
  ASSUME IInv, NEW p \in Procs, Publication(p) \/ Deletion(p) \/ Recovery(p)
  PROVE  Phases'
<1>1. kind' = kind /\ Types /\ Phases
  BY Untouched DEF IInv
<1>2. ASSUME NEW q \in Procs \ {p}
      PROVE  /\ op'[q] = op[q]
             /\ phase' # phase => op[q].step = "idle"
  BY PhaseFacts, StepFacts, Alone
<1>3. ASSUME NEW q \in Procs \ {p}
      PROVE  /\ op'[q].step \in LocalSteps => kind = "local"
             /\ op'[q].step \in BucketSteps => kind = "s3"
             /\ op'[q].step \notin {"idle", "recover"} => op'[q].record # Nothing
             /\ phase' = "recovering" => op'[q].step \in RecoverySteps
             /\ phase' = "serving" => op'[q].step # "recover"
  BY <1>1, <1>2 DEF Phases, RecoverySteps
<1>4. phase' # "serving" => kind = "local"
  BY PhaseFacts, <1>1 DEF Types, Phases
<1> QED BY <1>1, <1>3, <1>4, PhaseFacts DEF Phases

-----------------------------------------------------------------------------
(* The publications under objects/ and in the stages                       *)

LEMMA SyncedFacts ==
  ASSUME IInv, NEW p \in Procs, Publication(p) \/ Deletion(p) \/ Recovery(p)
  PROVE  /\ \A id \in Ids : synced'.objects[id] \in {objects[id], synced.objects[id]}
         /\ \A k \in Keys : synced'.staging[k] \in {staging[k], synced.staging[k], staging'[k]}
<1>1. synced \in [objects : [Ids -> Entries], staging : [Keys -> Entries]]
  BY DEF IInv, Types
<1>2. CASE synced' = StagingSynced
  BY <1>1, <1>2 DEF StagingSynced
<1>3. CASE synced' = ObjectsSynced
  BY <1>1, <1>3 DEF ObjectsSynced
<1>4. CASE synced' = [synced EXCEPT !.staging = staging']
  BY <1>1, <1>4
<1> QED BY <1>2, <1>3, <1>4, Untouched
       DEF SyncStage, Reject, SyncObjects, SyncStaging, SyncRemoval, RecoverEnd

LEMMA ObjectsStep ==
  ASSUME IInv, NEW p \in Procs, Publication(p) \/ Deletion(p) \/ Recovery(p)
  PROVE  ObjectsGood(objects)'
<1>1. /\ Types /\ objects \in [Ids -> Entries] /\ staging \in [Keys -> Entries]
      /\ ObjectsGood(objects) /\ kind' = kind
  BY Untouched DEF IInv, Types, Contents
<1>2. retired \subseteq retired'
  BY Untouched DEF Delete
<1>3. ASSUME NEW id \in Ids, objects'[id] = objects[id]
      PROVE  /\ objects'[id].record # Nothing => objects'[id].record.id = id
             /\ kind' = "local" => LocalEntry(objects'[id])
             /\ Torn(objects'[id]) => id \in retired'
  BY <1>1, <1>2, <1>3 DEF ObjectsGood
<1>4. ASSUME NEW id \in Ids, objects'[id] # objects[id]
      PROVE  /\ objects'[id].record # Nothing => objects'[id].record.id = id
             /\ kind' = "local" => LocalEntry(objects'[id])
             /\ Torn(objects'[id]) => id \in retired'
  <2>0. /\ objects[id].record # Nothing => objects[id].record.id = id
        /\ kind = "local" => LocalEntry(objects[id])
        /\ Torn(objects[id]) => id \in retired
    BY <1>1 DEF ObjectsGood
  <2>1. CASE Publish(p)
    BY <1>1, <1>4, <2>1, CallFacts, WholeFacts DEF Publish, Relies
  <2>2. CASE RemoveObject(p)
    <3>1. op[p].record.id \in retired /\ id = op[p].record.id
      BY <1>1, <1>4, <2>2, CallFacts DEF RemoveObject, Relies
    <3>2. objects'[id] = Absent \/ objects'[id] \in Remains(objects[id])
      BY <1>1, <2>2, <3>1 DEF RemoveObject
    <3> QED BY <1>1, <1>2, <2>0, <3>1, <3>2, AbsentFacts, RemainsFacts
  <2>3. CASE PutBundle(p)
    <3>1. /\ id = op[p].record.id /\ id \notin retired /\ kind = "s3"
          /\ objects[id].record = Nothing /\ op[p].record.data \in Data
      BY <1>1, <1>4, <2>3, CallFacts DEF PutBundle, Relies, BucketSteps
    <3>2. objects' = [objects EXCEPT ![id].bundle = op[p].record.data]
      BY <1>4, <2>3, <3>1 DEF PutBundle
    <3>3. objects'[id].record = Nothing /\ objects'[id].dir = objects[id].dir
      BY <1>1, <3>1, <3>2, BundleFacts
    <3> QED BY <1>1, <2>0, <3>1, <3>3 DEF Torn, Whole
  <2>4. CASE PutRecord(p)
    <3>1. /\ id = op[p].record.id /\ id \notin retired /\ kind = "s3"
          /\ objects[id].bundle = op[p].record.data /\ op[p].record \in Records
      BY <1>1, <1>4, <2>4, CallFacts DEF PutRecord, Relies, BucketSteps
    <3>2. objects' = [objects EXCEPT ![id].record = op[p].record]
      BY <1>4, <2>4, <3>1 DEF PutRecord
    <3>3. objects'[id].record = op[p].record /\ objects'[id].bundle = objects[id].bundle
      BY <1>1, <3>1, <3>2, RecordPutFacts
    <3> QED BY <1>1, <3>1, <3>3, RecordFacts DEF Torn, Whole
  <2>5. CASE RemoveBundle(p)
    <3>1. id = op[p].record.id /\ id \in retired /\ kind = "s3"
      BY <1>1, <1>4, <2>5, CallFacts DEF RemoveBundle, Relies, BucketSteps
    <3>2. objects' = [objects EXCEPT ![id].bundle = Nothing]
      BY <1>4, <2>5, <3>1 DEF RemoveBundle
    <3>3. objects'[id].record = objects[id].record
      BY <1>1, <3>1, <3>2, BundleFacts
    <3> QED BY <1>1, <1>2, <2>0, <3>1, <3>3
  <2>6. CASE RemoveRecord(p)
    <3>1. id = op[p].record.id /\ id \in retired /\ kind = "s3"
      BY <1>1, <1>4, <2>6, CallFacts DEF RemoveRecord, Relies, BucketSteps
    <3>2. objects' = [objects EXCEPT ![id].record = Nothing]
      BY <1>4, <2>6, <3>1 DEF RemoveRecord
    <3>3. objects'[id].record = Nothing
      BY <1>1, <3>1, <3>2, RecordPutFacts
    <3> QED BY <1>1, <1>2, <2>0, <3>1, <3>3
  <2> QED BY <1>4, <2>1, <2>2, <2>3, <2>4, <2>5, <2>6, Untouched
<1> QED BY <1>3, <1>4 DEF ObjectsGood

LEMMA StagesStep ==
  ASSUME IInv, NEW p \in Procs, Publication(p) \/ Deletion(p) \/ Recovery(p)
  PROVE  StagesGood(staging)'
<1>1. staging \in [Keys -> Entries] /\ StagesGood(staging)
  BY DEF IInv, Types, Contents
<1>2. ASSUME NEW k \in Keys, staging'[k] # staging[k]
      PROVE  /\ LocalEntry(staging'[k])
             /\ staging'[k].record # Nothing => staging'[k].record.key = k
  <2>1. LocalEntry(staging[k]) /\ (staging[k].record # Nothing => staging[k].record.key = k)
    BY <1>1 DEF StagesGood
  <2>2. \/ staging'[k] \in Remains(staging[k]) \cup {Absent}
        \/ Stage(p) /\ k = op[p].record.key /\ staging'[k] = WholeEntry(op[p].record)
    BY <1>1, <1>2, CallFacts, Untouched DEF Stage, Publish, Reject, RecoverStage, RecoverFails
  <2>3. Stage(p) => op[p].record \in Records
    BY CallFacts DEF Stage
  <2> QED BY <1>1, <2>1, <2>2, <2>3, AbsentFacts, RemainsFacts, WholeFacts
<1> QED BY <1>1, <1>2 DEF StagesGood

LEMMA ContentsStep ==
  ASSUME IInv, NEW p \in Procs, Publication(p) \/ Deletion(p) \/ Recovery(p)
  PROVE  Contents'
<1>1. ObjectsGood(objects) /\ ObjectsGood(synced.objects) /\ StagesGood(staging)
      /\ StagesGood(synced.staging) /\ ObjectsGood(objects)' /\ StagesGood(staging)'
  BY ObjectsStep, StagesStep DEF IInv, Contents
<1>2. kind' = kind /\ retired \subseteq retired'
  BY Untouched DEF Delete
<1>3. ObjectsGood(synced.objects)'
  BY <1>1, <1>2, SyncedFacts DEF ObjectsGood
<1>4. StagesGood(synced.staging)'
  BY <1>1, SyncedFacts DEF StagesGood
<1> QED BY <1>1, <1>3, <1>4 DEF Contents

-----------------------------------------------------------------------------
(* What was told                                                           *)

\* A step leaves what was told where it is.
LEMMA KeptFacts ==
  ASSUME IInv, NEW p \in Procs, Publication(p) \/ Deletion(p) \/ Recovery(p),
         NEW id \in Ids, told[id] # Nothing
  PROVE  objects'[id] = objects[id]
<1>1. /\ objects \in [Ids -> Entries] /\ Whole(objects[id]) /\ objects[id].record # Nothing
      /\ kind = "local" => LocalEntry(objects[id])
  BY DEF IInv, Types, Told, Contents, ObjectsGood
<1>2. kind = "local" => objects[id].dir
  BY <1>1, LocalFacts
<1>3. ASSUME objects'[id] # objects[id]
      PROVE  /\ op[p].record.id = id /\ Relies(p)
             /\ op[p].step \in {"admit", "removeObject", "putBundle", "putRecord",
                                "removeBundle", "removeRecord"}
             /\ op[p].step = "admit" => ~objects[id].dir
  BY <1>1, <1>3, CallFacts, Untouched
     DEF Publish, RemoveObject, PutBundle, PutRecord, RemoveBundle, RemoveRecord
<1> QED BY <1>1, <1>2, <1>3, CallFacts DEF Relies, LocalSteps

\* An answer is what can be opened, and in a bucket its deletion has not begun.
LEMMA AnswerFacts ==
  ASSUME IInv, NEW p \in Procs, Publication(p) \/ Deletion(p) \/ Recovery(p),
         NEW id \in Ids, told'[id] # Nothing, told'[id] # told[id]
  PROVE  /\ objects'[id] = objects[id] /\ Whole(objects[id])
         /\ objects[id].record = told'[id]
         /\ kind = "local" => synced'.objects[id] = objects[id]
         /\ kind = "s3" => id \notin retired'
<1>1. /\ Types /\ objects \in [Ids -> Entries] /\ told \in [Ids -> Records \cup {Nothing}]
      /\ synced \in [objects : [Ids -> Entries], staging : [Keys -> Entries]]
      /\ objects[id].record # Nothing => objects[id].record.id = id
      /\ kind = "local" => LocalEntry(objects[id])
      /\ Torn(objects[id]) => id \in retired
      /\ StagesGood(staging)
  BY DEF IInv, Types, Contents, ObjectsGood
<1>2. CASE \E r \in Requests : PublishedBefore(p, r)
  <2>1. PICK r \in Requests : PublishedBefore(p, r)
    BY <1>2
  <2>2. r \in Records /\ r.id \in Ids /\ objects[r.id].record \in Records
    BY <1>1, <2>1, RecordFacts DEF PublishedBefore, Whole, Entries
  <2>3. r.id = id /\ told'[id] = [r EXCEPT !.data = objects[r.id].record.data]
    BY <1>1, <2>1, <2>2 DEF PublishedBefore, Answer
  <2>4. told'[id] = objects[id].record
    BY <2>1, <2>2, <2>3, MatchFacts DEF PublishedBefore
  <2> QED BY <1>1, <2>1, <2>3, <2>4 DEF PublishedBefore, Locally, files
<1>3. CASE SyncStaging(p)
  <2>1. /\ op[p].record \in Records /\ op[p].record.id \in Ids
        /\ objects[op[p].record.id] = WholeEntry(op[p].record) /\ kind = "local"
    BY <1>3, CallFacts DEF SyncStaging, Relies, LocalSteps
  <2>2. synced' = StagingSynced /\ Answer(op[p].record, op[p].record)
    BY <1>3 DEF SyncStaging, Answers
  <2>3. op[p].record.id = id /\ told'[id] = [op[p].record EXCEPT !.data = op[p].record.data]
    BY <1>1, <2>1, <2>2 DEF Answer
  <2>4. told'[id] = op[p].record
    BY <2>1, <2>3 DEF Records
  <2> QED BY <1>1, <1>3, <2>1, <2>2, <2>3, <2>4, WholeFacts DEF SyncStaging, StagingSynced
<1>4. CASE \E d \in Ids : Delete(p, d)
  BY <1>1, <1>4 DEF Delete
<1>5. CASE RecoverEnd(p)
  <2>1. objects[id].record = told'[id] /\ ~Torn(objects[id]) /\ kind = "local"
    BY <1>1, <1>5, CallFacts DEF RecoverEnd, LocalSteps
  <2>2. Whole(objects[id])
    BY <2>1 DEF Torn
  <2> QED BY <1>1, <1>5, <2>1, <2>2 DEF RecoverEnd, StagingSynced
<1>6. CASE \E r \in Requests : PublishedInBucket(p, r)
  <2>1. PICK r \in Requests : PublishedInBucket(p, r)
    BY <1>6
  <2>2. r \in Records /\ r.id \in Ids /\ objects[r.id].record \in Records
    BY <1>1, <2>1, RecordFacts DEF PublishedInBucket, Entries
  <2>3. r.id = id /\ told'[id] = [r EXCEPT !.data = objects[r.id].record.data]
    BY <1>1, <2>1, <2>2 DEF PublishedInBucket, Answer
  <2>4. told'[id] = objects[id].record
    BY <2>1, <2>2, <2>3, MatchFacts DEF PublishedInBucket
  <2>5. id \notin retired /\ Whole(objects[id])
    BY <1>1, <2>1, <2>3 DEF PublishedInBucket, Asked, Torn
  <2> QED BY <1>1, <2>1, <2>4, <2>5 DEF PublishedInBucket, files
<1>7. CASE LockBucket(p)
  <2>1. /\ op[p].record \in Records /\ op[p].record.id \in Ids
        /\ op[p].record.id \notin retired /\ kind = "s3"
    BY <1>7, CallFacts DEF LockBucket, Relies, BucketSteps
  <2> DEFINE existing == objects[op[p].record.id].record
  <2>2. existing # Nothing /\ SamePublication(existing, op[p].record) /\ Answer(op[p].record, existing)
    BY <1>7 DEF LockBucket
  <2>3. existing \in Records
    BY <1>1, <2>1, <2>2 DEF Entries
  <2>4. op[p].record.id = id /\ told'[id] = [op[p].record EXCEPT !.data = existing.data]
    BY <1>1, <2>1, <2>2 DEF Answer
  <2>5. told'[id] = objects[id].record
    BY <2>1, <2>2, <2>3, <2>4, MatchFacts DEF SamePublication
  <2>6. Whole(objects[id])
    BY <1>1, <2>1, <2>2, <2>4 DEF Torn
  <2> QED BY <1>1, <1>7, <2>1, <2>4, <2>5, <2>6 DEF LockBucket, files
<1>8. CASE AnswerPut(p)
  <2>1. /\ op[p].record \in Records /\ op[p].record.id \in Ids
        /\ op[p].record.id \notin retired /\ kind = "s3"
        /\ objects[op[p].record.id].bundle = op[p].record.data
        /\ objects[op[p].record.id].record = op[p].record
    BY <1>8, CallFacts DEF AnswerPut, Relies, BucketSteps
  <2>2. op[p].record.id = id /\ told'[id] = [op[p].record EXCEPT !.data = op[p].record.data]
    BY <1>1, <1>8, <2>1 DEF AnswerPut, Answer
  <2>3. told'[id] = op[p].record
    BY <2>1, <2>2 DEF Records
  <2>4. Whole(objects[id])
    BY <2>1, <2>2, RecordFacts DEF Whole
  <2> QED BY <1>1, <1>8, <2>1, <2>2, <2>3, <2>4 DEF AnswerPut, files
<1> QED BY <1>2, <1>3, <1>4, <1>5, <1>6, <1>7, <1>8, Untouched

LEMMA ToldStep ==
  ASSUME IInv, NEW p \in Procs, Publication(p) \/ Deletion(p) \/ Recovery(p)
  PROVE  Told'
<1>1. kind' = kind /\ told \in [Ids -> Records \cup {Nothing}]
  BY Untouched DEF IInv, Types
<1>2. ASSUME NEW id \in Ids, told'[id] # Nothing
      PROVE  /\ Whole(objects'[id]) /\ objects'[id].record = told'[id]
             /\ kind' = "local" => synced'.objects[id] = objects'[id]
             /\ kind' = "s3" => id \notin retired'
  <2>1. CASE told'[id] # told[id]
    BY <1>1, <1>2, <2>1, AnswerFacts
  <2>2. CASE told'[id] = told[id]
    <3>1. /\ Whole(objects[id]) /\ objects[id].record = told[id]
          /\ kind = "local" => synced.objects[id] = objects[id]
          /\ kind = "s3" => id \notin retired
      BY <1>2, <2>2 DEF IInv, Told
    <3>2. objects'[id] = objects[id] /\ synced'.objects[id] \in {objects[id], synced.objects[id]}
      BY <1>2, <2>2, KeptFacts, SyncedFacts
    <3>3. id \notin retired => id \notin retired'
      BY <1>1, <1>2, Untouched DEF Delete
    <3> QED BY <1>1, <2>2, <3>1, <3>2, <3>3
  <2> QED BY <2>1, <2>2
<1> QED BY <1>2 DEF Told

-----------------------------------------------------------------------------
(* What the calls rely on                                                  *)

LEMMA LocalAlone ==
  ASSUME IInv, NEW p \in Procs, Publication(p) \/ Deletion(p) \/ Recovery(p), kind = "local"
  PROVE  \A q \in Procs \ {p} : op'[q].step = "idle"
<1>1. \/ op[p].step \notin Unlocked \/ writer = Nothing
      \/ phase = "down" \/ op[p].step \in {"staged", "removeBundle", "removeRecord"}
      \/ phase = "recovering" /\ writer = p
  <2>1. CASE \E r \in Requests :
               \/ PublishedBefore(p, r) \/ PublishStage(p, r) \/ CreateStage(p, r)
               \/ PublishedInBucket(p, r) \/ StageBundle(p, r)
    BY <2>1 DEF PublishedBefore, PublishStage, CreateStage, PublishedInBucket, StageBundle, Locally
  <2>2. CASE \E id \in Ids : Delete(p, id)
    BY <2>2 DEF Delete, Locally
  <2>3. CASE Recovery(p)
    BY <2>3 DEF Recovery, RecoverBegin, RecoverLitter, RecoverEnd, RecoverFails,
         RecoverStage, RecoverPublish, Recovering, Unlocked
  <2>4. \/ op[p].step \notin Unlocked
        \/ op[p].step \in {"staged", "removeBundle", "removeRecord"}
        \/ Recovery(p)
        \/ \E id \in Ids : Delete(p, id)
        \/ \E r \in Requests :
               \/ PublishedBefore(p, r) \/ PublishStage(p, r) \/ CreateStage(p, r)
               \/ PublishedInBucket(p, r) \/ StageBundle(p, r)
    BY DEF Publication, Deletion, Unlocked, Stage, SyncStage, Publish, Reject, PublishFails,
         SyncObjects, SyncStaging, LockBucket, PutBundle, PutRecord, AnswerPut, RemoveObject,
         SyncRemoval, RemoveBundle, RemoveRecord
  <2> QED BY <2>1, <2>2, <2>3, <2>4
<1>2. writer \in {p, Nothing}
  BY <1>1, CallFacts DEF IInv, Phases, BucketSteps
<1> QED BY <1>2, Alone, StepFacts

\* A step of p leaves what the other calls rely on.
LEMMA OthersRely ==
  ASSUME IInv, NEW p \in Procs, Publication(p) \/ Deletion(p) \/ Recovery(p),
         NEW q \in Procs \ {p}
  PROVE  Relies(q)'
<1>1. CASE kind = "local"
  BY <1>1, LocalAlone DEF Relies
<1>2. CASE kind = "s3"
  <2>1. op'[q] = op[q] /\ Relies(q) /\ op[q].step \notin LocalSteps
    BY <1>2, StepFacts, CallFacts
  <2>2. CASE op[q].step \in {"idle", "recover"}
    BY <2>1, <2>2 DEF Relies
  <2>3. CASE op[q].step \in {"removeBundle", "removeRecord"}
    <3>1. op[q].record.id \in retired /\ told[op[q].record.id] = Nothing /\ op[q].record.id \in Ids
      BY <2>1, <2>3, CallFacts DEF Relies
    <3>2. op[q].record.id \in retired'
      BY <3>1, Untouched DEF Delete
    <3>3. told'[op[q].record.id] = Nothing
      BY <1>2, <3>1, <3>2, AnswerFacts
    <3> QED BY <2>1, <2>3, <3>2, <3>3 DEF Relies
  <2>4. CASE op[q].step \in {"staged", "putBundle", "putRecord", "put"}
    <3>1. op[q].record.id \notin retired /\ op[q].record.id \in Ids /\ op[q].record # Nothing
      BY <2>1, <2>4, CallFacts, RecordFacts DEF Relies
    <3>2. op[q].record.id \notin retired'
      BY <3>1, Untouched DEF Delete, Unused
    <3>3. ASSUME op[q].step # "staged"
          PROVE  objects'[op[q].record.id] = objects[op[q].record.id]
      <4>1. writer # p /\ writer = q /\ objects \in [Ids -> Entries]
        BY <2>4, <3>3, CallFacts DEF Unlocked, IInv, Types
      <4>2. ASSUME NEW id \in Ids, objects'[id] # objects[id]
            PROVE  id \in retired
        <5>1. op[p].step \in {"removeBundle", "removeRecord"} /\ op[p].record.id = id
          BY <4>1, <4>2, CallFacts, Untouched
             DEF Publish, RemoveObject, PutBundle, PutRecord, RemoveBundle, RemoveRecord, Unlocked
        <5> QED BY <5>1, CallFacts DEF Relies
      <4> QED BY <3>1, <4>2
    <3> QED BY <2>1, <2>4, <3>2, <3>3 DEF Relies
  <2> QED BY <2>1, <2>2, <2>3, <2>4, CallFacts DEF Steps, LocalSteps
<1> QED BY <1>1, <1>2, CallFacts

\* The next step of p can rely on what the last one left.
LEMMA OwnRelies ==
  ASSUME IInv, NEW p \in Procs, Publication(p) \/ Deletion(p) \/ Recovery(p)
  PROVE  Relies(p)'
<1>0. /\ Types /\ op \in [Procs -> [step : Steps, record : Records \cup {Nothing}]]
      /\ objects \in [Ids -> Entries] /\ staging \in [Keys -> Entries]
      /\ told \in [Ids -> Records \cup {Nothing}]
  BY DEF IInv, Types
<1> DEFINE r == op[p].record
<1>1. CASE op'[p].step \in {"idle", "recover"}
  BY <1>1 DEF Relies
<1>2. CASE Stage(p) /\ op'[p].step = "syncStage"
  <2>1. r \in Records /\ r.key \in Keys
    BY <1>2, CallFacts DEF Stage
  <2>2. op'[p].record = r /\ staging' = [staging EXCEPT ![r.key] = WholeEntry(r)]
    BY <1>0, <1>2, GotoFacts, ReturnFacts DEF Stage, Steps
  <2> QED BY <1>0, <1>2, <2>1, <2>2 DEF Relies
<1>3. CASE SyncStage(p) /\ op'[p].step = "admit"
  BY <1>0, <1>3, GotoFacts, ReturnFacts, CallFacts DEF SyncStage, Steps, Relies
<1>4. CASE Publish(p)
  <2>1. r \in Records /\ r.id \in Ids /\ staging[r.key] = WholeEntry(r)
    BY <1>4, CallFacts DEF Publish, Relies
  <2>2. op'[p].record = r /\ op'[p].step = "syncObjects"
    BY <1>0, <1>4, GotoFacts DEF Publish, Steps
  <2> QED BY <1>0, <1>4, <2>1, <2>2 DEF Publish, Relies
<1>5. CASE SyncObjects(p) /\ op'[p].step = "syncStaging"
  BY <1>0, <1>5, GotoFacts, ReturnFacts, CallFacts DEF SyncObjects, Steps, Relies
<1>6. CASE \E q \in Requests : PublishStage(p, q)
  <2>1. PICK q \in Requests : PublishStage(p, q)
    BY <1>6
  <2>2. q.key \in Keys /\ Whole(staging[q.key])
    BY <2>1, RecordFacts DEF PublishStage
  <2>3. op'[p].step = "admit" /\ op'[p].record = staging[q.key].record
    BY <1>0, <2>1, <2>2, StagedFacts, BeginFacts DEF PublishStage, Steps
  <2> QED BY <2>1, <2>2, <2>3, StagedFacts DEF PublishStage, files, Relies
<1>7. CASE \E k \in Keys : RecoverPublish(p, k)
  <2>1. PICK k \in Keys : RecoverPublish(p, k)
    BY <1>7
  <2>2. op'[p].step = "admit" /\ op'[p].record = staging[k].record /\ Whole(staging[k])
    BY <1>0, <2>1, StagedFacts, BeginFacts DEF RecoverPublish, Steps
  <2> QED BY <2>1, <2>2, StagedFacts DEF RecoverPublish, files, Relies
<1>8. CASE \E q \in Requests : CreateStage(p, q)
  BY <1>0, <1>8, RecordFacts, BeginFacts DEF CreateStage, Steps, Relies
<1>9. CASE \E id \in Ids : Delete(p, id)
  <2>1. PICK id \in Ids : Delete(p, id)
    BY <1>9
  <2>2. op'[p].step \in {"removeObject", "removeBundle"} /\ op'[p].record.id = id
    BY <1>0, <2>1, DeletedFacts, BeginFacts DEF Delete, Steps
  <2> QED BY <1>0, <2>1, <2>2 DEF Delete, Relies
<1>10. CASE RemoveObject(p) /\ op'[p].step = "syncRemoval"
  BY <1>0, <1>10, GotoFacts, ReturnFacts, CallFacts DEF RemoveObject, Steps, Relies
<1>11. CASE \E q \in Requests : StageBundle(p, q)
  BY <1>0, <1>11, RecordFacts, BeginFacts DEF StageBundle, Asked, Steps, Relies
<1>12. CASE LockBucket(p) /\ op'[p].step = "putBundle"
  <2>1. op'[p].record = r /\ objects[r.id].record = Nothing /\ objects' = objects /\ retired' = retired
    BY <1>0, <1>12, GotoFacts, ReturnFacts DEF LockBucket, Steps, files
  <2> QED BY <1>12, <2>1, CallFacts DEF LockBucket, Relies
<1>13. CASE PutBundle(p) /\ op'[p].step = "putRecord"
  <2>1. /\ op'[p].record = r /\ objects' = [objects EXCEPT ![r.id].bundle = r.data]
        /\ retired' = retired
    BY <1>0, <1>13, GotoFacts, ReturnFacts DEF PutBundle, Steps
  <2>2. r.id \in Ids /\ r.data \in Data /\ objects[r.id].record = Nothing /\ r.id \notin retired
    BY <1>13, CallFacts DEF PutBundle, Relies
  <2>3. objects'[r.id].bundle = r.data /\ objects'[r.id].record = Nothing
    BY <1>0, <2>1, <2>2, BundleFacts
  <2> QED BY <1>13, <2>1, <2>2, <2>3 DEF Relies
<1>14. CASE PutRecord(p) /\ op'[p].step = "put"
  <2>1. /\ op'[p].record = r /\ objects' = [objects EXCEPT ![r.id].record = r]
        /\ retired' = retired
    BY <1>0, <1>14, GotoFacts, ReturnFacts DEF PutRecord, Steps
  <2>2. r.id \in Ids /\ r \in Records /\ objects[r.id].bundle = r.data /\ r.id \notin retired
    BY <1>14, CallFacts DEF PutRecord, Relies
  <2>3. objects'[r.id].bundle = r.data /\ objects'[r.id].record = r
    BY <1>0, <2>1, <2>2, RecordPutFacts
  <2> QED BY <1>14, <2>1, <2>2, <2>3 DEF Relies
<1>15. CASE RemoveBundle(p) /\ op'[p].step = "removeRecord"
  BY <1>0, <1>15, GotoFacts, IdleFacts, CallFacts DEF RemoveBundle, Leave, Steps, Relies
<1>16. ASSUME Publication(p), op'[p].step \notin {"idle", "recover"}
       PROVE  Relies(p)'
  <2>1. op'[p].step \notin {"idle", "recover"} => ~Return(p) /\ op' # [op EXCEPT ![p] = Idle]
    BY <1>0, ReturnFacts, IdleFacts DEF Types
  <2>2. CASE Stage(p) \/ SyncStage(p) \/ SyncObjects(p)
    BY <1>0, <1>2, <1>3, <1>5, <1>16, <2>1, <2>2, GotoFacts DEF Stage, SyncStage, SyncObjects, Steps
  <2>3. CASE Reject(p) \/ PublishFails(p) \/ SyncStaging(p) \/ AnswerPut(p)
    BY <1>16, <2>1, <2>3 DEF Reject, GiveUp, PublishFails, SyncStaging, AnswerPut
  <2>4. CASE LockBucket(p) \/ PutBundle(p) \/ PutRecord(p)
    BY <1>0, <1>12, <1>13, <1>14, <1>16, <2>1, <2>4, GotoFacts
       DEF LockBucket, PutBundle, PutRecord, Steps
  <2>5. CASE \E q \in Requests : PublishedBefore(p, q) \/ PublishedInBucket(p, q)
    BY <1>0, <1>16, <2>5, CallFacts DEF PublishedBefore, PublishedInBucket, Asked, Called
  <2> QED BY <1>4, <1>6, <1>8, <1>11, <1>16, <2>2, <2>3, <2>4, <2>5 DEF Publication
<1>17. ASSUME Deletion(p), op'[p].step \notin {"idle", "recover"}
       PROVE  Relies(p)'
  <2>1. op'[p].step \notin {"idle", "recover"} => ~Return(p) /\ op' # [op EXCEPT ![p] = Idle]
    BY <1>0, ReturnFacts, IdleFacts DEF Types
  <2>2. CASE RemoveObject(p) \/ RemoveBundle(p)
    BY <1>0, <1>10, <1>15, <1>17, <2>1, <2>2, GotoFacts DEF RemoveObject, RemoveBundle, Leave, Steps
  <2>3. CASE SyncRemoval(p) \/ RemoveRecord(p)
    BY <1>17, <2>1, <2>3 DEF SyncRemoval, RemoveRecord, Leave
  <2> QED BY <1>9, <1>17, <2>2, <2>3 DEF Deletion
<1>18. ASSUME Recovery(p), op'[p].step \notin {"idle", "recover"}
       PROVE  Relies(p)'
  BY <1>0, <1>7, <1>18, BeginFacts, IdleFacts
     DEF Recovery, RecoverBegin, RecoverLitter, RecoverEnd, RecoverFails, RecoverStage,
         Recovering, GiveUp, Steps
<1> QED BY <1>1, <1>16, <1>17, <1>18

LEMMA CallsStep ==
  ASSUME IInv, NEW p \in Procs, Publication(p) \/ Deletion(p) \/ Recovery(p)
  PROVE  Calls'
BY OwnRelies, OthersRely DEF Calls

-----------------------------------------------------------------------------
(* What a recovery has looked at                                           *)

LEMMA RecoveredStep ==
  ASSUME IInv, NEW p \in Procs, Publication(p) \/ Deletion(p) \/ Recovery(p)
  PROVE  Recovered'
<1> SUFFICES ASSUME phase' = "recovering", NEW k \in Keys, staging'[k].dir
             PROVE  \/ k \in todo'
                    \/ \E q \in Procs : op'[q].step = "admit" /\ op'[q].record.key = k
  BY DEF Recovered
<1>0. /\ Types /\ staging \in [Keys -> Entries]
      /\ op \in [Procs -> [step : Steps, record : Records \cup {Nothing}]]
      /\ phase \in {"down", "recovering", "serving"}
  BY DEF IInv, Types
<1>1. CASE phase = "recovering"
  <2>1. kind = "local" /\ op[p].step \in RecoverySteps
    BY <1>1, CallFacts
  <2>2. \A q \in Procs \ {p} : op[q].step = "idle"
    BY <2>1, LocalAlone, StepFacts
  <2>3. staging[k].dir => k \in todo \/ (op[p].step = "admit" /\ op[p].record.key = k)
    BY <1>1, <2>2 DEF IInv, Recovered
  <2>4. CASE Publish(p) \/ Reject(p)
    <3>1. op[p].step = "admit" /\ op[p].record.key \in Keys /\ todo' = todo
      BY <2>4, CallFacts DEF Publish, Reject, GiveUp
    <3>2. staging' = [staging EXCEPT ![op[p].record.key] = Absent]
      BY <2>4 DEF Publish, Reject, GiveUp
    <3> QED BY <1>0, <2>3, <3>1, <3>2, AbsentFacts
  <2>5. CASE SyncObjects(p) \/ SyncStaging(p) \/ RecoverLitter(p)
    BY <2>3, <2>5 DEF SyncObjects, SyncStaging, RecoverLitter
  <2>6. CASE \E j \in Keys : RecoverStage(p, j)
    BY <1>0, <2>3, <2>6, AbsentFacts DEF RecoverStage, Recovering
  <2>7. CASE \E j \in Keys : RecoverPublish(p, j)
    <3>1. PICK j \in Keys : RecoverPublish(p, j)
      BY <2>7
    <3>2. op'[p].step = "admit" /\ op'[p].record = staging[j].record /\ staging[j].record.key = j
      BY <1>0, <3>1, StagedFacts, BeginFacts DEF RecoverPublish, Steps
    <3>3. staging' = staging /\ todo' = todo \ {j} /\ op[p].step = "recover"
      BY <3>1 DEF RecoverPublish, Recovering, files
    <3> QED BY <2>3, <3>2, <3>3
  <2>8. ~(RecoverBegin(p) \/ RecoverEnd(p) \/ RecoverFails(p))
    BY <1>1 DEF RecoverBegin, RecoverEnd, RecoverFails, GiveUp
  <2>9. ~Deletion(p)
    BY <1>1, <2>1 DEF Deletion, Delete, Called, RemoveObject, SyncRemoval, RemoveBundle,
         RemoveRecord, RecoverySteps
  <2>10. Publication(p) => Publish(p) \/ Reject(p) \/ SyncObjects(p) \/ SyncStaging(p)
    BY <1>1, <2>1 DEF Publication, PublishedBefore, PublishStage, CreateStage, PublishedInBucket,
         StageBundle, Asked, Called, Stage, SyncStage, PublishFails, LockBucket, PutBundle,
         PutRecord, AnswerPut, RecoverySteps
  <2> QED BY <2>4, <2>5, <2>6, <2>7, <2>8, <2>9, <2>10 DEF Recovery
<1>2. CASE phase # "recovering"
  <2>1. RecoverBegin(p)
    BY <1>0, <1>2, CallFacts DEF Publication, Deletion, Recovery, GiveUp, files,
         Stage, SyncStage, Publish, Reject, PublishFails, SyncObjects,
         SyncStaging, LockBucket, PutBundle, PutRecord, AnswerPut, RemoveObject,
         SyncRemoval, RemoveBundle, RemoveRecord, RecoverLitter, RecoverEnd, RecoverFails,
         PublishedBefore, PublishStage, CreateStage, PublishedInBucket, StageBundle, Delete,
         RecoverStage, RecoverPublish
  <2> QED BY <2>1 DEF RecoverBegin, files
<1> QED BY <1>1, <1>2

-----------------------------------------------------------------------------
(* The invariant                                                           *)

LEMMA InitIInv == Init => IInv
<1> SUFFICES ASSUME Init PROVE IInv
  OBVIOUS
<1>1. Types
  BY RepositoryAssumption, AbsentFacts DEF Init, Types, Idle, Steps
<1>2. Locked /\ Phases /\ Calls /\ Recovered
  BY DEF Init, Locked, Phases, Calls, Relies, Recovered, Idle, Unlocked, LocalSteps,
         BucketSteps
<1>3. Contents /\ Told
  BY AbsentFacts DEF Init, Contents, ObjectsGood, StagesGood, Told
<1> QED BY <1>1, <1>2, <1>3 DEF IInv

\* C2 or its node stops.
LEMMA StopsIInv ==
  ASSUME IInv, ProcessStops \/ PowerFails
  PROVE  IInv'
<1>0. /\ Types /\ Contents /\ Told
      /\ objects \in [Ids -> Entries] /\ staging \in [Keys -> Entries]
      /\ synced \in [objects : [Ids -> Entries], staging : [Keys -> Entries]]
      /\ synced.objects \in [Ids -> Entries] /\ synced.staging \in [Keys -> Entries]
  BY DEF IInv, Types
<1>1. /\ phase' = IF kind = "local" THEN "down" ELSE "serving"
      /\ writer' = Nothing /\ op' = [p \in Procs |-> Idle] /\ todo' = {}
      /\ UNCHANGED <<kind, litter, told, retired>>
  BY DEF ProcessStops, PowerFails, Stops
<1>2. /\ objects' \in {objects, synced.objects} /\ staging' \in {staging, synced.staging}
      /\ \/ synced' = synced /\ objects' = objects
         \/ synced' = [objects |-> objects', staging |-> staging'] /\ kind = "local"
  BY DEF ProcessStops, PowerFails
<1>3. Types'
  BY <1>0, <1>1, <1>2 DEF Types, Idle, Steps
<1>4. Locked' /\ Phases' /\ Calls' /\ Recovered'
  BY <1>0, <1>1 DEF Types, Locked, Phases, Calls, Relies, Recovered, Idle, Unlocked, LocalSteps,
         BucketSteps
<1>5. Contents'
  BY <1>0, <1>1, <1>2 DEF Contents, ObjectsGood, StagesGood
<1>6. Told'
  BY <1>0, <1>1, <1>2 DEF Told
<1> QED BY <1>3, <1>4, <1>5, <1>6 DEF IInv

LEMMA NextIInv == IInv /\ [Next]_vars => IInv'
<1> SUFFICES ASSUME IInv, [Next]_vars PROVE IInv'
  OBVIOUS
<1>1. CASE ProcessStops \/ PowerFails
  BY <1>1, StopsIInv
<1>2. CASE \E p \in Procs : Publication(p) \/ Deletion(p) \/ Recovery(p)
  <2>1. PICK p \in Procs : Publication(p) \/ Deletion(p) \/ Recovery(p)
    BY <1>2
  <2> QED BY <2>1, TypesStep, LockedStep, PhasesStep, ContentsStep, ToldStep, CallsStep,
             RecoveredStep DEF IInv
<1>3. CASE UNCHANGED vars
  BY <1>3 DEF vars, files, IInv, Types, Locked, Phases, Contents, ObjectsGood, StagesGood,
              Told, Calls, Relies, Recovered
<1> QED BY <1>1, <1>2, <1>3 DEF Next

\* In every reachable state the steps of the calls, the directories and their
\* synced images, and what was told agree.
THEOREM InvariantHolds == Spec => []IInv
BY InitIInv, NextIInv, PTL DEF Spec

\* Every reachable state is of its type, and no step of a publication, a local
\* deletion or a recovery is taken without the writer lock.
THEOREM TypeCorrect == Spec => []TypeOK
<1>1. IInv => TypeOK
  BY DEF IInv, Types, Locked, TypeOK
<1> QED BY <1>1, InvariantHolds, PTL

\* Nothing but a deletion tears a publication, whatever fails or stops.
THEOREM TornOnlyByDeletion == Spec => []TornOnlyByDelete
<1>1. IInv => TornOnlyByDelete
  BY DEF IInv, Contents, ObjectsGood, TornOnlyByDelete
<1> QED BY <1>1, InvariantHolds, PTL

\* A recovery that ends with the list of what is published has removed or
\* published every stage.
THEOREM NothingLeftByRecovery == Spec => RecoveryLeavesNothing
<1>1. ASSUME IInv, [Next]_vars, phase = "recovering", phase' = "serving", told' # told
      PROVE  ~litter' /\ \A k \in Keys : ~staging'[k].dir
  <2>1. PICK p \in Procs : Publication(p) \/ Deletion(p) \/ Recovery(p)
    BY <1>1 DEF Next, ProcessStops, PowerFails, Stops, vars
  <2>2. RecoverEnd(p)
    <3>1. ~LockBucket(p) /\ ~AnswerPut(p)
      BY <1>1, <2>1, CallFacts DEF LockBucket, AnswerPut, BucketSteps
    <3> QED BY <1>1, <2>1, <3>1, Untouched DEF PublishedBefore, PublishedInBucket, Asked, Called,
              SyncStaging, Answers, Delete
  <2>3. /\ op[p].step = "recover" /\ todo = {} /\ ~litter' /\ staging' = staging
        /\ kind = "local" /\ writer = p
    BY <1>1, <2>1, <2>2, CallFacts DEF RecoverEnd, LocalSteps, Unlocked
  <2>4. \A q \in Procs : op[q].step # "admit"
    BY <1>1, <2>3, Alone
  <2> QED BY <1>1, <2>3, <2>4 DEF IInv, Recovered
<1>2. IInv /\ [Next]_vars =>
        [phase = "recovering" /\ phase' = "serving" /\ told' # told
           => ~litter' /\ \A k \in Keys : ~staging'[k].dir]_vars
  BY <1>1
<1> QED BY <1>2, InvariantHolds, PTL DEF Spec, RecoveryLeavesNothing

-----------------------------------------------------------------------------
(* Sums over finite sets, as MapThenSumSet computes them: it adds the       *)
(* weights of the members one by one, in an order of its own.               *)

Pick(s) == CHOOSE x \in s : TRUE

IsSum(g, w, S) ==
  g = [s \in SUBSET S |-> IF s = {} THEN 0 ELSE w[Pick(s)] + g[s \ {Pick(s)}]]

\* The least number that is in a set.
LEMMA LeastNumber ==
  ASSUME NEW N \in SUBSET Nat, N # {}
  PROVE  \E n \in N : \A m \in N : m >= n
<1> DEFINE R == OpToRel(<, Nat)
<1>1. IsWellFoundedOn(R, Nat)
  BY NatLessThanWellFounded
<1>2. \A x, y \in Nat : x < y => <<x, y>> \in R
  BY DEF OpToRel
<1> HIDE DEF R
<1>3. PICK n \in N : \A m \in N : ~(<<m, n>> \in R)
  BY <1>1, WFMin
<1>4. ASSUME NEW m \in N PROVE m >= n
  <2>1. m \in Nat /\ n \in Nat
    OBVIOUS
  <2>2. ~(m < n)
    BY <1>2, <1>3, <2>1
  <2> QED BY <2>1, <2>2
<1> QED BY <1>4

\* A set of finite sets has a member none smaller than which is in it.
LEMMA Smallest ==
  ASSUME NEW B, B # {}, \A s \in B : IsFiniteSet(s)
  PROVE  \E s \in B : \A t \in B : Cardinality(t) >= Cardinality(s)
<1> DEFINE N == {Cardinality(s) : s \in B}
<1>1. N \subseteq Nat /\ N # {}
  BY FS_CardinalityType
<1>2. PICK n \in N : \A m \in N : m >= n
  BY <1>1, LeastNumber
<1>3. PICK s \in B : n = Cardinality(s)
  BY <1>2
<1>4. \A t \in B : Cardinality(t) \in N
  OBVIOUS
<1> QED BY <1>2, <1>3, <1>4

LEMMA Without ==
  ASSUME NEW S, IsFiniteSet(S), NEW x \in S
  PROVE  /\ IsFiniteSet(S \ {x}) /\ Cardinality(S \ {x}) = Cardinality(S) - 1
         /\ Cardinality(S) \in Nat
BY FS_RemoveElement, FS_CardinalityType

LEMMA PickFacts == \A s : s # {} => Pick(s) \in s
BY DEF Pick

Small(S, n) == {s \in SUBSET S : Cardinality(s) <= n}

SumUpTo(g, w, S, n) ==
  g = [s \in Small(S, n) |-> IF s = {} THEN 0 ELSE w[Pick(s)] + g[s \ {Pick(s)}]]

LEMMA SumGrows ==
  ASSUME NEW w, NEW S, IsFiniteSet(S), NEW n \in Nat, NEW g, SumUpTo(g, w, S, n)
  PROVE  \E h : SumUpTo(h, w, S, n + 1)
<1> DEFINE h == [s \in Small(S, n + 1) |-> IF s = {} THEN 0 ELSE w[Pick(s)] + g[s \ {Pick(s)}]]
<1>1. \A s \in Small(S, n) : h[s] = g[s]
  <2>1. Small(S, n) \subseteq Small(S, n + 1)
    <3> SUFFICES ASSUME NEW s \in SUBSET S, Cardinality(s) <= n PROVE Cardinality(s) <= n + 1
      BY DEF Small
    <3>1. Cardinality(s) \in Nat
      BY FS_Subset, FS_CardinalityType
    <3> QED BY <3>1
  <2>2. \A s \in Small(S, n) : g[s] = IF s = {} THEN 0 ELSE w[Pick(s)] + g[s \ {Pick(s)}]
    BY DEF SumUpTo
  <2> QED BY <2>1, <2>2
<1>2. ASSUME NEW s \in Small(S, n + 1), s # {}
      PROVE  s \ {Pick(s)} \in Small(S, n)
  <2>1. Cardinality(s \ {Pick(s)}) = Cardinality(s) - 1 /\ Cardinality(s) \in Nat
    BY <1>2, PickFacts, FS_Subset, Without DEF Small
  <2> QED BY <2>1 DEF Small
<1>3. h = [s \in Small(S, n + 1) |-> IF s = {} THEN 0 ELSE w[Pick(s)] + h[s \ {Pick(s)}]]
  <2> HIDE DEF h
  <2>1. h = [s \in Small(S, n + 1) |-> IF s = {} THEN 0 ELSE w[Pick(s)] + g[s \ {Pick(s)}]]
    BY DEF h
  <2>2. \A s \in Small(S, n + 1) : s # {} => h[s \ {Pick(s)}] = g[s \ {Pick(s)}]
    BY <1>1, <1>2
  <2> QED BY <2>1, <2>2
<1> QED BY <1>3 DEF SumUpTo

\* There is a sum over any finite set.
LEMMA SumExists ==
  ASSUME NEW w, NEW S, IsFiniteSet(S)
  PROVE  \E g : IsSum(g, w, S)
<1> DEFINE N == {n \in Nat : ~\E g : SumUpTo(g, w, S, n)}
<1>1. N = {}
  <2> SUFFICES ASSUME N # {} PROVE FALSE
    OBVIOUS
  <2>1. PICK n \in N : \A m \in N : m >= n
    BY LeastNumber
  <2>2. CASE n = 0
    <3>1. Small(S, 0) \subseteq {{}}
      BY FS_Subset, FS_EmptySet, FS_CardinalityType DEF Small
    <3> DEFINE g == [s \in Small(S, 0) |-> 0]
    <3>2. SumUpTo(g, w, S, 0)
      BY <3>1 DEF SumUpTo
    <3> QED BY <2>2, <3>2
  <2>3. CASE n # 0
    <3>1. n - 1 \in Nat /\ n - 1 \notin N /\ (n - 1) + 1 = n
      BY <2>1, <2>3
    <3>2. PICK g : SumUpTo(g, w, S, n - 1)
      BY <3>1
    <3> QED BY <3>1, <3>2, SumGrows
  <2> QED BY <2>2, <2>3
<1>2. Cardinality(S) \in Nat
  BY FS_CardinalityType
<1>3. Small(S, Cardinality(S)) = SUBSET S
  BY FS_Subset DEF Small
<1>4. PICK g : SumUpTo(g, w, S, Cardinality(S))
  BY <1>1, <1>2
<1>5. IsSum(g, w, S)
  BY <1>3, <1>4 DEF IsSum, SumUpTo
<1> QED BY <1>5

LEMMA SumStep ==
  ASSUME NEW w, NEW S, NEW g, IsSum(g, w, S), NEW s \in SUBSET S
  PROVE  g[s] = IF s = {} THEN 0 ELSE w[Pick(s)] + g[s \ {Pick(s)}]
BY DEF IsSum

\* A sum of numbers is a number.
LEMMA SumType ==
  ASSUME NEW S, IsFiniteSet(S), NEW w \in [S -> Nat], NEW g, IsSum(g, w, S),
         NEW T \in SUBSET S
  PROVE  g[T] \in Nat
<1> DEFINE B == {s \in SUBSET S : g[s] \notin Nat}
<1> SUFFICES B = {}
  OBVIOUS
<1> SUFFICES ASSUME B # {} PROVE FALSE
  OBVIOUS
<1>1. PICK s \in B : \A t \in B : Cardinality(t) >= Cardinality(s)
  BY Smallest, FS_Subset
<1>2. g[s] = IF s = {} THEN 0 ELSE w[Pick(s)] + g[s \ {Pick(s)}]
  BY SumStep
<1>3. s # {} /\ Pick(s) \in s
  BY <1>2, PickFacts
<1>4. Cardinality(s \ {Pick(s)}) < Cardinality(s)
  BY <1>3, Without, FS_Subset
<1>5. g[s \ {Pick(s)}] \in Nat
  <2>1. Cardinality(s) \in Nat /\ Cardinality(s \ {Pick(s)}) \in Nat
    BY FS_Subset, FS_CardinalityType
  <2> QED BY <1>1, <1>4, <2>1
<1> QED BY <1>2, <1>3, <1>5

\* The order does not matter: any member may be the one that is added last.
LEMMA SumAdds ==
  ASSUME NEW S, IsFiniteSet(S), NEW w \in [S -> Nat], NEW g, IsSum(g, w, S),
         NEW T \in SUBSET S, NEW x \in T
  PROVE  g[T] = w[x] + g[T \ {x}]
<1> DEFINE Odd(s) == \E y \in s : g[s] # w[y] + g[s \ {y}]
           B == {s \in SUBSET S : Odd(s)}
<1> SUFFICES B = {}
  OBVIOUS
<1> SUFFICES ASSUME B # {} PROVE FALSE
  OBVIOUS
<1>1. PICK s \in B : \A t \in B : Cardinality(t) >= Cardinality(s)
  BY Smallest, FS_Subset
<1>2. PICK y \in s : g[s] # w[y] + g[s \ {y}]
  OBVIOUS
<1> DEFINE z == Pick(s)
<1>3. z \in s /\ g[s] = w[z] + g[s \ {z}]
  BY PickFacts, SumStep
<1> HIDE DEF z
<1>4. z # y
  BY <1>2, <1>3
<1>5. IsFiniteSet(s)
  BY FS_Subset
<1>6. ASSUME NEW a \in s, NEW b \in s, a # b
      PROVE  g[s \ {a}] = w[b] + g[(s \ {a}) \ {b}]
  <2>1. s \ {a} \in SUBSET S /\ b \in s \ {a}
    BY <1>6
  <2>2. Cardinality(s \ {a}) = Cardinality(s) - 1 /\ Cardinality(s) \in Nat
    BY <1>5, Without
  <2>3. s \ {a} \notin B
    BY <1>1, <2>2
  <2> QED BY <2>1, <2>3
<1>7. (s \ {y}) \ {z} = (s \ {z}) \ {y}
  OBVIOUS
<1>8. g[(s \ {y}) \ {z}] \in Nat /\ w[y] \in Nat /\ w[z] \in Nat
  BY <1>3, SumType
<1>9. /\ g[s \ {z}] = w[y] + g[(s \ {z}) \ {y}]
      /\ g[s \ {y}] = w[z] + g[(s \ {y}) \ {z}]
  BY <1>3, <1>4, <1>6
<1>10. g[s] = w[z] + (w[y] + g[(s \ {y}) \ {z}])
  BY <1>3, <1>7, <1>9
<1>11. w[y] + g[s \ {y}] = w[y] + (w[z] + g[(s \ {y}) \ {z}])
  BY <1>9
<1> QED BY <1>2, <1>8, <1>10, <1>11

\* Sums over two sets, where the weights of the first are those of the second.
LEMMA SumGrowsWith ==
  ASSUME NEW S, IsFiniteSet(S), NEW v \in [S -> Nat], NEW g, IsSum(g, v, S),
         NEW U, IsFiniteSet(U), NEW w \in [U -> Nat], NEW h, IsSum(h, w, U),
         S \subseteq U, \A x \in S : v[x] = w[x]
  PROVE  g[S] <= h[U]
<1> DEFINE Low(t) == g[t \cap S] <= h[t]
           B == {t \in SUBSET U : ~Low(t)}
<1>1. \A t \in SUBSET U : g[t \cap S] \in Nat /\ h[t] \in Nat
  BY SumType
<1>2. B = {}
  <2> SUFFICES ASSUME B # {} PROVE FALSE
    OBVIOUS
  <2>1. PICK t \in B : \A s \in B : Cardinality(s) >= Cardinality(t)
    BY Smallest, FS_Subset
  <2>2. t # {}
    <3> SUFFICES ASSUME t = {} PROVE FALSE
      OBVIOUS
    <3>1. g[{}] = 0 /\ h[{}] = 0 /\ t \cap S = {}
      BY SumStep
    <3> QED BY <3>1
  <2>3. PICK x : x \in t
    BY <2>2
  <2> DEFINE r == t \ {x}
  <2>4. IsFiniteSet(t) /\ r \in SUBSET U
    BY FS_Subset
  <2>5. Cardinality(r) = Cardinality(t) - 1 /\ Cardinality(t) \in Nat
    BY <2>3, <2>4, Without
  <2>6. Low(r)
    <3>1. ~(Cardinality(r) >= Cardinality(t))
      BY <2>5
    <3>2. r \notin B
      BY <2>1, <3>1
    <3> QED BY <2>4, <3>2
  <2>7. h[t] = w[x] + h[r]
    BY <2>3, SumAdds
  <2>8. g[t \cap S] <= w[x] + g[r \cap S]
    <3>1. CASE x \in S
      <4>1. g[t \cap S] = v[x] + g[(t \cap S) \ {x}]
        BY <2>3, <3>1, SumAdds
      <4>2. (t \cap S) \ {x} = r \cap S
        OBVIOUS
      <4>3. v[x] \in Nat /\ w[x] = v[x]
        BY <3>1
      <4>4. g[t \cap S] = w[x] + g[r \cap S]
        BY <4>1, <4>2, <4>3
      <4>5. g[t \cap S] \in Nat
        BY <1>1
      <4> QED BY <4>4, <4>5
    <3>2. CASE x \notin S
      <4>1. t \cap S = r \cap S
        BY <3>2
      <4>2. w[x] \in Nat /\ g[r \cap S] \in Nat
        BY <1>1, <2>3, <2>4
      <4>3. g[t \cap S] = g[r \cap S]
        BY <4>1, Zenon
      <4> QED BY <4>2, <4>3
    <3> QED BY <3>1, <3>2
  <2>9. w[x] \in Nat /\ g[r \cap S] \in Nat /\ h[r] \in Nat /\ g[t \cap S] \in Nat
    BY <1>1, <2>3, <2>4
  <2>10. Low(t)
    <3> HIDE DEF r
    <3>1. g[r \cap S] <= h[r]
      BY <2>6
    <3>2. w[x] + g[r \cap S] <= w[x] + h[r]
      BY <2>9, <3>1
    <3> QED BY <2>7, <2>8, <2>9, <3>2
  <2> QED BY <2>10
<1>3. Low(U) /\ U \cap S = S
  BY <1>2
<1> QED BY <1>3

\* A sum over a part is what the sum over the whole says of that part.
LEMMA SumOfPart ==
  ASSUME NEW S, IsFiniteSet(S), NEW v, NEW g, IsSum(g, v, S),
         NEW U, NEW w, NEW h, IsSum(h, w, U),
         S \subseteq U, \A x \in S : v[x] = w[x]
  PROVE  g[S] = h[S]
<1> DEFINE Same(s) == g[s] = h[s]
           B == {s \in SUBSET S : ~Same(s)}
<1> SUFFICES B = {}
  OBVIOUS
<1> SUFFICES ASSUME B # {} PROVE FALSE
  OBVIOUS
<1>1. PICK s \in B : \A t \in B : Cardinality(t) >= Cardinality(s)
  BY Smallest, FS_Subset
<1>2. /\ g[s] = IF s = {} THEN 0 ELSE v[Pick(s)] + g[s \ {Pick(s)}]
      /\ h[s] = IF s = {} THEN 0 ELSE w[Pick(s)] + h[s \ {Pick(s)}]
  BY SumStep
<1>3. s # {} /\ Pick(s) \in s
  BY <1>2, PickFacts
<1>4. Cardinality(s \ {Pick(s)}) = Cardinality(s) - 1 /\ Cardinality(s) \in Nat
  BY <1>3, Without, FS_Subset
<1>5. s \ {Pick(s)} \notin B
  BY <1>1, <1>4
<1> QED BY <1>2, <1>3, <1>5

-----------------------------------------------------------------------------
(* The quota                                                               *)

Published(os) == {id \in Ids : os[id].record # Nothing}

\* The size of the publications ids of os.
Total(os, ids) == MapThenSumSet(LAMBDA id : SizeOf[os[id].record.data], ids)

Weights(os, ids) == [x \in ids |-> SizeOf[os[x].record.data]]

LEMMA TotalFacts ==
  ASSUME NEW os \in [Ids -> Entries], NEW S \in SUBSET Published(os), IsFiniteSet(S)
  PROVE  /\ Weights(os, S) \in [S -> Nat]
         /\ \E g : IsSum(g, Weights(os, S), S) /\ Total(os, S) = g[S]
<1> DEFINE w == Weights(os, S)
           Iter(g) ==
             g = [s \in SUBSET S |->
                    IF s = {} THEN 0
                    ELSE SizeOf[os[Pick(s)].record.data] + g[s \ {Pick(s)}]]
<1>1. \A x \in S : SizeOf[os[x].record.data] \in Nat
  <2> TAKE x \in S
  <2>1. os[x].record \in Records
    BY DEF Published, Entries
  <2>2. os[x].record.data \in Data
    BY <2>1, RecordFacts
  <2> QED BY <2>2, RepositoryAssumption
<1>2. \A g : IsSum(g, w, S) <=> Iter(g)
  <2> TAKE g
  <2>1. \A s \in SUBSET S : s # {} => w[Pick(s)] = SizeOf[os[Pick(s)].record.data]
    <3> TAKE s \in SUBSET S
    <3> HAVE s # {}
    <3>1. Pick(s) \in s
      BY PickFacts
    <3> QED BY <3>1 DEF Weights
  <2> QED BY <2>1 DEF IsSum
<1>3. Total(os, S) = (CHOOSE g : Iter(g))[S]
  BY DEF Total, MapThenSumSet, MapThenFoldSet, Pick
<1>4. \E g : Iter(g)
  BY <1>2, SumExists
<1>5. Iter(CHOOSE g : Iter(g))
  BY <1>4
<1>6. w \in [S -> Nat]
  BY <1>1 DEF Weights
<1> QED BY <1>2, <1>3, <1>5, <1>6

\* Fewer publications, of the same contents, take no more room.
LEMMA TotalBelow ==
  ASSUME NEW os \in [Ids -> Entries], NEW S \in SUBSET Published(os),
         NEW ot \in [Ids -> Entries], NEW T \in SUBSET Published(ot), IsFiniteSet(T),
         S \subseteq T, \A id \in S : os[id].record = ot[id].record
  PROVE  Total(os, S) \in Nat /\ Total(ot, T) \in Nat /\ Total(os, S) <= Total(ot, T)
<1> DEFINE v == Weights(os, S)
           w == Weights(ot, T)
<1>1. IsFiniteSet(S)
  BY FS_Subset
<1>2. v \in [S -> Nat] /\ \E g : IsSum(g, v, S) /\ Total(os, S) = g[S]
  BY <1>1, TotalFacts
<1>3. w \in [T -> Nat] /\ \E h : IsSum(h, w, T) /\ Total(ot, T) = h[T]
  BY TotalFacts
<1>4. \A x \in S : v[x] = w[x]
  BY DEF Weights
<1> HIDE DEF v, w
<1>5. PICK g : IsSum(g, v, S) /\ Total(os, S) = g[S]
  BY <1>2
<1>6. PICK h : IsSum(h, w, T) /\ Total(ot, T) = h[T]
  BY <1>3
<1>7. g[S] \in Nat /\ h[T] \in Nat
  BY <1>1, <1>2, <1>3, <1>5, <1>6, SumType
<1>8. g[S] <= h[T]
  BY <1>1, <1>2, <1>3, <1>4, <1>5, <1>6, SumGrowsWith
<1> QED BY <1>5, <1>6, <1>7, <1>8

\* One publication more takes its own room more.
LEMMA TotalWith ==
  ASSUME NEW os \in [Ids -> Entries], NEW S \in SUBSET Published(os), IsFiniteSet(S),
         NEW x \in S
  PROVE  /\ SizeOf[os[x].record.data] \in Nat
         /\ Total(os, S) = SizeOf[os[x].record.data] + Total(os, S \ {x})
<1> DEFINE w == Weights(os, S)
           v == Weights(os, S \ {x})
<1>1. IsFiniteSet(S \ {x})
  BY FS_RemoveElement
<1>2. w \in [S -> Nat] /\ \E g : IsSum(g, w, S) /\ Total(os, S) = g[S]
  BY TotalFacts
<1>3. v \in [S \ {x} -> Nat] /\ \E h : IsSum(h, v, S \ {x}) /\ Total(os, S \ {x}) = h[S \ {x}]
  BY <1>1, TotalFacts
<1>4. \A y \in S \ {x} : v[y] = w[y]
  BY DEF Weights
<1>5. w[x] = SizeOf[os[x].record.data]
  BY DEF Weights
<1> HIDE DEF v, w
<1>6. PICK g : IsSum(g, w, S) /\ Total(os, S) = g[S]
  BY <1>2
<1>7. PICK h : IsSum(h, v, S \ {x}) /\ Total(os, S \ {x}) = h[S \ {x}]
  BY <1>3
<1>8. g[S] = w[x] + g[S \ {x}] /\ w[x] \in Nat
  BY <1>2, <1>6, SumAdds
<1>9. h[S \ {x}] = g[S \ {x}]
  BY <1>1, <1>2, <1>3, <1>4, <1>6, <1>7, SumOfPart
<1> QED BY <1>5, <1>6, <1>7, <1>8, <1>9

\* What is published and not being deleted.
Live(os) == {id \in Ids \ retired : os[id].record # Nothing}

\* Only so much was ever published.
Sparse == IsFiniteSet(Published(objects)) /\ IsFiniteSet(Published(synced.objects))

\* What a power failure leaves of the live publications is among them.
Written ==
  kind = "local" =>
    \A id \in Live(synced.objects) : objects[id].record = synced.objects[id].record

\* Who puts a publication into the bucket has found room for it.
Room ==
  \A p \in Procs : op[p].step \in {"putBundle", "putRecord"} =>
    Total(objects, Published(objects)) + SizeOf[op[p].record.data] <= MaxRepository

QInv == Sparse /\ Written /\ Room /\ Total(objects, Live(objects)) <= MaxRepository

LEMMA UsageFacts ==
  /\ Usage = Total(objects, Published(objects))
  /\ UsageOf(Ids \ retired) = Total(objects, Live(objects))
BY DEF Usage, UsageOf, Total, Published, Live

LEMMA TypedFacts ==
  ASSUME IInv
  PROVE  /\ objects \in [Ids -> Entries] /\ synced.objects \in [Ids -> Entries]
         /\ MaxRepository \in Nat
         /\ \A r \in Records : SizeOf[r.data] \in Nat /\ r.id \in Ids
BY RecordFacts, RepositoryAssumption DEF IInv, Types

\* At most one publication more.
LEMMA OneMore ==
  ASSUME IInv, IsFiniteSet(Published(objects)),
         NEW os \in [Ids -> Entries], NEW r \in Records, os[r.id].record = r,
         \A id \in Ids \ {r.id} : os[id].record \in {objects[id].record, Nothing},
         NEW S \in SUBSET Published(os)
  PROVE  /\ IsFiniteSet(Published(os))
         /\ Total(os, S) <= Total(objects, Published(objects)) + SizeOf[r.data]
<1> DEFINE R == S \ {r.id}
<1>1. r.id \in Ids /\ SizeOf[r.data] \in Nat /\ objects \in [Ids -> Entries]
  BY TypedFacts
<1>2. IsFiniteSet(Published(objects) \cup {r.id})
  BY FS_AddElement
<1>3. Published(os) \subseteq Published(objects) \cup {r.id}
  BY DEF Published
<1>4. IsFiniteSet(Published(os)) /\ IsFiniteSet(S)
  BY <1>2, <1>3, FS_Subset
<1>5. /\ R \in SUBSET Published(os) /\ R \subseteq Published(objects)
      /\ \A id \in R : os[id].record = objects[id].record
  BY DEF Published
<1>6. /\ Total(os, R) \in Nat /\ Total(objects, Published(objects)) \in Nat
      /\ Total(os, R) <= Total(objects, Published(objects))
  BY <1>1, <1>5, TotalBelow
<1>7. CASE r.id \in S
  <2>1. Total(os, S) = SizeOf[r.data] + Total(os, R)
    BY <1>4, <1>7, TotalWith
  <2> HIDE DEF R
  <2> QED BY <1>1, <1>4, <1>6, <2>1
<1>8. CASE r.id \notin S
  <2>1. R = S
    BY <1>8
  <2>2. Total(os, R) = Total(os, S)
    BY <2>1, Zenon
  <2> HIDE DEF R
  <2> QED BY <1>1, <1>4, <1>6, <2>2
<1> QED BY <1>7, <1>8

\* Nothing more.
LEMMA NoMore ==
  ASSUME IInv, IsFiniteSet(Published(objects)),
         NEW os \in [Ids -> Entries], NEW U \in SUBSET Published(objects), NEW S \in SUBSET U,
         S \subseteq Published(os), \A id \in S : os[id].record = objects[id].record
  PROVE  /\ Total(os, S) \in Nat /\ Total(objects, U) \in Nat
         /\ Total(os, S) <= Total(objects, U)
<1>1. objects \in [Ids -> Entries] /\ IsFiniteSet(U)
  BY TypedFacts, FS_Subset
<1> QED BY <1>1, TotalBelow

\* The steps that do not publish take no room.
LEMMA ShrinkFacts ==
  ASSUME IInv, NEW p \in Procs, Publication(p) \/ Deletion(p) \/ Recovery(p),
         ~Publish(p), ~PutRecord(p)
  PROVE  \A id \in Ids : objects'[id].record \in {objects[id].record, Nothing}
<1>1. objects \in [Ids -> Entries] /\ Types
  BY TypedFacts DEF IInv
<1> SUFFICES ASSUME NEW id \in Ids, objects'[id] # objects[id]
             PROVE  objects'[id].record \in {objects[id].record, Nothing}
  OBVIOUS
<1>2. CASE RemoveObject(p)
  <2>1. id = op[p].record.id
    BY <1>1, <1>2, CallFacts DEF RemoveObject
  <2>2. objects'[id] = Absent \/ objects'[id] \in Remains(objects[id])
    BY <1>1, <1>2, <2>1 DEF RemoveObject
  <2> QED BY <1>1, <2>2, AbsentFacts, RemainsFacts
<1>3. CASE PutBundle(p)
  <2>1. id = op[p].record.id /\ op[p].record.data \in Data
    BY <1>1, <1>3, CallFacts DEF PutBundle
  <2>2. objects' = [objects EXCEPT ![id].bundle = op[p].record.data]
    BY <1>3, <2>1 DEF PutBundle
  <2> QED BY <1>1, <2>1, <2>2, BundleFacts
<1>4. CASE RemoveBundle(p)
  <2>1. id = op[p].record.id
    BY <1>1, <1>4, CallFacts DEF RemoveBundle
  <2>2. objects' = [objects EXCEPT ![id].bundle = Nothing]
    BY <1>4, <2>1 DEF RemoveBundle
  <2> QED BY <1>1, <2>2, BundleFacts
<1>5. CASE RemoveRecord(p)
  <2>1. id = op[p].record.id
    BY <1>1, <1>5, CallFacts DEF RemoveRecord
  <2>2. objects' = [objects EXCEPT ![id].record = Nothing]
    BY <1>5, <2>1 DEF RemoveRecord
  <2> QED BY <1>1, <2>2, RecordPutFacts
<1> QED BY <1>2, <1>3, <1>4, <1>5, Untouched

\* The steps that publish find room, and have not published that id before.
LEMMA PublishedFacts ==
  ASSUME IInv, QInv, NEW p \in Procs, Publish(p) \/ PutRecord(p), objects' # objects
  PROVE  LET r == op[p].record
         IN /\ r \in Records /\ objects'[r.id].record = r
            /\ objects[r.id].record = Nothing
            /\ \A id \in Ids \ {r.id} : objects'[id] = objects[id]
            /\ Total(objects, Published(objects)) + SizeOf[r.data] <= MaxRepository
            /\ UNCHANGED <<kind, synced, retired>>
<1> DEFINE r == op[p].record
<1>1. objects \in [Ids -> Entries] /\ Types /\ MaxRepository \in Nat
  BY TypedFacts DEF IInv
<1>2. r \in Records /\ r.id \in Ids /\ SizeOf[r.data] \in Nat
  BY CallFacts, TypedFacts DEF Publish, PutRecord
<1>3. CASE Publish(p)
  <2>1. /\ staging[r.key] = WholeEntry(r) /\ kind = "local" /\ ~objects[r.id].dir
    BY <1>3, CallFacts DEF Publish, Relies, LocalSteps
  <2>2. objects' = [objects EXCEPT ![r.id] = WholeEntry(r)]
    BY <1>3, <2>1 DEF Publish
  <2>3. objects[r.id].record = Nothing
    BY <1>1, <1>2, <2>1, LocalFacts DEF IInv, Contents, ObjectsGood
  <2>4. Usage <= MaxRepository /\ SizeOf[r.data] <= MaxRepository - Usage
    BY <1>3 DEF Publish, Fits
  <2>5. Usage \in Nat
    BY <1>1, NoMore, UsageFacts DEF QInv, Sparse
  <2>6. Usage + SizeOf[r.data] <= MaxRepository
    BY <1>1, <1>2, <2>4, <2>5
  <2>7. UNCHANGED <<kind, synced, retired>>
    BY <1>3 DEF Publish
  <2> QED BY <1>1, <1>2, <2>2, <2>3, <2>6, <2>7, UsageFacts, WholeFacts
<1>4. CASE PutRecord(p)
  <2>1. objects' = [objects EXCEPT ![r.id].record = r] /\ op[p].step = "putRecord"
    BY <1>4 DEF PutRecord
  <2>2. /\ objects'[r.id].record = r /\ objects[r.id].record = Nothing
        /\ \A id \in Ids \ {r.id} : objects'[id] = objects[id]
    BY <1>1, <1>2, <2>1, RecordPutFacts, CallFacts DEF Relies
  <2>3. Total(objects, Published(objects)) + SizeOf[r.data] <= MaxRepository
    BY <2>1 DEF QInv, Room
  <2>4. UNCHANGED <<kind, synced, retired>>
    BY <1>4 DEF PutRecord, files
  <2> QED BY <1>2, <2>2, <2>3, <2>4
<1> QED BY <1>3, <1>4

LEMMA SparseStep ==
  ASSUME IInv, QInv, NEW p \in Procs, Publication(p) \/ Deletion(p) \/ Recovery(p)
  PROVE  Sparse'
<1>1. IsFiniteSet(Published(objects)) /\ IsFiniteSet(Published(synced.objects))
  BY DEF QInv, Sparse
<1>2. /\ objects' \in [Ids -> Entries] /\ synced'.objects \in [Ids -> Entries]
  BY TypesStep DEF Types
<1>3. IsFiniteSet(Published(objects'))
  <2>1. CASE objects' # objects /\ (Publish(p) \/ PutRecord(p))
    <3>1. /\ op[p].record \in Records /\ objects'[op[p].record.id].record = op[p].record
          /\ \A id \in Ids \ {op[p].record.id} : objects'[id] = objects[id]
      BY <2>1, PublishedFacts
    <3> QED BY <1>1, <1>2, <3>1, OneMore
  <2>2. CASE ~(Publish(p) \/ PutRecord(p))
    <3>1. Published(objects') \subseteq Published(objects)
      BY <2>2, ShrinkFacts DEF Published
    <3> QED BY <1>1, <3>1, FS_Subset
  <2> QED BY <1>1, <2>1, <2>2
<1>4. IsFiniteSet(Published(synced'.objects))
  <2>1. Published(synced'.objects) \subseteq Published(objects) \cup Published(synced.objects)
    BY SyncedFacts DEF Published
  <2> QED BY <1>1, <2>1, FS_Union, FS_Subset
<1> QED BY <1>3, <1>4 DEF Sparse, Published

LEMMA WrittenStep ==
  ASSUME IInv, QInv, NEW p \in Procs, Publication(p) \/ Deletion(p) \/ Recovery(p)
  PROVE  Written'
<1>1. /\ objects \in [Ids -> Entries] /\ synced.objects \in [Ids -> Entries]
      /\ kind' = kind /\ retired \subseteq retired'
  BY TypedFacts, Untouched DEF Delete
<1> SUFFICES ASSUME kind = "local", NEW id \in Ids, id \notin retired',
                    synced'.objects[id].record # Nothing
             PROVE  objects'[id].record = synced'.objects[id].record
  BY <1>1 DEF Written, Live
<1>2. synced.objects[id].record # Nothing => objects[id].record = synced.objects[id].record
  BY <1>1 DEF QInv, Written, Live
<1>3. CASE objects'[id] = objects[id]
  <2>1. synced'.objects[id] \in {objects[id], synced.objects[id]}
    BY SyncedFacts
  <2> QED BY <1>2, <1>3, <2>1
<1>4. CASE objects'[id] # objects[id]
  <2>1. ~RemoveObject(p)
    <3> SUFFICES ASSUME RemoveObject(p) PROVE FALSE
      OBVIOUS
    <3>1. id = op[p].record.id
      BY <1>1, <1>4, CallFacts DEF RemoveObject
    <3> QED BY <1>1, <3>1, CallFacts DEF RemoveObject, Relies
  <2>2. Publish(p)
    BY <1>4, <2>1, CallFacts, Untouched
       DEF PutBundle, PutRecord, RemoveBundle, RemoveRecord, BucketSteps
  <2>3. synced' = synced /\ objects[op[p].record.id].record = Nothing /\ id = op[p].record.id
    BY <1>4, <2>2, PublishedFacts
  <2> QED BY <1>2, <2>3
<1> QED BY <1>3, <1>4

\* Only LockBucket begins to put a publication into the bucket.
LEMMA OnlyLockBucketPuts ==
  ASSUME IInv, NEW p \in Procs, Publication(p) \/ Deletion(p) \/ Recovery(p),
         op'[p].step \in {"putBundle", "putRecord"},
         op[p].step \notin {"putBundle", "putRecord"} \/ op'[p].record # op[p].record
  PROVE  LockBucket(p)
<1>0. Types
  BY DEF IInv
<1> USE CallFacts DEF Steps, Idle
<1>1. ~Stage(p) /\ ~SyncStage(p) /\ ~Publish(p)
  BY <1>0, ReturnFacts, GotoFacts DEF Stage, SyncStage, Publish
<1>2. ~Reject(p) /\ ~PublishFails(p) /\ ~SyncObjects(p) /\ ~SyncStaging(p)
  BY <1>0, ReturnFacts, GotoFacts, IdleFacts
     DEF Reject, GiveUp, PublishFails, SyncObjects, SyncStaging
<1>3. ~PutBundle(p) /\ ~PutRecord(p) /\ ~AnswerPut(p)
  BY <1>0, ReturnFacts, GotoFacts DEF PutBundle, PutRecord, AnswerPut, BucketSteps
<1>4. ~RemoveObject(p) /\ ~SyncRemoval(p) /\ ~RemoveBundle(p) /\ ~RemoveRecord(p)
  BY <1>0, ReturnFacts, GotoFacts, IdleFacts
     DEF RemoveObject, SyncRemoval, RemoveBundle, RemoveRecord, Leave
<1>5. ~RecoverBegin(p) /\ ~RecoverLitter(p) /\ ~RecoverEnd(p) /\ ~RecoverFails(p)
  BY <1>0, BeginFacts, IdleFacts
     DEF RecoverBegin, RecoverLitter, RecoverEnd, RecoverFails, GiveUp
<1>6. \A r \in Requests :
        ~PublishedBefore(p, r) /\ ~PublishStage(p, r) /\ ~CreateStage(p, r)
        /\ ~PublishedInBucket(p, r) /\ ~StageBundle(p, r)
  BY <1>0, BeginFacts, RecordFacts, StagedFacts
     DEF PublishedBefore, PublishStage, CreateStage, PublishedInBucket, StageBundle
<1>7. \A id \in Ids : ~Delete(p, id)
  BY <1>0, BeginFacts, DeletedFacts DEF Delete
<1>8. \A k \in Keys : ~RecoverStage(p, k) /\ ~RecoverPublish(p, k)
  BY <1>0, BeginFacts, StagedFacts DEF RecoverStage, RecoverPublish, Recovering
<1> QED BY <1>1, <1>2, <1>3, <1>4, <1>5, <1>6, <1>7, <1>8 DEF Publication, Deletion, Recovery

LEMMA RoomStep ==
  ASSUME IInv, QInv, NEW p \in Procs, Publication(p) \/ Deletion(p) \/ Recovery(p)
  PROVE  Room'
<1>1. /\ objects \in [Ids -> Entries] /\ Types /\ MaxRepository \in Nat
      /\ IsFiniteSet(Published(objects))
  BY TypedFacts DEF IInv, QInv, Sparse
<1> SUFFICES ASSUME NEW q \in Procs, op'[q].step \in {"putBundle", "putRecord"}
             PROVE  Total(objects', Published(objects')) + SizeOf[op'[q].record.data]
                      <= MaxRepository
  BY DEF Room
<1>2. /\ op'[q].record \in Records /\ kind = "s3" /\ writer' = q
  <2>1. Types' /\ Phases' /\ Locked' /\ kind' = kind
    BY TypesStep, PhasesStep, LockedStep, Untouched
  <2> QED BY <2>1 DEF Types, Phases, Locked, BucketSteps, Unlocked
<1>3. q # p => op'[q] = op[q] /\ writer = q
  BY <1>2, StepFacts, CallFacts DEF Unlocked
<1>4. ~Publish(p) /\ ~PutRecord(p)
  <2>1. ~Publish(p)
    BY <1>2, CallFacts DEF Publish, LocalSteps
  <2>2. ~PutRecord(p)
    <3> SUFFICES ASSUME PutRecord(p) PROVE FALSE
      OBVIOUS
    <3>1. op[p].step = "putRecord" /\ writer = p /\ phase # "recovering"
      BY CallFacts DEF PutRecord, Unlocked, BucketSteps
    <3>2. op'[p].step \in {"put", "idle"}
      BY <1>1, <3>1, ReturnFacts, GotoFacts DEF PutRecord, Steps
    <3> QED BY <1>3, <3>1, <3>2
  <2> QED BY <2>1, <2>2
<1>5. /\ Total(objects', Published(objects')) \in Nat /\ Total(objects, Published(objects)) \in Nat
      /\ Total(objects', Published(objects')) <= Total(objects, Published(objects))
  <2>1. objects' \in [Ids -> Entries]
    BY TypesStep DEF Types
  <2>2. /\ Published(objects') \subseteq Published(objects)
        /\ \A id \in Published(objects') : objects'[id].record = objects[id].record
    BY <1>4, ShrinkFacts DEF Published
  <2> QED BY <1>1, <2>1, <2>2, NoMore
<1>6. SizeOf[op'[q].record.data] \in Nat
  BY <1>2, TypedFacts
<1>7. Total(objects, Published(objects)) + SizeOf[op'[q].record.data] <= MaxRepository
  <2>1. CASE op[q].step \in {"putBundle", "putRecord"} /\ op'[q].record = op[q].record
    BY <2>1 DEF QInv, Room
  <2>2. CASE op[q].step \notin {"putBundle", "putRecord"} \/ op'[q].record # op[q].record
    <3>1. q = p
      BY <1>3, <2>2
    <3>2. LockBucket(p)
      BY <1>1, <1>4, <2>2, <3>1, OnlyLockBucketPuts
    <3>3. Fits(op[p].record) /\ op'[p].record = op[p].record
      BY <1>1, <3>1, <3>2, ReturnFacts, GotoFacts, CallFacts DEF LockBucket, Steps, BucketSteps
    <3>4. Usage <= MaxRepository /\ SizeOf[op'[q].record.data] <= MaxRepository - Usage
      BY <3>1, <3>3 DEF Fits
    <3> QED BY <1>1, <1>5, <1>6, <3>4, UsageFacts
  <2> QED BY <2>1, <2>2
<1> QED BY <1>1, <1>5, <1>6, <1>7

LEMMA KeptStep ==
  ASSUME IInv, QInv, NEW p \in Procs, Publication(p) \/ Deletion(p) \/ Recovery(p)
  PROVE  (Total(objects, Live(objects)) <= MaxRepository)'
<1>1. /\ objects \in [Ids -> Entries] /\ MaxRepository \in Nat
      /\ IsFiniteSet(Published(objects)) /\ Total(objects, Live(objects)) <= MaxRepository
      /\ objects' \in [Ids -> Entries] /\ retired \subseteq retired'
  BY TypedFacts, TypesStep, Untouched DEF Types, QInv, Sparse, Delete
<1> DEFINE L == {id \in Ids \ retired' : objects'[id].record # Nothing}
<1> SUFFICES Total(objects', L) <= MaxRepository
  BY DEF Live
<1>2. L \in SUBSET Published(objects')
  BY DEF Published
<1>3. CASE objects' # objects /\ (Publish(p) \/ PutRecord(p))
  <2> DEFINE r == op[p].record
  <2>1. /\ r \in Records /\ objects'[r.id].record = r
        /\ \A id \in Ids \ {r.id} : objects'[id] = objects[id]
        /\ Total(objects, Published(objects)) + SizeOf[r.data] <= MaxRepository
    BY <1>3, PublishedFacts
  <2> HIDE DEF L, r
  <2>2. Total(objects', L) <= Total(objects, Published(objects)) + SizeOf[r.data]
    BY <1>1, <1>2, <2>1, OneMore
  <2>3. IsFiniteSet(Published(objects'))
    BY <1>1, <2>1, OneMore
  <2>4. /\ Total(objects', L) \in Nat /\ Total(objects, Published(objects)) \in Nat
        /\ SizeOf[r.data] \in Nat
    <3>1. IsFiniteSet(L)
      BY <1>2, <2>3, FS_Subset
    <3> QED BY <1>1, <1>2, <2>1, <3>1, TotalBelow, TypedFacts
  <2> QED BY <1>1, <2>1, <2>2, <2>4
<1>4. CASE objects' = objects \/ ~(Publish(p) \/ PutRecord(p))
  <2>1. \A id \in Ids : objects'[id].record \in {objects[id].record, Nothing}
    BY <1>4, ShrinkFacts
  <2>2. /\ L \subseteq Live(objects) /\ Live(objects) \subseteq Published(objects)
        /\ \A id \in L : objects'[id].record = objects[id].record
    BY <1>1, <2>1 DEF Live, Published
  <2> HIDE DEF L
  <2>3. /\ Total(objects', L) \in Nat /\ Total(objects, Live(objects)) \in Nat
        /\ Total(objects', L) <= Total(objects, Live(objects))
    BY <1>1, <1>2, <2>2, NoMore
  <2> QED BY <1>1, <2>3
<1> QED BY <1>3, <1>4

\* C2 or its node stops: the calls are gone, and the live publications that
\* are left are some of those that were there.
LEMMA StopsQInv ==
  ASSUME IInv, QInv, ProcessStops \/ PowerFails
  PROVE  QInv'
<1>1. /\ objects \in [Ids -> Entries] /\ MaxRepository \in Nat
      /\ synced \in [objects : [Ids -> Entries], staging : [Keys -> Entries]]
      /\ synced.objects \in [Ids -> Entries]
      /\ IsFiniteSet(Published(objects)) /\ IsFiniteSet(Published(synced.objects))
      /\ Total(objects, Live(objects)) <= MaxRepository
  BY TypedFacts DEF IInv, Types, QInv, Sparse
<1>2. op' = [p \in Procs |-> Idle] /\ kind' = kind /\ retired' = retired
  BY DEF ProcessStops, PowerFails, Stops
<1>3. /\ objects' \in {objects, synced.objects}
      /\ \/ synced' = synced /\ objects' = objects
         \/ synced'.objects = objects'
      /\ kind # "local" => objects' = objects
  BY DEF ProcessStops, PowerFails
<1>4. Sparse'
  BY <1>1, <1>3 DEF Sparse, Published
<1>5. Written'
  BY <1>2, <1>3 DEF QInv, Written, Live
<1>6. Room'
  BY <1>2 DEF Room, Idle
<1> DEFINE L == {id \in Ids \ retired : objects'[id].record # Nothing}
<1>7. Total(objects', L) <= MaxRepository
  <2>1. /\ L \subseteq Live(objects) /\ Live(objects) \subseteq Published(objects)
        /\ L \subseteq Published(objects')
        /\ \A id \in L : objects'[id].record = objects[id].record
    BY <1>3 DEF QInv, Written, Live, Published
  <2>2. objects' \in [Ids -> Entries]
    BY <1>1, <1>3
  <2> HIDE DEF L
  <2>3. /\ Total(objects', L) \in Nat /\ Total(objects, Live(objects)) \in Nat
        /\ Total(objects', L) <= Total(objects, Live(objects))
    BY <1>1, <2>1, <2>2, NoMore
  <2> QED BY <1>1, <2>3
<1>8. (Total(objects, Live(objects)) <= MaxRepository)'
  BY <1>2, <1>7 DEF Live
<1> QED BY <1>4, <1>5, <1>6, <1>8 DEF QInv

LEMMA InitQInv == Init => QInv
<1> SUFFICES ASSUME Init PROVE QInv
  OBVIOUS
<1>1. /\ objects = [id \in Ids |-> Absent] /\ synced.objects = objects
      /\ \A id \in Ids : objects[id].record = Nothing
  BY AbsentFacts DEF Init
<1>2. Published(objects) = {} /\ Published(synced.objects) = {} /\ Live(objects) = {}
  BY <1>1 DEF Published, Live
<1>3. Sparse /\ Written
  BY <1>1, <1>2, FS_EmptySet DEF Sparse, Written, Live
<1>4. Room
  BY DEF Init, Room, Idle
<1>5. Total(objects, Live(objects)) = 0
  <2>1. objects \in [Ids -> Entries] /\ {} \in SUBSET Published(objects) /\ IsFiniteSet({})
    BY <1>1, AbsentFacts, FS_EmptySet
  <2>2. PICK g : IsSum(g, Weights(objects, {}), {}) /\ Total(objects, {}) = g[{}]
    BY <2>1, TotalFacts
  <2>3. g[{}] = 0
    BY <2>2, SumStep
  <2> QED BY <1>2, <2>2, <2>3
<1> QED BY <1>3, <1>4, <1>5, RepositoryAssumption DEF QInv

LEMMA NextQInv == IInv /\ QInv /\ [Next]_vars => QInv'
<1> SUFFICES ASSUME IInv, QInv, [Next]_vars PROVE QInv'
  OBVIOUS
<1>1. CASE ProcessStops \/ PowerFails
  BY <1>1, StopsQInv
<1>2. CASE \E p \in Procs : Publication(p) \/ Deletion(p) \/ Recovery(p)
  <2>1. PICK p \in Procs : Publication(p) \/ Deletion(p) \/ Recovery(p)
    BY <1>2
  <2> QED BY <2>1, SparseStep, WrittenStep, RoomStep, KeptStep DEF QInv
<1>3. CASE UNCHANGED vars
  BY <1>3 DEF vars, files, QInv, Sparse, Written, Room, Live
<1> QED BY <1>1, <1>2, <1>3 DEF Next

\* What is published, but for deletions under way, never exceeds the limit of
\* the repository (publishStaged, and Publish of a bucket), whoever publishes
\* at once and whatever a failure leaves.
THEOREM QuotaHolds == Spec => []QuotaKept
<1>1. IInv /\ QInv => QuotaKept
  BY UsageFacts DEF QInv, QuotaKept
<1> QED BY <1>1, InitQInv, NextQInv, InvariantHolds, PTL DEF Spec

-----------------------------------------------------------------------------
(* The repository implements RepositoryPromise                             *)

Shown == [id \in Ids |-> IF Whole(objects[id]) THEN objects[id].record ELSE Nothing]

\* A step that tells something shows what it tells, and changes no object.
LEMMA TellingFacts ==
  ASSUME IInv, NEW p \in Procs, Publication(p) \/ Deletion(p) \/ Recovery(p), told' # told,
         ~\E id \in Ids : Delete(p, id)
  PROVE  /\ objects' = objects
         /\ \A id \in Ids : told'[id] # told[id] => told'[id] # Nothing
<1>1. told \in [Ids -> Records \cup {Nothing}] /\ objects \in [Ids -> Entries] /\ Told
  BY DEF IInv, Types
<1>2. ASSUME NEW r \in Records, NEW e \in Records, r.id \in Ids, Answer(r, e)
      PROVE  \A id \in Ids : told'[id] # told[id] => told'[id] # Nothing
  <2>1. [r EXCEPT !.data = e.data] \in Records
    BY <1>2 DEF Records
  <2> QED BY <1>1, <1>2, <2>1, RecordFacts DEF Answer
<1>3. CASE \E r \in Requests : PublishedBefore(p, r) \/ PublishedInBucket(p, r)
  <2>1. PICK r \in Requests : PublishedBefore(p, r) \/ PublishedInBucket(p, r)
    BY <1>3
  <2>2. r \in Records /\ r.id \in Ids /\ objects[r.id].record \in Records
    BY <1>1, <2>1, RecordFacts DEF PublishedBefore, PublishedInBucket, Whole, Entries
  <2> QED BY <1>2, <2>1, <2>2 DEF PublishedBefore, PublishedInBucket, files
<1>4. CASE SyncStaging(p)
  BY <1>2, <1>4, CallFacts DEF SyncStaging, Answers
<1>5. CASE RecoverEnd(p)
  BY <1>1, <1>5 DEF RecoverEnd, Told
<1>6. CASE LockBucket(p)
  <2>1. op[p].record \in Records /\ op[p].record.id \in Ids
    BY <1>6, CallFacts DEF LockBucket
  <2>2. /\ objects[op[p].record.id].record # Nothing /\ objects' = objects
        /\ Answer(op[p].record, objects[op[p].record.id].record)
    BY <1>6 DEF LockBucket, files
  <2>3. objects[op[p].record.id].record \in Records
    BY <1>1, <2>1, <2>2 DEF Entries
  <2> QED BY <1>2, <2>1, <2>2, <2>3
<1>7. CASE AnswerPut(p)
  BY <1>2, <1>7, CallFacts DEF AnswerPut, files
<1> QED BY <1>3, <1>4, <1>5, <1>6, <1>7, Untouched

LEMMA PromiseInit == Init => Promise!Init
BY AbsentFacts DEF Init, Promise!Init

LEMMA PromiseStep ==
  ASSUME IInv, IInv', [Next]_vars
  PROVE  [Promise!Next]_(Promise!vars)
<1>1. /\ told \in [Ids -> Records \cup {Nothing}] /\ told' \in [Ids -> Records \cup {Nothing}]
      /\ objects \in [Ids -> Entries] /\ objects' \in [Ids -> Entries] /\ Told /\ Told'
  BY DEF IInv, Types
<1>2. /\ Shown \in [Ids -> Records \cup {Nothing}] /\ Shown' \in [Ids -> Records \cup {Nothing}]
      /\ \A id \in Ids : told[id] # Nothing => Shown[id] = told[id]
      /\ \A id \in Ids : told'[id] # Nothing => Shown'[id] = told'[id]
  BY <1>1, RecordFacts DEF Shown, Whole, Entries, Told
<1>3. CASE told' = told
  <2>1. \A id \in Ids : told[id] # Nothing => Shown'[id] = Shown[id]
    BY <1>2, <1>3
  <2>2. Promise!Change
    BY <1>2, <1>3, <2>1 DEF Promise!Change, Shown
  <2> QED BY <2>2 DEF Promise!Next
<1>4. CASE told' # told
  <2>1. PICK p \in Procs : Publication(p) \/ Deletion(p) \/ Recovery(p)
    BY <1>4 DEF Next, ProcessStops, PowerFails, Stops, vars
  <2>2. CASE \E id \in Ids : Delete(p, id)
    <3>1. PICK id \in Ids : Delete(p, id)
      BY <2>2
    <3>2. objects' = objects /\ told' = [told EXCEPT ![id] = Nothing]
      BY <3>1 DEF Delete, files
    <3>3. Promise!Withdraw(id)
      BY <3>2 DEF Promise!Withdraw
    <3> QED BY <3>3 DEF Promise!Next
  <2>3. CASE ~\E id \in Ids : Delete(p, id)
    <3> DEFINE new == {id \in Ids : told'[id] # told[id]}
    <3>1. objects' = objects /\ \A id \in new : told'[id] # Nothing
      BY <1>4, <2>1, <2>3, TellingFacts
    <3>2. Shown' = Shown
      BY <3>1 DEF Shown
    <3>3. \A id \in new : Shown[id] # Nothing /\ told'[id] = Shown[id]
      BY <1>2, <3>1, <3>2
    <3>4. told' = [id \in Ids |-> IF id \in new THEN Shown[id] ELSE told[id]]
      BY <1>1, <3>3
    <3>5. Promise!Answer(new)
      BY <3>2, <3>3, <3>4 DEF Promise!Answer, Shown
    <3> QED BY <3>5 DEF Promise!Next
  <2> QED BY <2>2, <2>3
<1> QED BY <1>3, <1>4

\* What can be opened under an id is whole and is what its publisher was told,
\* from the answer to the deletion, whatever calls, failures and stops happen.
THEOREM RepositoryKeepsPromise == Spec => KeepsPromise
<1>1. IInv /\ IInv' /\ [Next]_vars => [Promise!Next]_(Promise!vars)
  BY PromiseStep
<1> QED BY <1>1, PromiseInit, InvariantHolds, PTL DEF Spec, KeepsPromise, Promise!Spec
=============================================================================
