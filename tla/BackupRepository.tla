-------------------------- MODULE BackupRepository --------------------------
(***************************************************************************)
(* The two backup repositories (backup_repository.go: a local volume;      *)
(* backup_repository_s3.go: a bucket): publication, recovery and deletion  *)
(* of bundles, cut at every rename, sync, upload and removal, with         *)
(* failures and crashes between any two of them.                           *)
(*                                                                         *)
(* A publication is a bundle and a record.  Locally they are two files of  *)
(* a directory that is written under a temporary name, renamed to a stage  *)
(* named after the idempotency key and renamed again into objects/; in a   *)
(* bucket they are two objects, the bundle written first and removed first.*)
(***************************************************************************)
EXTENDS Naturals, FiniteSetsExt

CONSTANTS
  Ids,            \* manifest ids
  Keys,           \* idempotency identities: actor, operation and key
  Digests,        \* digests of a request
  Data,           \* contents of a bundle, manifest included
  SizeOf,         \* the size of each
  MaxBundle,      \* maxBackupBytes
  MaxRepository,  \* maxRepositoryBytes
  Procs,          \* goroutines that call the repository
  Requests,       \* the publications asked for
  Kinds,          \* subset of {"local", "s3"}
  Nothing

Records == [id : Ids, key : Keys, digest : Digests, data : Data]

ASSUME RepositoryAssumption ==
  /\ SizeOf \in [Data -> Nat \ {0}]
  /\ MaxBundle \in Nat /\ MaxRepository \in Nat
  /\ Requests \subseteq Records
  /\ Kinds \subseteq {"local", "s3"}
  /\ Nothing \notin Records \cup Data \cup Procs

VARIABLES
  kind,     \* which repository this is
  phase,    \* C2: "down", "recovering" or "serving"
  objects,  \* objects/: for each manifest id, its directory or pair of objects
  staging,  \* .staging/: for each identity, its directory
  litter,   \* a .tmp- directory is left in .staging/
  synced,   \* objects and staging as a power failure leaves them
  writer,   \* who holds the writer lock
  op,       \* what each goroutine does
  todo,     \* stages a recovery has not looked at
  told,     \* observer: what a client was told is published, until it deletes it
  retired   \* observer: ids whose deletion was begun

files == <<objects, staging, litter, synced>>
vars  == <<kind, phase, files, writer, op, todo, told, retired>>

-----------------------------------------------------------------------------
(* Directories and pairs of objects.  A bundle is named by its contents.   *)

Entries == [dir : BOOLEAN, record : Records \cup {Nothing}, bundle : Data \cup {Nothing}]
Absent == [dir |-> FALSE, record |-> Nothing, bundle |-> Nothing]
WholeEntry(r) == [dir |-> TRUE, record |-> r, bundle |-> r.data]

\* readPublishedBackup: the record is there and the bundle is the one it names.
Whole(e) == e.record # Nothing /\ e.bundle = e.record.data

\* What os.RemoveAll leaves when it fails or is interrupted: all of it, or a
\* directory that lacks its record, its bundle or both.  Nothing tells these
\* three apart: readPublishedBackup fails for each.
Remains(e) == {[e EXCEPT !.dir = TRUE], [Absent EXCEPT !.dir = TRUE]}

\* A directory or record without all it needs.
Torn(e) == (e.dir \/ e.record # Nothing) /\ ~Whole(e)

\* Mutant: the digest of the request is not compared.
MatchesIdentity(existing, r) == existing.id = r.id /\ existing.key = r.key

\* matchPublication, with CheckIdempotency.
Matches(existing, r) ==
  /\ existing.id = r.id
  /\ existing.key = r.key /\ existing.digest = r.digest

\* matchPublishedBackups: bundle and manifest are the same too.
SamePublication(existing, r) == Matches(existing, r) /\ existing.data = r.data

\* usageLocked: local usage is an error while anything is torn; in a bucket
\* the records are read and the bundles are not.
Readable == kind = "local" => \A id \in Ids : ~Torn(objects[id])
UsageOf(ids) ==
  MapThenSumSet(LAMBDA id : SizeOf[objects[id].record.data],
                {id \in ids : objects[id].record # Nothing})
Usage == UsageOf(Ids)

\* Mutant: only what is already there is compared with the limit.
FitsAlready(r) == Usage <= MaxRepository

Fits(r) == Usage <= MaxRepository /\ SizeOf[r.data] <= MaxRepository - Usage

-----------------------------------------------------------------------------
Idle == [step |-> "idle", record |-> Nothing]
Steps == {"idle", "stage", "syncStage", "admit", "syncObjects", "syncStaging",
          "removeObject", "syncRemoval", "recover",
          "staged", "putBundle", "putRecord", "put", "removeBundle", "removeRecord"}

\* Delete in a bucket and stageBundle hold no lock.
Unlocked == {"idle", "staged", "removeBundle", "removeRecord"}

Goto(p, step) == op' = [op EXCEPT ![p].step = step]
Begin(p, step, r) == op' = [op EXCEPT ![p] = [step |-> step, record |-> r]]

\* The call returns; within a recovery, the loop over the stages goes on.
Return(p) ==
  IF phase = "recovering"
    THEN Goto(p, "recover") /\ UNCHANGED writer
    ELSE op' = [op EXCEPT ![p] = Idle] /\ writer' = Nothing

\* An error ends the call, or the recovery it is part of: C2 serves requests.
GiveUp(p) ==
  /\ op' = [op EXCEPT ![p] = Idle] /\ writer' = Nothing
  /\ phase' = "serving" /\ todo' = {}

\* A client is told that r is published; existing is what it is shown.
Answer(r, existing) ==
  told' = [told EXCEPT ![r.id] = [r EXCEPT !.data = existing.data]]

\* Within a recovery the answer is the list at its end.
Answers(r, existing) ==
  IF phase = "recovering" THEN UNCHANGED told ELSE Answer(r, existing)

Called(p) == phase = "serving" /\ op[p] = Idle

\* C2 draws a new manifest id for every run, so an id it deleted does not
\* come back.
Asked(p, r) == Called(p) /\ r.id \notin retired

-----------------------------------------------------------------------------
(* The local volume.  One writer at a time (withWriterLock); a call that   *)
(* is refused changes nothing and is not shown.                            *)

\* Mutant: the lock is not taken.
LocallyUnlocked(p) == kind = "local"

Locally(p) == kind = "local" /\ writer = Nothing

\* Publish when there is an object of this id.  It is answered as it is; an
\* object whose directory an earlier call failed to sync is not synced now,
\* and that answer is not counted as a promise.
PublishedBefore(p, r) ==
  /\ Locally(p) /\ Asked(p, r)
  /\ objects[r.id].dir /\ Whole(objects[r.id])
  /\ Matches(objects[r.id].record, r)
  /\ synced.objects[r.id] = objects[r.id]
  /\ Answer(r, objects[r.id].record)
  /\ UNCHANGED <<kind, phase, files, writer, op, todo, retired>>

\* Publish when an earlier attempt left a stage.
PublishStage(p, r) ==
  /\ Locally(p) /\ Asked(p, r)
  /\ ~objects[r.id].dir /\ staging[r.key].dir /\ Whole(staging[r.key])
  /\ Matches(staging[r.key].record, r)
  /\ writer' = p /\ Begin(p, "admit", staging[r.key].record)
  /\ UNCHANGED <<kind, phase, files, todo, told, retired>>

\* createStage: a private directory, whose contents are synced before it is
\* renamed to the stage.
CreateStage(p, r) ==
  /\ Locally(p) /\ Asked(p, r)
  /\ ~objects[r.id].dir /\ ~staging[r.key].dir
  /\ SizeOf[r.data] <= MaxBundle
  /\ writer' = p /\ Begin(p, "stage", r)
  /\ litter' = TRUE
  /\ UNCHANGED <<kind, phase, objects, staging, synced, todo, told, retired>>

\* Mutant: the record is renamed into place before the bundle is complete.
StageEarly(p) ==
  LET r == op[p].record
  IN /\ op[p].step = "stage"
     /\ \/ \E remains \in Remains(WholeEntry(r)) :
             /\ staging' = [staging EXCEPT ![r.key] = remains]
             /\ litter' = FALSE
             /\ Goto(p, "syncStage") /\ UNCHANGED writer
        \/ /\ litter' \in BOOLEAN
           /\ Return(p) /\ UNCHANGED staging
     /\ UNCHANGED <<kind, phase, objects, synced, todo, told, retired>>

Stage(p) ==
  LET r == op[p].record
  IN /\ op[p].step = "stage"
     /\ \/ /\ staging' = [staging EXCEPT ![r.key] = WholeEntry(r)]
           /\ litter' = FALSE
           /\ Goto(p, "syncStage") /\ UNCHANGED writer
        \/ /\ litter' \in BOOLEAN
           /\ Return(p) /\ UNCHANGED staging
     /\ UNCHANGED <<kind, phase, objects, synced, todo, told, retired>>

\* A synced staging directory has lost the old name of a renamed directory,
\* so the new name is durable too.
StagingSynced ==
  [staging |-> staging,
   objects |-> [id \in Ids |-> IF Whole(objects[id]) THEN objects[id] ELSE synced.objects[id]]]

ObjectsSynced == [synced EXCEPT !.objects = objects]

\* The last step of createStage; an error leaves the stage where it is.
SyncStage(p) ==
  /\ op[p].step = "syncStage"
  /\ \/ synced' = StagingSynced /\ Goto(p, "admit") /\ UNCHANGED writer
     \/ Return(p) /\ UNCHANGED synced
  /\ UNCHANGED <<kind, phase, objects, staging, litter, todo, told, retired>>

\* publishStaged: the quota, then the rename.
Publish(p) ==
  LET r == op[p].record
  IN /\ op[p].step = "admit"
     /\ Readable /\ Fits(r) /\ ~objects[r.id].dir
     /\ objects' = [objects EXCEPT ![r.id] = staging[r.key]]
     /\ staging' = [staging EXCEPT ![r.key] = Absent]
     /\ Goto(p, "syncObjects")
     /\ UNCHANGED <<kind, phase, litter, synced, writer, todo, told, retired>>

\* Over the quota: the stage is removed, as far as that succeeds.
Reject(p) ==
  LET r == op[p].record
  IN /\ op[p].step = "admit"
     /\ Readable /\ ~Fits(r)
     /\ \/ /\ staging' = [staging EXCEPT ![r.key] = Absent]
           /\ synced' = [synced EXCEPT !.staging = staging']
           /\ Return(p) /\ UNCHANGED <<phase, todo>>
        \/ /\ \E remains \in Remains(staging[r.key]) \cup {Absent} :
                staging' = [staging EXCEPT ![r.key] = remains]
           /\ GiveUp(p) /\ UNCHANGED synced
     /\ UNCHANGED <<kind, objects, litter, told, retired>>

\* The usage cannot be told, or the rename fails: the stage stays.
PublishFails(p) ==
  /\ op[p].step = "admit" /\ phase = "serving"
  /\ Return(p)
  /\ UNCHANGED <<kind, phase, files, todo, told, retired>>

SyncObjects(p) ==
  /\ op[p].step = "syncObjects"
  /\ \/ synced' = ObjectsSynced /\ Goto(p, "syncStaging") /\ UNCHANGED writer
     \/ phase = "serving" /\ Return(p) /\ UNCHANGED synced
  /\ UNCHANGED <<kind, phase, objects, staging, litter, todo, told, retired>>

SyncStaging(p) ==
  LET r == op[p].record
  IN /\ op[p].step = "syncStaging"
     /\ \/ synced' = StagingSynced /\ Answers(r, r)
        \/ phase = "serving" /\ UNCHANGED <<synced, told>>
     /\ Return(p)
     /\ UNCHANGED <<kind, phase, objects, staging, litter, todo, retired>>

\* Delete: C2 deletes what it was told is published, when no other call
\* concerns it, and again when that failed.
Unused(id) == \A q \in Procs : op[q].record # Nothing => op[q].record.id # id

Delete(p, id) ==
  /\ Called(p) /\ Unused(id)
  /\ told[id] # Nothing \/ id \in retired
  /\ LET r == CHOOSE r \in Records : r.id = id
     IN \/ Locally(p) /\ writer' = p /\ Begin(p, "removeObject", r)
        \/ kind = "s3" /\ Begin(p, "removeBundle", r) /\ UNCHANGED writer
  /\ told' = [told EXCEPT ![id] = Nothing]
  /\ retired' = retired \cup {id}
  /\ UNCHANGED <<kind, phase, files, todo>>

RemoveObject(p) ==
  LET id == op[p].record.id
  IN /\ op[p].step = "removeObject"
     /\ \/ objects' = [objects EXCEPT ![id] = Absent] /\ Goto(p, "syncRemoval") /\ UNCHANGED writer
        \/ /\ \E remains \in Remains(objects[id]) : objects' = [objects EXCEPT ![id] = remains]
           /\ Return(p)
     /\ UNCHANGED <<kind, phase, staging, litter, synced, todo, told, retired>>

SyncRemoval(p) ==
  /\ op[p].step = "syncRemoval"
  /\ synced' \in {synced, ObjectsSynced}
  /\ Return(p)
  /\ UNCHANGED <<kind, phase, objects, staging, litter, todo, told, retired>>

-----------------------------------------------------------------------------
(* Recover, before C2 serves requests.  Its errors are logged, and C2      *)
(* serves all the same.                                                    *)

RecoverBegin(p) ==
  /\ phase = "down" /\ phase' = "recovering"
  /\ writer' = p /\ Begin(p, "recover", Nothing)
  /\ todo' = {k \in Keys : staging[k].dir}
  /\ UNCHANGED <<kind, files, told, retired>>

\* The private directories sort before the stages.
RecoverLitter(p) ==
  /\ op[p].step = "recover" /\ litter
  /\ litter' = FALSE
  /\ UNCHANGED <<kind, phase, objects, staging, synced, writer, op, todo, told, retired>>

Recovering(p, k) ==
  /\ op[p].step = "recover" /\ ~litter /\ k \in todo
  /\ todo' = todo \ {k}

\* A stage that is torn, or whose object exists, is not wanted.
Unwanted(k) ==
  Whole(staging[k]) =>
    LET r == staging[k].record
    IN Whole(objects[r.id]) /\ SamePublication(objects[r.id].record, r)

\* Mutant: the stage of a publication that exists is passed over.
RecoverTornStage(p, k) ==
  /\ Recovering(p, k) /\ Unwanted(k)
  /\ staging' = IF Whole(staging[k]) THEN staging ELSE [staging EXCEPT ![k] = Absent]
  /\ UNCHANGED <<kind, phase, objects, litter, synced, writer, op, told, retired>>

RecoverStage(p, k) ==
  /\ Recovering(p, k) /\ Unwanted(k)
  /\ staging' = [staging EXCEPT ![k] = Absent]
  /\ UNCHANGED <<kind, phase, objects, litter, synced, writer, op, told, retired>>

\* Any other one is published, or removed for the quota.
RecoverPublish(p, k) ==
  /\ Recovering(p, k)
  /\ Whole(staging[k]) /\ ~objects[staging[k].record.id].dir
  /\ Begin(p, "admit", staging[k].record)
  /\ UNCHANGED <<kind, phase, files, writer, told, retired>>

\* All objects are read and listed, and the staging directory is synced.
RecoverEnd(p) ==
  /\ op[p].step = "recover" /\ ~litter /\ todo = {}
  /\ \A id \in Ids : ~Torn(objects[id])
  /\ synced' = StagingSynced
  /\ told' = [id \in Ids |-> objects[id].record]
  /\ GiveUp(p)
  /\ UNCHANGED <<kind, objects, staging, litter, retired>>

RecoverFails(p) ==
  /\ phase = "recovering" /\ writer = p
  /\ \/ UNCHANGED staging
     \/ \E k \in todo : \E remains \in Remains(staging[k]) :
          Unwanted(k) /\ staging' = [staging EXCEPT ![k] = remains]
  /\ GiveUp(p)
  /\ UNCHANGED <<kind, objects, litter, synced, told, retired>>

-----------------------------------------------------------------------------
(* The bucket.  Publish holds the mutex from its second look on; Delete    *)
(* does not hold it at all.  An upload or a removal that fails may have    *)
(* had its effect.  C2 does not recover a bucket.                          *)

PublishedInBucket(p, r) ==
  /\ kind = "s3" /\ Asked(p, r)
  /\ objects[r.id].record # Nothing
  /\ Matches(objects[r.id].record, r)
  /\ Answer(r, objects[r.id].record)
  /\ UNCHANGED <<kind, phase, files, writer, op, todo, retired>>

StageBundle(p, r) ==
  /\ kind = "s3" /\ Asked(p, r)
  /\ objects[r.id].record = Nothing
  /\ SizeOf[r.data] <= MaxBundle
  /\ Begin(p, "staged", r)
  /\ UNCHANGED <<kind, phase, files, writer, todo, told, retired>>

LockBucket(p) ==
  LET r == op[p].record
      existing == objects[r.id].record
  IN /\ op[p].step = "staged" /\ writer = Nothing
     /\ \/ /\ existing = Nothing /\ Fits(r)
           /\ writer' = p /\ Goto(p, "putBundle") /\ UNCHANGED told
        \/ /\ existing # Nothing /\ SamePublication(existing, r)
           /\ Return(p) /\ Answer(r, existing)
        \/ Return(p) /\ UNCHANGED told
     /\ UNCHANGED <<kind, phase, files, todo, retired>>

PutBundle(p) ==
  LET r == op[p].record
      put == [objects EXCEPT ![r.id].bundle = r.data]
  IN /\ op[p].step = "putBundle"
     /\ \/ objects' = put /\ Goto(p, "putRecord") /\ UNCHANGED writer
        \/ objects' \in {objects, put} /\ Return(p)
     /\ UNCHANGED <<kind, phase, staging, litter, synced, todo, told, retired>>

PutRecord(p) ==
  LET r == op[p].record
      put == [objects EXCEPT ![r.id].record = r]
  IN /\ op[p].step = "putRecord"
     /\ \/ objects' = put /\ Goto(p, "put") /\ UNCHANGED writer
        \/ objects' \in {objects, put} /\ Return(p)
     /\ UNCHANGED <<kind, phase, staging, litter, synced, todo, told, retired>>

AnswerPut(p) ==
  /\ op[p].step = "put"
  /\ Answer(op[p].record, op[p].record) /\ Return(p)
  /\ UNCHANGED <<kind, phase, files, todo, retired>>

\* The goroutine ends; Delete never had the mutex.
Leave(p) == op' = [op EXCEPT ![p] = Idle]

RemoveBundle(p) ==
  LET gone == [objects EXCEPT ![op[p].record.id].bundle = Nothing]
  IN /\ op[p].step = "removeBundle"
     /\ \/ objects' = gone /\ Goto(p, "removeRecord")
        \/ objects' \in {objects, gone} /\ Leave(p)
     /\ UNCHANGED <<kind, phase, staging, litter, synced, writer, todo, told, retired>>

RemoveRecord(p) ==
  LET gone == [objects EXCEPT ![op[p].record.id].record = Nothing]
  IN /\ op[p].step = "removeRecord"
     /\ objects' \in {objects, gone} /\ Leave(p)
     /\ UNCHANGED <<kind, phase, staging, litter, synced, writer, todo, told, retired>>

-----------------------------------------------------------------------------
(* C2 stops, or its node does.  Of what was not synced, a rename may be    *)
(* undone, or leave the directory under both names, but never under none.  *)

Stops ==
  /\ phase' = IF kind = "local" THEN "down" ELSE "serving"
  /\ writer' = Nothing /\ op' = [p \in Procs |-> Idle] /\ todo' = {}
  /\ UNCHANGED <<kind, litter, told, retired>>

ProcessStops == phase # "down" /\ Stops /\ UNCHANGED <<objects, staging, synced>>

PowerFails ==
  /\ phase # "down" /\ kind = "local"
  /\ \E left \in {<<objects, staging>>, <<objects, synced.staging>>,
                  <<synced.objects, synced.staging>>} :
       objects' = left[1] /\ staging' = left[2]
  /\ synced' = [objects |-> objects', staging |-> staging']
  /\ Stops

Init ==
  /\ kind \in Kinds /\ phase = "serving"
  /\ objects = [id \in Ids |-> Absent] /\ staging = [k \in Keys |-> Absent]
  /\ litter = FALSE /\ synced = [objects |-> objects, staging |-> staging]
  /\ writer = Nothing /\ op = [p \in Procs |-> Idle] /\ todo = {}
  /\ told = [id \in Ids |-> Nothing] /\ retired = {}

Publication(p) ==
  \/ \E r \in Requests :
       \/ PublishedBefore(p, r) \/ PublishStage(p, r) \/ CreateStage(p, r)
       \/ PublishedInBucket(p, r) \/ StageBundle(p, r)
  \/ Stage(p) \/ SyncStage(p) \/ Publish(p) \/ Reject(p) \/ PublishFails(p)
  \/ SyncObjects(p) \/ SyncStaging(p)
  \/ LockBucket(p) \/ PutBundle(p) \/ PutRecord(p) \/ AnswerPut(p)

Deletion(p) ==
  \/ \E id \in Ids : Delete(p, id)
  \/ RemoveObject(p) \/ SyncRemoval(p) \/ RemoveBundle(p) \/ RemoveRecord(p)

Recovery(p) ==
  \/ RecoverBegin(p) \/ RecoverLitter(p) \/ RecoverEnd(p) \/ RecoverFails(p)
  \/ \E k \in Keys : RecoverStage(p, k) \/ RecoverPublish(p, k)

Next ==
  \/ ProcessStops \/ PowerFails
  \/ \E p \in Procs : Publication(p) \/ Deletion(p) \/ Recovery(p)

Spec == Init /\ [][Next]_vars

-----------------------------------------------------------------------------
\* Types, and that the writer lock is held for every step that needs it.
TypeOK ==
  /\ kind \in Kinds /\ phase \in {"down", "recovering", "serving"}
  /\ objects \in [Ids -> Entries] /\ staging \in [Keys -> Entries] /\ litter \in BOOLEAN
  /\ synced \in [objects : [Ids -> Entries], staging : [Keys -> Entries]]
  /\ writer \in Procs \cup {Nothing}
  /\ op \in [Procs -> [step : Steps, record : Records \cup {Nothing}]]
  /\ todo \subseteq Keys
  /\ told \in [Ids -> Records \cup {Nothing}] /\ retired \subseteq Ids
  /\ \A p \in Procs : op[p].step \notin Unlocked => writer = p

\* What can be opened under an id is whole, is what its publisher was told,
\* and stays until its deletion begins: through a publication repeated with
\* other contents, calls that race, a failure at every rename, sync, upload
\* and removal, a restart and a power failure.
Promise == INSTANCE RepositoryPromise WITH
  Publications <- Records,
  shown <- [id \in Ids |-> IF Whole(objects[id]) THEN objects[id].record ELSE Nothing],
  promised <- told
KeepsPromise == Promise!Spec

\* The published bundles stay within maxRepositoryBytes, though the bundle
\* is staged before the check and other calls publish meanwhile.  A removal
\* that was not synced may come back after a power failure, on top of what
\* took its place: an id whose deletion was begun is not counted.
QuotaKept == UsageOf(Ids \ retired) <= MaxRepository

\* A publication is incomplete only when its deletion was begun: no crash and
\* no failure of a publication leaves one, which would make local usage, and
\* so every later backup, fail.
TornOnlyByDelete == \A id \in Ids : Torn(objects[id]) => id \in retired

\* A recovery that succeeds leaves nothing staged and nothing private, so
\* that no identity stays blocked by the stage of an earlier publication.
RecoveryLeavesNothing ==
  [][phase = "recovering" /\ phase' = "serving" /\ told' # told
       => ~litter' /\ \A k \in Keys : ~staging'[k].dir]_vars
=============================================================================
