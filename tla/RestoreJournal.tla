--------------------------- MODULE RestoreJournal ---------------------------
(***************************************************************************)
(* A restore into a stopped server (backups_restore.go): the request of C2,*)
(* the script it runs three times in a pod that mounts the world, and the  *)
(* journal by which a later attempt undoes what an interrupted one began.  *)
(* A script is killed with its pod, signalled, or goes on when its request *)
(* was abandoned; somebody may start the game server meanwhile.            *)
(***************************************************************************)
EXTENDS Naturals, Sequences, FiniteSets

CONSTANTS
  Saves, Settings, Requests,  \* as in WorldPromise
  MaxRestores,  \* restores that are asked for
  MaxStarts,    \* starts of the game server
  Faults        \* the moments that the script does not survive: see FaultNames

\* "tear": a kill falls within the rm -rf of a finished restore, between its
\* marker and its journal; "outlive": a restore begins while the script of an
\* abandoned one still runs.
FaultNames == {"tear", "outlive"}

ASSUME RestoreAssumption ==
  /\ Saves \cap Settings = {}
  /\ Requests \subseteq [files : (SUBSET (Saves \cup Settings)) \ {{}}, overwrite : BOOLEAN]
  /\ {MaxRestores, MaxStarts} \subseteq Nat /\ Faults \subseteq FaultNames

VARIABLES
  world,    \* the content of each file on the volume
  stage,    \* its directory .c2-restore
  script,   \* what runs in the pod of each restore
  request,  \* the restore C2 works on: the holder of lifecycleMu
  running,  \* the game server's pod exists
  starts,
  asked, dirty,  \* observers: as in WorldPromise
  finished       \* observer: restores whose end was marked

vars == <<world, stage, script, request, running, starts, asked, dirty, finished>>

Absent == 0

\* The world as a later attempt would leave it, were it to stop after its
\* recovery.
Recovered ==
  [f \in DOMAIN world |->
     IF stage.committed \/ f \notin stage.journal THEN world[f]
     ELSE IF stage.original[f] # Absent THEN stage.original[f]
     ELSE IF f \in stage.new THEN Absent
     ELSE world[f]]

Promise == INSTANCE WorldPromise WITH world <- Recovered

Files == Promise!Files
Contents == {Absent, Promise!Old, Promise!Played} \cup {Promise!Content(n) : n \in 1..MaxRestores}
Pods == 1..MaxRestores

NoFiles == [f \in Files |-> Absent]
NoStage ==
  [exists |-> FALSE, incoming |-> NoFiles, original |-> NoFiles, new |-> {},
   journal |-> {}, applied |-> FALSE, committed |-> FALSE]

\* todo is what is left of the targets or of the journal, file the one at hand;
\* then is what follows a recovery or a removal.
NoScript == [pc |-> "idle", then |-> "done", todo |-> {}, file |-> {}]

-----------------------------------------------------------------------------
(* The script, in the pod p.  Names are in the order of sort -u, which no   *)
(* property depends on: a set stands for the list.                          *)

Goto(p, pc) == script' = [script EXCEPT ![p].pc = pc]
At(p, pc) == script[p].pc = pc
Ended(p) == script[p].pc \in {"idle", "done", "failed"}
Exit(p, pc) == script' = [script EXCEPT ![p] = [NoScript EXCEPT !.pc = pc]]

\* Mutant: the journal is left.
RemovedButJournal == [NoStage EXCEPT !.journal = stage.journal]

\* rm -rf of the stage.
Removed == NoStage

\* What rm -rf leaves when it is killed: any part of the directory, of which
\* nobody reads incoming and applied again.
Torn ==
  {left \in
     [exists : {stage.exists}, incoming : {stage.incoming}, new : SUBSET stage.new,
      original : {[f \in Files |-> IF f \in kept THEN stage.original[f] ELSE Absent] : kept \in SUBSET Files},
      journal : {{}, stage.journal}, applied : {stage.applied}, committed : {FALSE, stage.committed}] :
   stage.committed /\ ~left.committed /\ left.journal # {} => "tear" \in Faults}

\* recover(), of prepare and of the two traps.
Recover(p) ==
  /\ At(p, "recover")
  /\ script' = [script EXCEPT ![p].pc = IF stage.committed \/ stage.journal = {} THEN "remove" ELSE "replay",
                              ![p].todo = stage.journal]
  /\ UNCHANGED <<world, stage, request, running, starts, asked, dirty, finished>>

\* Mutant: what the restore added is left.
ReplayOriginals(p) ==
  /\ At(p, "replay")
  /\ \E f \in script[p].todo :
       /\ script' = [script EXCEPT ![p].todo = @ \ {f},
                                   ![p].pc = IF script[p].todo = {f} THEN "remove" ELSE "replay"]
       /\ IF stage.original[f] # Absent
            THEN /\ world' = [world EXCEPT ![f] = stage.original[f]]
                 /\ stage' = [stage EXCEPT !.original[f] = Absent]
            ELSE UNCHANGED <<world, stage>>
  /\ UNCHANGED <<request, running, starts, asked, dirty, finished>>

Replay(p) ==
  /\ At(p, "replay")
  /\ \E f \in script[p].todo :
       /\ script' = [script EXCEPT ![p].todo = @ \ {f},
                                   ![p].pc = IF script[p].todo = {f} THEN "remove" ELSE "replay"]
       /\ IF stage.original[f] # Absent
            THEN /\ world' = [world EXCEPT ![f] = stage.original[f]]
                 /\ stage' = [stage EXCEPT !.original[f] = Absent]
            ELSE /\ world' = IF f \in stage.new THEN [world EXCEPT ![f] = Absent] ELSE world
                 /\ UNCHANGED stage
  /\ UNCHANGED <<request, running, starts, asked, dirty, finished>>

Remove(p) ==
  /\ At(p, "remove") /\ stage' = Removed /\ Exit(p, script[p].then)
  /\ UNCHANGED <<world, request, running, starts, asked, dirty, finished>>

\* prepare, after its recovery.
MakeStage(p) ==
  /\ At(p, "mkdir")
  /\ IF stage.exists THEN Exit(p, "failed") /\ UNCHANGED stage
     ELSE Exit(p, "done") /\ stage' = [NoStage EXCEPT !.exists = TRUE]
  /\ UNCHANGED <<world, request, running, starts, asked, dirty, finished>>

\* commit: what was copied must be what was sent, and existing saves need the
\* confirmation; the targets are drawn up and the journal begun.
Incoming(n) ==
  [f \in Files |-> IF f \in asked[n].files THEN Promise!Content(n) ELSE Absent]
Existing == {f \in Saves : world[f] # Absent}

Check(p) ==
  LET r == asked[p]
  IN /\ At(p, "check")
     /\ IF stage.incoming = Incoming(p) /\ (Existing = {} \/ r.overwrite)
          THEN /\ script' = [script EXCEPT ![p].pc = "journal",
                               ![p].todo = r.files \cup IF Promise!ReplacesWorld(r) THEN Existing ELSE {}]
               /\ dirty' = {}
          ELSE Exit(p, "failed") /\ UNCHANGED dirty
     /\ UNCHANGED <<world, stage, request, running, starts, asked, finished>>

Journal(p) ==
  /\ At(p, "journal") /\ script[p].todo # {} /\ stage.exists
  /\ \E f \in script[p].todo :
       /\ stage' = [stage EXCEPT !.journal = @ \cup {f}]
       /\ script' = [script EXCEPT ![p].todo = @ \ {f}, ![p].file = {f},
                       ![p].pc = IF world[f] # Absent THEN "aside" ELSE "new"]
  /\ UNCHANGED <<world, request, running, starts, asked, dirty, finished>>

Aside(p) ==
  /\ At(p, "aside") /\ Goto(p, "place")
  /\ \E f \in script[p].file :
       /\ stage' = [stage EXCEPT !.exists = TRUE, !.original[f] = world[f]]
       /\ world' = [world EXCEPT ![f] = Absent]
  /\ UNCHANGED <<request, running, starts, asked, dirty, finished>>

MarkNew(p) ==
  /\ At(p, "new") /\ Goto(p, "place")
  /\ stage' = [stage EXCEPT !.exists = TRUE, !.new = @ \cup script[p].file]
  /\ UNCHANGED <<world, request, running, starts, asked, dirty, finished>>

Place(p) ==
  /\ At(p, "place") /\ Goto(p, "journal")
  /\ \E f \in script[p].file :
       IF stage.incoming[f] # Absent
         THEN /\ world' = [world EXCEPT ![f] = stage.incoming[f]]
              /\ stage' = [stage EXCEPT !.incoming[f] = Absent]
         ELSE UNCHANGED <<world, stage>>
  /\ UNCHANGED <<request, running, starts, asked, dirty, finished>>

Apply(p) ==
  /\ At(p, "journal") /\ script[p].todo = {} /\ stage.exists
  /\ stage' = [stage EXCEPT !.applied = TRUE] /\ Goto(p, "sync")
  /\ UNCHANGED <<world, request, running, starts, asked, dirty, finished>>

\* The last sync, and the traps are taken back.
Untrap(p) ==
  /\ At(p, "sync") /\ Exit(p, "done")
  /\ UNCHANGED <<world, stage, request, running, starts, asked, dirty, finished>>

\* Mutant: the stage is not removed.
FinalizeUnremoved(p) ==
  /\ At(p, "finalize")
  /\ IF stage.applied
       THEN /\ stage' = [stage EXCEPT !.committed = TRUE] /\ Exit(p, "done")
            /\ finished' = finished \cup {p}
       ELSE Exit(p, "failed") /\ UNCHANGED <<stage, finished>>
  /\ UNCHANGED <<world, request, running, starts, asked, dirty>>

\* finalize: the marker, then the removal of the stage.
Finalize(p) ==
  /\ At(p, "finalize")
  /\ IF stage.applied
       THEN /\ stage' = [stage EXCEPT !.committed = TRUE]
            /\ script' = [script EXCEPT ![p].pc = "remove", ![p].then = "done"]
            /\ finished' = finished \cup {p}
       ELSE Exit(p, "failed") /\ UNCHANGED <<stage, finished>>
  /\ UNCHANGED <<world, request, running, starts, asked, dirty>>

\* Where the traps are set.
Trapping == {"journal", "aside", "new", "place", "sync"}

\* A command fails: the trap of EXIT undoes what was done.
Fail(p) ==
  /\ script[p].pc \in Trapping
  /\ script' = [script EXCEPT ![p] = [NoScript EXCEPT !.pc = "recover", !.then = "failed"]]
  /\ UNCHANGED <<world, stage, request, running, starts, asked, dirty, finished>>

\* HUP, INT or TERM: their trap undoes what was done as well, but does not
\* end the script, which goes on where it was.  Only behind the loop that
\* makes no difference to it.  One that comes while it recovers has it recover
\* once more, and is left out.
Signal(p) ==
  /\ script[p].pc \in Trapping
  /\ script' = [script EXCEPT ![p] = [NoScript EXCEPT !.pc = "recover",
                                        !.then = IF At(p, "sync") THEN "sync" ELSE "lost"]]
  /\ UNCHANGED <<world, stage, request, running, starts, asked, dirty, finished>>

\* In the loop the script has lost its stage, and the name of the file at hand:
\* recover reads the journal into the same variable, to its end.  The commands
\* that follow may make the directory of the stage again, for they make one
\* for the name, but no file is moved, added or marked with an empty name, nor
\* a line added to a journal, or the restore applied, without the stage: the
\* first of these that comes fails.
Lost(p) ==
  /\ At(p, "lost")
  /\ stage' \in {stage, [stage EXCEPT !.exists = TRUE]}
  /\ script' = [script EXCEPT ![p] = [NoScript EXCEPT !.pc = "recover", !.then = "failed"]]
  /\ UNCHANGED <<world, request, running, starts, asked, dirty, finished>>

\* Any other command fails, a signal finds no trap, or the pod is deleted or
\* past its deadline.
Kill(p) ==
  /\ ~Ended(p) /\ Exit(p, "failed")
  /\ stage' \in IF At(p, "remove") THEN Torn ELSE {stage}
  /\ UNCHANGED <<world, request, running, starts, asked, dirty, finished>>

-----------------------------------------------------------------------------
(* The request: handleRestore and restoreFiles                             *)

Number == Len(asked)
NoRequest == "idle"

\* backupTarget: the server is found stopped once the pod is there.
Begin ==
  /\ request = NoRequest /\ Number < MaxRestores /\ ~running
  /\ "outlive" \notin Faults => \A p \in Pods : Ended(p)
  /\ \E r \in Requests : asked' = Append(asked, r)
  /\ request' = "prepare"
  /\ UNCHANGED <<world, stage, script, running, starts, dirty, finished>>

\* The script is run in a mode, which begins at pc; its end is awaited.
Exec(mode, pc, then, next) ==
  /\ request = mode
  /\ \/ /\ At(Number, "idle") /\ UNCHANGED request
        /\ script' = [script EXCEPT ![Number] = [NoScript EXCEPT !.pc = pc, !.then = then]]
     \/ /\ At(Number, "done") /\ request' = next
        /\ script' = [script EXCEPT ![Number] = NoScript]
  /\ UNCHANGED <<world, stage, running, starts, asked, dirty, finished>>

Prepare == Exec("prepare", "recover", "mkdir", "copy")
Commit == Exec("commit", "check", "failed", "confirm")
Finish == Exec("finalize", "finalize", "done", NoRequest)
Answer == request = "finalize" /\ At(Number, "done") /\ Finish

\* kubectl cp of the files, and the check that the server is stopped still.
Copy ==
  /\ request = "copy" /\ stage.exists /\ ~running
  /\ stage' = [stage EXCEPT !.incoming = Incoming(Number)]
  /\ request' = "commit"
  /\ UNCHANGED <<world, script, running, starts, asked, dirty, finished>>

Confirm ==
  /\ request = "confirm" /\ ~running /\ request' = "finalize"
  /\ UNCHANGED <<world, stage, script, running, starts, asked, dirty, finished>>

\* The request fails, at its deadline, at that of kubectl, because the server
\* is not stopped or since the script failed, or C2 crashes.  The deletion of
\* the pod is attempted at best: the script may go on.
Abandon ==
  /\ request # NoRequest /\ request' = NoRequest
  /\ UNCHANGED <<world, stage, script, running, starts, asked, dirty, finished>>

-----------------------------------------------------------------------------
(* The game server, which somebody may start outside of C2, or in C2 after  *)
(* an abandoned restore.                                                    *)

Start ==
  /\ ~running /\ starts < MaxStarts
  /\ running' = TRUE /\ starts' = starts + 1
  /\ UNCHANGED <<world, stage, script, request, asked, dirty, finished>>

Stop ==
  /\ running /\ running' = FALSE
  /\ UNCHANGED <<world, stage, script, request, starts, asked, dirty, finished>>

Save(f) ==
  /\ running /\ f \in Saves
  /\ world' = [world EXCEPT ![f] = Promise!Played]
  /\ dirty' = dirty \cup {f}
  /\ UNCHANGED <<stage, script, request, running, starts, asked, finished>>

-----------------------------------------------------------------------------
Init ==
  /\ world \in [Files -> {Absent, Promise!Old}]
  /\ stage = NoStage /\ script = [p \in Pods |-> NoScript]
  /\ request = NoRequest /\ running = FALSE /\ starts = 0
  /\ asked = << >> /\ dirty = {} /\ finished = {}

Script(p) ==
  \/ Recover(p) \/ Replay(p) \/ Remove(p) \/ MakeStage(p)
  \/ Check(p) \/ Journal(p) \/ Aside(p) \/ MarkNew(p) \/ Place(p) \/ Apply(p)
  \/ Untrap(p) \/ Finalize(p) \/ Fail(p) \/ Signal(p) \/ Lost(p) \/ Kill(p)

Restore == Begin \/ Prepare \/ Copy \/ Commit \/ Confirm \/ Finish \/ Abandon

Next ==
  \/ Restore \/ \E p \in Pods : Script(p)
  \/ Start \/ Stop \/ \E f \in Saves : Save(f)

Spec == Init /\ [][Next]_vars

-----------------------------------------------------------------------------
TypeOK ==
  /\ world \in [Files -> Contents]
  /\ stage \in [exists : BOOLEAN, incoming : [Files -> Contents], original : [Files -> Contents],
                new : SUBSET Files, journal : SUBSET Files, applied : BOOLEAN, committed : BOOLEAN]
  /\ ~stage.exists => stage = NoStage
  /\ \A p \in Pods : {script[p].todo, script[p].file} \subseteq SUBSET Files
  /\ request \in {NoRequest, "prepare", "copy", "commit", "confirm", "finalize"}
  /\ running \in BOOLEAN /\ starts \in 0..MaxStarts
  /\ Number \in 0..MaxRestores /\ dirty \subseteq Saves /\ finished \subseteq Pods

\* The journal makes a restore atomic, whatever failed, wherever its script was
\* signalled or killed, and whoever started the server meanwhile: what a later
\* attempt recovers is the world before the restore, until its end is marked,
\* and from then on the one that was asked for.  Only what Faults names is
\* kept out: the removal of a finished restore that is killed at the wrong
\* moment, which FinishedStays is about, and a script that outlives its request.
KeepsPromise == Promise!Spec

\* A restore that is reported as done has put every file in place, and left
\* nothing that a later attempt would undo.
AnswerIsTrue ==
  [][Answer =>
       /\ ~stage.exists
       /\ \A f \in Promise!Targets(asked[Number]) \ dirty :
            world[f] = Promise!Wanted(asked[Number], Number, f)]_vars

\* A restore whose end was marked is not undone: only another one that sets
\* its files aside, or the game server, changes them.
FinishedStays ==
  [][\A f \in Files :
       world[f] \in {Promise!Content(n) : n \in finished} /\ world'[f] # world[f]
         => \/ running
            \/ \E p \in Pods : At(p, "aside") /\ f \in script[p].file]_vars
=============================================================================
