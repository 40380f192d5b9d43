------------------------ MODULE RestoreJournalProofs ------------------------
(* Theorems about RestoreJournal for every world, set of requests and bound,*)
(* when no script of an abandoned restore is still at work while another    *)
(* one is.  That a removal of a finished restore is not killed between its  *)
(* marker and its journal is assumed where it is needed: of the promise.    *)
EXTENDS RestoreJournal, TLAPS

-----------------------------------------------------------------------------
(* The inductive invariant                                                 *)

Steps == {"idle", "recover", "replay", "remove", "mkdir", "check", "journal", "aside",
          "new", "place", "sync", "lost", "finalize", "done", "failed"}
Thens == {"mkdir", "done", "failed", "sync", "lost"}
Scripts ==
  [pc : Steps, then : Thens, todo : SUBSET Files, file : SUBSET Files]
Stages ==
  [exists : BOOLEAN, incoming : [Files -> Contents], original : [Files -> Contents],
   new : SUBSET Files, journal : SUBSET Files, applied : BOOLEAN, committed : BOOLEAN]

\* TypeOK, with what it leaves open of the script and the requests.
Types ==
  /\ TypeOK
  /\ script \in [Pods -> Scripts]
  /\ asked \in Seq(Requests)
  /\ request # NoRequest => Number \in Pods

\* Only journalled files have been set aside or added, none of them both.
Journalled ==
  \A f \in Files :
    /\ stage.original[f] # Absent => f \in stage.journal /\ f \notin stage.new
    /\ f \in stage.new => f \in stage.journal

\* A removal that was killed leaves more than it should only without a journal.
StageInv == stage.journal # {} => Journalled

\* Only the latest restore has a script.
LastOnly ==
  \A p \in Pods :
    /\ ~Ended(p) => p = Number
    /\ p > Number => script[p] = NoScript

\* A stage that prepare made, and no commit began to work on.
Fresh == stage.journal = {} /\ ~stage.applied /\ ~stage.committed /\ Journalled

\* What a recovery undid of some journalled files.
Undone(F) ==
  \A f \in F :
    /\ stage.original[f] = Absent
    /\ f \in stage.new => world[f] = Absent \/ f \in dirty

\* Saves are replaced only if that was confirmed.
Confirmed(p) == asked[p].overwrite \/ \A f \in Saves \ dirty : Recovered[f] = Absent

\* The commit of p: todo is what is left of its targets, pending the one at
\* hand.
Working(p, todo, pending) ==
  LET r == asked[p]
  IN /\ stage.exists /\ ~stage.committed /\ Journalled
     /\ todo \cap stage.journal = {} /\ pending \subseteq stage.journal
     /\ r.files \subseteq stage.journal \cup todo
     /\ stage.journal \cup todo \subseteq Promise!Targets(r)
     /\ \A f \in todo \cup pending : stage.incoming[f] = Promise!Wanted(r, p, f)
     /\ \A f \in (stage.journal \ pending) \ dirty : world[f] = Promise!Wanted(r, p, f)
     /\ \A f \in stage.journal \ pending : stage.original[f] # Absent \/ f \in stage.new
     /\ \A f \in (Promise!Targets(r) \ (stage.journal \cup todo)) \ dirty : world[f] = Absent
     /\ Confirmed(p)

Applied(p) == stage.applied /\ Working(p, {}, {})

\* What a commit that ends without failure has come to: all is in place, or a
\* signal had all of it undone.
Settled(p) == Applied(p) \/ stage = NoStage

\* Every target is what the restore wants.
Placed(p) ==
  \A f \in Promise!Targets(asked[p]) \ dirty : world[f] = Promise!Wanted(asked[p], p, f)

\* What a script relies on at each of its steps.
ScriptInv(p) ==
  LET s == script[p]
  IN /\ At(p, "replay") => /\ ~stage.committed /\ s.todo \subseteq stage.journal
                           /\ Undone(stage.journal \ s.todo)
     /\ At(p, "remove") => stage.committed \/ Undone(stage.journal)
     /\ At(p, "mkdir") => stage = NoStage
     /\ At(p, "check") => Fresh
     /\ At(p, "journal") => ~stage.applied /\ Working(p, s.todo, {})
     /\ s.pc \in {"aside", "new", "place"} =>
          /\ ~stage.applied /\ Working(p, s.todo, s.file)
          /\ \E f \in Files : s.file = {f}
     /\ \A f \in s.file :
          /\ At(p, "aside") => stage.original[f] = Absent /\ f \notin stage.new
                               /\ world[f] # Absent
          /\ At(p, "new") => stage.original[f] = Absent /\ f \notin stage.new
                             /\ (world[f] = Absent \/ f \in dirty)
          /\ At(p, "place") => (stage.original[f] # Absent \/ f \in stage.new)
                               /\ (world[f] = Absent \/ f \in dirty)
     /\ At(p, "lost") => stage = NoStage
     /\ s.pc \in {"sync", "finalize"} => Settled(p)

\* What the request relies on at each of its steps.
RequestInv ==
  LET s == script[Number]
      undoing == s.pc \in {"recover", "replay", "remove"}
  IN /\ request = "prepare" =>
          /\ s.pc \in {"idle", "recover", "replay", "remove", "mkdir", "done", "failed"}
          /\ undoing => s.then = "mkdir"
          /\ s.pc = "done" => Fresh
     /\ request = "copy" => s.pc = "idle" /\ Fresh
     /\ request = "commit" =>
          /\ s.pc \notin {"mkdir", "finalize"}
          /\ undoing => s.then \in {"failed", "sync", "lost"}
          /\ s.pc = "idle" => Fresh
          /\ s.pc = "done" => Settled(Number)
     /\ request = "confirm" => s.pc = "idle" /\ Settled(Number)
     /\ request = "finalize" =>
          /\ s.pc \in {"idle", "finalize", "remove", "done", "failed"}
          /\ s.pc = "idle" => Settled(Number)
          /\ s.pc = "remove" => s.then = "done" /\ Placed(Number)
          /\ s.pc = "done" => ~stage.exists /\ Placed(Number)

IInv == Types /\ StageInv /\ LastOnly /\ (\A p \in Pods : ScriptInv(p)) /\ RequestInv

-----------------------------------------------------------------------------
(* Types                                                                   *)

LEMMA Bounds ==
  /\ MaxRestores \in Nat /\ MaxStarts \in Nat /\ Pods \subseteq Nat
  /\ \A r \in Requests : r.files \subseteq Files /\ r.files # {} /\ r.overwrite \in BOOLEAN
BY RestoreAssumption DEF Pods, Files, Promise!Files

LEMMA ContentsFacts ==
  /\ Absent \in Contents /\ Promise!Old \in Contents /\ Promise!Played \in Contents
  /\ Promise!Old # Absent /\ Promise!Played # Absent
  /\ \A n \in Pods : Promise!Content(n) \in Contents /\ Promise!Content(n) # Absent
  /\ \A n \in Pods : asked \in Seq(Requests) /\ n \in 1..Len(asked) =>
       Incoming(n) \in [Files -> Contents]
BY RestoreAssumption
   DEF Contents, Pods, Absent, Promise!Old, Promise!Played, Promise!Content, Incoming

LEMMA NoStageType == NoStage \in Stages /\ NoFiles \in [Files -> Contents]
BY ContentsFacts DEF NoStage, NoFiles, Stages

LEMMA InitIInv == Init => IInv
<1> SUFFICES ASSUME Init PROVE IInv
  OBVIOUS
<1>1. Types
  <2>1. world \in [Files -> Contents] /\ stage \in Stages /\ (~stage.exists => stage = NoStage)
    BY ContentsFacts, NoStageType DEF Init
  <2>2. script \in [Pods -> Scripts]
    BY DEF Init, NoScript, Scripts, Steps, Thens
  <2>3. asked \in Seq(Requests) /\ Number = 0
    BY DEF Init, Number
  <2>4. \A p \in Pods : script[p].todo \subseteq Files /\ script[p].file \subseteq Files
    BY <2>2 DEF Scripts
  <2>5. starts \in 0..MaxStarts
    BY Bounds DEF Init
  <2>6. request = NoRequest /\ running \in BOOLEAN /\ dirty \subseteq Saves /\ finished \subseteq Pods
    BY DEF Init
  <2> QED BY <2>1, <2>2, <2>3, <2>4, <2>5, <2>6, Bounds DEF Types, TypeOK, Stages
<1>2. StageInv
  BY DEF Init, StageInv, NoStage
<1>3. LastOnly /\ \A p \in Pods : ScriptInv(p)
  BY DEF Init, LastOnly, ScriptInv, Ended, At, NoScript
<1>4. RequestInv
  BY DEF Init, RequestInv, NoRequest
<1> QED BY <1>1, <1>2, <1>3, <1>4 DEF IInv

-----------------------------------------------------------------------------
(* Facts that the steps share                                              *)

\* The script of p can take a step: it is the latest restore's.
LEMMA OnlyTheLast ==
  ASSUME IInv, NEW p \in Pods, ~Ended(p)
  PROVE  /\ p = Number /\ asked[p] \in Requests
         /\ \A q \in Pods : q # p => Ended(q)
<1>1. p = Number /\ \A q \in Pods : q # p => Ended(q)
  BY DEF IInv, LastOnly
<1>2. p \in 1..Len(asked) /\ asked \in Seq(Requests)
  BY <1>1, Bounds DEF Number, IInv, Types, Pods
<1> QED BY <1>1, <1>2

\* What a killed removal leaves is a part of the stage.
LEMMA TornStage ==
  ASSUME stage \in Stages, ~stage.exists => stage = NoStage, NEW left \in Torn
  PROVE  /\ left \in Stages /\ (~left.exists => left = NoStage)
         /\ left.journal \in {{}, stage.journal} /\ left.new \subseteq stage.new
         /\ left.committed => stage.committed
         /\ \A f \in Files : left.original[f] \in {Absent, stage.original[f]}
         /\ stage.committed /\ ~left.committed /\ left.journal # {} => "tear" \in Faults
<1>1. PICK kept \in SUBSET Files :
        /\ left.original = [f \in Files |-> IF f \in kept THEN stage.original[f] ELSE Absent]
        /\ left.exists = stage.exists /\ left.incoming = stage.incoming
        /\ left.new \subseteq stage.new /\ left.journal \in {{}, stage.journal}
        /\ left.applied = stage.applied /\ left.committed \in {FALSE, stage.committed}
        /\ left = [exists |-> left.exists, incoming |-> left.incoming, new |-> left.new,
                   original |-> left.original, journal |-> left.journal,
                   applied |-> left.applied, committed |-> left.committed]
        /\ stage.committed /\ ~left.committed /\ left.journal # {} => "tear" \in Faults
  BY DEF Torn
<1>2. left \in Stages
  BY <1>1, ContentsFacts DEF Stages
<1>3. \A f \in Files : left.original[f] \in {Absent, stage.original[f]}
  BY <1>1
<1>4. ~stage.exists => left = NoStage
  <2> SUFFICES ASSUME ~stage.exists PROVE left = NoStage
    OBVIOUS
  <2>0. stage = NoStage
    OBVIOUS
  <2>1. /\ left.exists = FALSE /\ left.incoming = NoFiles /\ left.new = {} /\ left.journal = {}
        /\ left.applied = FALSE /\ left.committed = FALSE
    BY <1>1, <2>0 DEF NoStage
  <2>2. left.original = NoFiles
    BY <1>1, <2>0 DEF NoStage, NoFiles
  <2> QED BY <1>1, <2>1, <2>2 DEF NoStage
<1> QED BY <1>1, <1>2, <1>3, <1>4

LEMMA ScriptTypes ==
  ASSUME IInv, "outlive" \notin Faults, NEW p \in Pods, Script(p)
  PROVE  /\ stage' \in Stages /\ (~stage.exists => stage = NoStage)'
         /\ world' \in [Files -> Contents] /\ script' \in [Pods -> Scripts]
         /\ dirty' \subseteq Saves /\ finished' \subseteq Pods
         /\ UNCHANGED <<request, running, starts, asked>>
<1> USE DEF At, Goto, Exit
<1>1. /\ stage \in Stages /\ (~stage.exists => stage = NoStage)
      /\ world \in [Files -> Contents] /\ script \in [Pods -> Scripts]
      /\ dirty \subseteq Saves /\ finished \subseteq Pods
  BY DEF IInv, Types, TypeOK, Stages
<1>2. /\ \A pc \in Steps, then \in Thens : [NoScript EXCEPT !.pc = pc, !.then = then] \in Scripts
      /\ \A pc \in Steps : [NoScript EXCEPT !.pc = pc] \in Scripts
      /\ Thens \subseteq Steps
  BY DEF NoScript, Scripts, Steps, Thens
<1>3. /\ script[p] \in Scripts /\ ScriptInv(p) /\ StageInv
      /\ ~Ended(p) => asked[p] \in Requests
  BY <1>1, OnlyTheLast DEF IInv
<1>4. CASE Recover(p)
  BY <1>1, <1>3, <1>4 DEF Recover, Scripts, Steps, Stages
<1>5. CASE Replay(p)
  <2>1. PICK f \in script[p].todo :
          /\ script' = [script EXCEPT ![p].todo = @ \ {f},
                                      ![p].pc = IF script[p].todo = {f} THEN "remove" ELSE "replay"]
          /\ \/ /\ world' = [world EXCEPT ![f] = stage.original[f]]
                /\ stage' = [stage EXCEPT !.original[f] = Absent]
             \/ world' \in {world, [world EXCEPT ![f] = Absent]} /\ stage' = stage
    BY <1>5 DEF Replay
  <2>2. script' \in [Pods -> Scripts] /\ f \in Files
    BY <1>1, <1>3, <2>1 DEF Scripts, Steps
  <2>3. stage.exists
    BY <1>1, <1>3, <1>5, <2>1 DEF Replay, ScriptInv, NoStage
  <2>4. stage' \in Stages /\ stage'.exists /\ world' \in [Files -> Contents]
    BY <1>1, <2>1, <2>2, <2>3, ContentsFacts DEF Stages
  <2> QED BY <1>1, <1>5, <2>2, <2>4 DEF Replay
<1>6. CASE Remove(p)
  BY <1>1, <1>2, <1>3, <1>6, NoStageType DEF Remove, Removed, Scripts
<1>7. CASE MakeStage(p)
  <2>1. [NoStage EXCEPT !.exists = TRUE] \in Stages /\ [NoStage EXCEPT !.exists = TRUE].exists
    BY NoStageType DEF Stages
  <2>2. script' \in [Pods -> Scripts] /\ stage' \in {stage, [NoStage EXCEPT !.exists = TRUE]}
    BY <1>1, <1>2, <1>7 DEF MakeStage, Steps
  <2> QED BY <1>1, <1>7, <2>1, <2>2 DEF MakeStage
<1>8. CASE Check(p)
  <2>1. asked[p].files \subseteq Files /\ Existing \subseteq Files
    BY <1>3, <1>8, Bounds DEF Check, Ended, Existing, Files, Promise!Files
  <2>2. script' \in [Pods -> Scripts]
    <3> DEFINE todo == asked[p].files \cup IF Promise!ReplacesWorld(asked[p]) THEN Existing ELSE {}
    <3>1. todo \subseteq Files
      BY <2>1
    <3> HIDE DEF todo
    <3>2. \/ script' = [script EXCEPT ![p].pc = "journal", ![p].todo = todo]
          \/ script' = [script EXCEPT ![p] = [NoScript EXCEPT !.pc = "failed"]]
      BY <1>8 DEF Check, todo
    <3>3. [script EXCEPT ![p].pc = "journal", ![p].todo = todo] \in [Pods -> Scripts]
      BY <1>1, <3>1 DEF Scripts, Steps
    <3>4. [script EXCEPT ![p] = [NoScript EXCEPT !.pc = "failed"]] \in [Pods -> Scripts]
      BY <1>1, <1>2 DEF Steps
    <3> QED BY <3>2, <3>3, <3>4
  <2>3. dirty' \subseteq Saves
    BY <1>1, <1>8 DEF Check
  <2> QED BY <1>1, <1>8, <2>2, <2>3 DEF Check
<1>9. CASE Journal(p)
  BY <1>1, <1>3, <1>9 DEF Journal, Scripts, Steps, Stages
<1>10. CASE Aside(p)
  <2>1. script' \in [Pods -> Scripts] /\ script[p].file \subseteq Files
    BY <1>1, <1>3, <1>10 DEF Aside, Scripts, Steps
  <2>2. PICK f \in script[p].file :
          /\ stage' = [stage EXCEPT !.exists = TRUE, !.original[f] = world[f]]
          /\ world' = [world EXCEPT ![f] = Absent]
    BY <1>10 DEF Aside
  <2>3. stage' \in Stages /\ stage'.exists /\ world' \in [Files -> Contents]
    BY <1>1, <2>1, <2>2, ContentsFacts DEF Stages
  <2> QED BY <1>1, <1>10, <2>1, <2>3 DEF Aside
<1>11. CASE MarkNew(p)
  BY <1>1, <1>3, <1>11 DEF MarkNew, Scripts, Steps, Stages
<1>12. CASE Place(p)
  <2>1. PICK f \in Files :
          \/ UNCHANGED <<world, stage>>
          \/ /\ world' = [world EXCEPT ![f] = stage.incoming[f]]
             /\ stage' = [stage EXCEPT !.incoming[f] = Absent]
    BY <1>1, <1>3, <1>12 DEF Place, Scripts
  <2>2. stage' \in Stages /\ stage'.exists = stage.exists /\ world' \in [Files -> Contents]
    BY <1>1, <2>1, ContentsFacts DEF Stages
  <2>3. stage.exists
    BY <1>3, <1>12 DEF Place, ScriptInv, Working
  <2>4. script' \in [Pods -> Scripts]
    BY <1>1, <1>12 DEF Place, Scripts, Steps
  <2> QED BY <1>1, <1>12, <2>2, <2>3, <2>4 DEF Place
<1>13. CASE Apply(p)
  <2>1. script' \in [Pods -> Scripts]
    BY <1>1, <1>13 DEF Apply, Scripts, Steps
  <2>2. stage' \in Stages /\ stage'.exists
    BY <1>1, <1>13 DEF Apply, Stages
  <2> QED BY <1>1, <1>13, <2>1, <2>2 DEF Apply
<1>14. CASE Finalize(p)
  <2>1. stage.applied => stage.exists
    BY <1>1 DEF NoStage
  <2>2. script' \in [Pods -> Scripts]
    <3>1. \/ script' = [script EXCEPT ![p].pc = "remove", ![p].then = "done"]
          \/ script' = [script EXCEPT ![p] = [NoScript EXCEPT !.pc = "failed"]]
      BY <1>14 DEF Finalize
    <3>2. [script EXCEPT ![p].pc = "remove", ![p].then = "done"] \in [Pods -> Scripts]
      BY <1>1 DEF Scripts, Steps, Thens
    <3>3. [script EXCEPT ![p] = [NoScript EXCEPT !.pc = "failed"]] \in [Pods -> Scripts]
      BY <1>1, <1>2 DEF Steps
    <3> QED BY <3>1, <3>2, <3>3
  <2> QED BY <1>1, <1>14, <2>1, <2>2 DEF Finalize, Stages
<1>15. CASE Untrap(p) \/ Fail(p) \/ Signal(p)
  <2>1. PICK pc \in Steps, then \in Thens :
          \/ script' = [script EXCEPT ![p] = [NoScript EXCEPT !.pc = pc, !.then = then]]
          \/ script' = [script EXCEPT ![p] = [NoScript EXCEPT !.pc = pc]]
    BY <1>15 DEF Untrap, Fail, Signal, Steps, Thens
  <2>2. script' \in [Pods -> Scripts]
    BY <1>1, <1>2, <2>1
  <2> QED BY <1>1, <1>15, <2>2 DEF Untrap, Fail, Signal
<1>16. CASE Lost(p)
  <2>1. [NoScript EXCEPT !.pc = "recover", !.then = "failed"] \in Scripts
    BY <1>2 DEF Steps, Thens
  <2>2. [stage EXCEPT !.exists = TRUE] \in Stages /\ [stage EXCEPT !.exists = TRUE].exists
    BY <1>1 DEF Stages
  <2> QED BY <1>1, <1>16, <2>1, <2>2 DEF Lost
<1>17. CASE Kill(p)
  <2>1. script' \in [Pods -> Scripts]
    BY <1>1, <1>2, <1>17 DEF Kill, Steps
  <2> QED BY <1>1, <1>17, <2>1, TornStage DEF Kill
<1> QED BY <1>4, <1>5, <1>6, <1>7, <1>8, <1>9, <1>10, <1>11, <1>12, <1>13, <1>14, <1>15, <1>16, <1>17
       DEF Script

LEMMA ScriptActs ==
  ASSUME IInv, NEW p \in Pods, Script(p)
  PROVE  ~Ended(p) /\ \A q \in Pods \ {p} : script'[q] = script[q]
<1>1. script \in [Pods -> Scripts]
  BY DEF IInv, Types
<1> USE <1>1 DEF At, Ended, Goto, Exit
<1>2. CASE Recover(p) \/ Replay(p) \/ Remove(p) \/ MakeStage(p)
  BY <1>2 DEF Recover, Replay, Remove, MakeStage
<1>3. CASE Check(p) \/ Journal(p) \/ Aside(p) \/ MarkNew(p) \/ Place(p) \/ Apply(p)
  BY <1>3 DEF Check, Journal, Aside, MarkNew, Place, Apply
<1>4. CASE Untrap(p) \/ Finalize(p) \/ Fail(p) \/ Signal(p) \/ Lost(p) \/ Kill(p)
  BY <1>4 DEF Untrap, Finalize, Fail, Signal, Lost, Kill, Trapping
<1> QED BY <1>2, <1>3, <1>4 DEF Script

LEMMA ScriptLast ==
  ASSUME IInv, "outlive" \notin Faults, NEW p \in Pods, Script(p)
  PROVE  LastOnly'
<1>1. ~Ended(p) /\ p = Number /\ \A q \in Pods : q # p => script'[q] = script[q]
  BY ScriptActs, OnlyTheLast
<1>2. Number' = Number /\ Number \in Nat
  BY <1>1, ScriptTypes, Bounds DEF Number
<1> QED BY <1>1, <1>2, Bounds DEF LastOnly, IInv, Ended

\* What a recovery makes of a file.
Saved(w, s, f) ==
  IF s.committed \/ f \notin s.journal THEN w[f]
  ELSE IF s.original[f] # Absent THEN s.original[f]
  ELSE IF f \in s.new THEN Absent
  ELSE w[f]

LEMMA RecoveredSaved ==
  ASSUME world \in [Files -> Contents]
  PROVE  DOMAIN Recovered = Files /\ \A f \in Files : Recovered[f] = Saved(world, stage, f)
BY DEF Recovered, Saved

LEMMA RecoveredSavedNext ==
  ASSUME world' \in [Files -> Contents]
  PROVE  DOMAIN Recovered' = Files /\ \A f \in Files : Recovered'[f] = Saved(world', stage', f)
BY DEF Recovered, Saved

LEMMA ScriptStage ==
  ASSUME IInv, "outlive" \notin Faults, NEW p \in Pods, Script(p)
  PROVE  StageInv'
<1>1. /\ stage \in Stages /\ StageInv /\ ScriptInv(p) /\ script[p] \in Scripts
      /\ world \in [Files -> Contents] /\ (~stage.exists => stage = NoStage)
  BY DEF IInv, Types, TypeOK, Stages
<1> USE <1>1 DEF At
<1>2. ASSUME stage' = stage PROVE StageInv'
  BY <1>2 DEF StageInv, Journalled
<1>3. CASE Recover(p) \/ Check(p) \/ Untrap(p) \/ Fail(p) \/ Signal(p)
  BY <1>2, <1>3 DEF Recover, Check, Untrap, Fail, Signal
<1>4. CASE Replay(p)
  BY <1>4 DEF Replay, Stages, StageInv, Journalled, Scripts
<1>5. CASE Remove(p)
  BY <1>5 DEF Remove, Removed, NoStage, StageInv
<1>6. CASE MakeStage(p)
  <2>1. CASE stage' = stage
    BY <1>2, <2>1
  <2>2. CASE stage' = [NoStage EXCEPT !.exists = TRUE]
    BY <2>2 DEF NoStage, StageInv
  <2> QED BY <1>6, <2>1, <2>2 DEF MakeStage
<1>7. CASE Journal(p)
  BY <1>7 DEF Journal, StageInv, Journalled, Stages, ScriptInv, Working
<1>8. CASE Aside(p)
  BY <1>8 DEF Aside, StageInv, Journalled, Stages, ScriptInv, Working, Scripts
<1>9. CASE MarkNew(p)
  BY <1>9 DEF MarkNew, StageInv, Journalled, Stages, ScriptInv, Working, Scripts
<1>10. CASE Place(p)
  BY <1>10 DEF Place, StageInv, Journalled, Stages
<1>11. CASE Apply(p) \/ Finalize(p)
  BY <1>11 DEF Apply, Finalize, StageInv, Journalled, Stages
<1>12. CASE Lost(p)
  BY <1>12 DEF Lost, ScriptInv, StageInv, NoStage
<1>13. CASE Kill(p)
  <2>1. CASE stage' = stage
    BY <1>2, <2>1
  <2>2. CASE stage' \in Torn
    BY <2>2, TornStage DEF StageInv, Journalled
  <2> QED BY <1>13, <2>1, <2>2 DEF Kill
<1> QED BY <1>3, <1>4, <1>5, <1>6, <1>7, <1>8, <1>9, <1>10, <1>11, <1>12, <1>13 DEF Script

\* Before the marker, no step of a script changes what a recovery would make
\* of a file that no game server wrote; nor does a kill, but for the one that
\* leaves a finished restore its journal.
LEMMA ScriptRecovers ==
  ASSUME IInv, "outlive" \notin Faults, NEW p \in Pods, Script(p), ~Finalize(p),
         At(p, "remove") => "tear" \notin Faults
  PROVE  /\ \A f \in Files \ dirty : Recovered'[f] = Recovered[f]
         /\ \/ dirty' = dirty
            \/ dirty' = {} /\ Recovered' = Recovered
<1>1. /\ stage \in Stages /\ StageInv /\ ScriptInv(p) /\ script[p] \in Scripts
      /\ world \in [Files -> Contents] /\ world' \in [Files -> Contents]
      /\ ~stage.exists => stage = NoStage
  BY ScriptTypes DEF IInv, Types, TypeOK, Stages
<1>2. SUFFICES /\ \A f \in Files \ dirty : Saved(world', stage', f) = Saved(world, stage, f)
               /\ \/ dirty' = dirty
                  \/ dirty' = {} /\ stage' = stage /\ world' = world
  <2>1. stage' = stage /\ world' = world => Recovered' = Recovered
    BY DEF Recovered
  <2> QED BY <1>1, <2>1, RecoveredSaved, RecoveredSavedNext
<1> USE <1>1 DEF At
<1>3. CASE Recover(p) \/ Check(p) \/ Untrap(p) \/ Fail(p) \/ Signal(p)
  BY <1>3 DEF Recover, Check, Untrap, Fail, Signal
<1>4. CASE Replay(p)
  BY <1>4 DEF Replay, Stages, StageInv, Journalled, Scripts, Saved, ScriptInv
<1>5. CASE Remove(p)
  BY <1>5 DEF Remove, Removed, NoStage, NoFiles, Saved, ScriptInv, Undone
<1>6. CASE MakeStage(p)
  BY <1>6 DEF MakeStage, ScriptInv, NoStage, NoFiles, Saved
<1>7. CASE Journal(p)
  BY <1>7 DEF Journal, Journalled, Stages, Saved, ScriptInv, Working
<1>8. CASE Aside(p)
  BY <1>8, ContentsFacts DEF Aside, Journalled, Stages, ScriptInv, Working, Scripts, Saved
<1>9. CASE MarkNew(p)
  BY <1>9 DEF MarkNew, Journalled, Stages, ScriptInv, Working, Scripts, Saved
<1>10. CASE Place(p)
  BY <1>10 DEF Place, Journalled, Stages, ScriptInv, Working, Scripts, Saved
<1>11. CASE Apply(p)
  BY <1>11 DEF Apply, Stages, Saved
<1>12. CASE Lost(p)
  BY <1>12 DEF Lost, ScriptInv, NoStage, Saved
<1>13. CASE Kill(p)
  <2>1. CASE stage' = stage
    BY <1>13, <2>1 DEF Kill
  <2>2. CASE stage' \in Torn /\ At(p, "remove")
    <3>1. /\ stage'.journal \in {{}, stage.journal} /\ stage'.new \subseteq stage.new
          /\ stage'.committed => stage.committed
          /\ \A f \in Files : stage'.original[f] \in {Absent, stage.original[f]}
          /\ stage.committed /\ ~stage'.committed => stage'.journal = {}
          /\ world' = world /\ dirty' = dirty
      BY <1>13, <2>2, TornStage DEF Kill
    <3>2. stage.committed \/ Undone(stage.journal)
      BY <2>2 DEF ScriptInv
    <3> QED BY <3>1, <3>2 DEF Saved, Undone
  <2> QED BY <1>13, <2>1, <2>2 DEF Kill
<1> QED BY <1>3, <1>4, <1>5, <1>6, <1>7, <1>8, <1>9, <1>10, <1>11, <1>12, <1>13 DEF Script

-----------------------------------------------------------------------------
(* A script's step keeps what the script relies on                         *)

\* Targets and what is wanted of them, by the definitions of the promise.
LEMMA TargetFacts ==
  ASSUME NEW r \in Requests, NEW n \in Pods
  PROVE  /\ r.files \subseteq Promise!Targets(r) /\ Promise!Targets(r) \subseteq Files
         /\ Promise!Targets(r) \ r.files \subseteq Saves
         /\ Promise!ReplacesWorld(r) => Promise!Targets(r) = r.files \cup Saves
         /\ ~Promise!ReplacesWorld(r) => Promise!Targets(r) = r.files
         /\ \A f \in Files : Promise!Wanted(r, n, f) = IF f \in r.files THEN Promise!Content(n) ELSE Absent
         /\ Promise!Content(n) # Absent
BY Bounds, ContentsFacts
   DEF Promise!Targets, Promise!Wanted, Files, Promise!Files, Absent, Promise!Absent

LEMMA ConfirmedKept ==
  ASSUME IInv, "outlive" \notin Faults, NEW p \in Pods, Script(p), ~Finalize(p), ~At(p, "remove"),
         Confirmed(p), dirty' = dirty
  PROVE  Confirmed(p)'
BY ScriptRecovers, ScriptTypes DEF Confirmed, Files, Promise!Files

LEMMA CheckKeeps ==
  ASSUME IInv, "outlive" \notin Faults, NEW p \in Pods, Check(p)
  PROVE  ScriptInv(p)'
<1>1. /\ script \in [Pods -> Scripts] /\ world \in [Files -> Contents]
      /\ ~stage.exists => stage = NoStage
      /\ Fresh /\ asked[p] \in Requests
  BY OnlyTheLast DEF IInv, Types, TypeOK, ScriptInv, Check, At, Ended
<1>2. /\ UNCHANGED <<world, stage, asked>>
      /\ stage.journal = {} /\ ~stage.applied /\ ~stage.committed /\ Journalled
  BY <1>1 DEF Check, Fresh
<1> DEFINE r == asked[p]
           todo == r.files \cup IF Promise!ReplacesWorld(r) THEN Existing ELSE {}
<1>3. CASE script' = [script EXCEPT ![p] = [NoScript EXCEPT !.pc = "failed"]]
  BY <1>1, <1>3 DEF ScriptInv, At, NoScript
<1>4. CASE /\ script' = [script EXCEPT ![p].pc = "journal", ![p].todo = todo] /\ dirty' = {}
           /\ stage.incoming = Incoming(p) /\ (Existing = {} \/ r.overwrite)
  <2>1. script'[p].pc = "journal" /\ script'[p].todo = todo /\ script'[p].file = script[p].file
    BY <1>1, <1>4 DEF Scripts
  <2>2. stage.exists
    <3>1. PICK f \in r.files : f \in Files
      BY <1>1, Bounds
    <3>2. Incoming(p)[f] # Absent
      BY <1>1, <3>1, TargetFacts DEF Incoming
    <3> QED BY <1>1, <1>4, <3>2, <3>1 DEF NoStage, NoFiles
  <2>3. todo \subseteq Promise!Targets(r)
    BY <1>1, TargetFacts DEF Existing
  <2>4. \A f \in todo : stage.incoming[f] = Promise!Wanted(r, p, f)
    BY <1>1, <1>4, <2>3, TargetFacts DEF Incoming
  <2>5. \A f \in Promise!Targets(r) \ todo : world[f] = Absent
    BY <1>1, TargetFacts DEF Existing
  <2>6. r.overwrite \/ \A f \in Saves : Recovered[f] = Absent
    <3>1. \A f \in Saves : Recovered[f] = world[f]
      BY <1>1, <1>2, RecoveredSaved DEF Saved, Files, Promise!Files
    <3> QED BY <1>4, <3>1 DEF Existing
  <2>7. Recovered' = Recovered
    BY <1>2 DEF Recovered
  <2>8. Confirmed(p)'
    BY <1>2, <1>4, <2>6, <2>7 DEF Confirmed
  <2>9. PICK T : T = todo
    OBVIOUS
  <2>10. r.files \subseteq T
    BY <2>9
  <2> HIDE DEF todo
  <2>11. stage' = stage /\ asked' = asked /\ world' = world /\ dirty' = {}
    BY <1>2, <1>4
  <2>12. Working(p, T, {})'
    BY <1>2, <2>2, <2>3, <2>4, <2>5, <2>8, <2>9, <2>10, <2>11 DEF Working, Journalled
  <2>13. ~stage'.applied
    BY <1>2
  <2> QED BY <2>1, <2>9, <2>12, <2>13 DEF ScriptInv, At
<1> QED BY <1>3, <1>4 DEF Check, Exit

LEMMA JournalKeeps ==
  ASSUME IInv, "outlive" \notin Faults, NEW p \in Pods, Journal(p)
  PROVE  ScriptInv(p)'
<1>1. /\ script \in [Pods -> Scripts] /\ world \in [Files -> Contents] /\ stage \in Stages
      /\ StageInv /\ Working(p, script[p].todo, {}) /\ ~stage.applied
  BY DEF IInv, Types, TypeOK, Stages, ScriptInv, Journal, At
<1>2. PICK f \in script[p].todo :
        /\ stage' = [stage EXCEPT !.journal = @ \cup {f}]
        /\ script' = [script EXCEPT ![p].todo = @ \ {f}, ![p].file = {f},
                        ![p].pc = IF world[f] # Absent THEN "aside" ELSE "new"]
        /\ UNCHANGED <<world, asked, dirty>>
  BY DEF Journal
<1>3. f \in Files /\ f \notin stage.journal /\ stage.original[f] = Absent /\ f \notin stage.new
  BY <1>1, <1>2 DEF Scripts, Working, Journalled
<1>4. Confirmed(p)'
  BY <1>1, <1>2, ConfirmedKept DEF Working, Script, Journal, Finalize, At
<1>5. Working(p, script[p].todo \ {f}, {f})'
  BY <1>1, <1>2, <1>3, <1>4 DEF Working, Journalled, Stages
<1>6. /\ script'[p].todo = script[p].todo \ {f} /\ script'[p].file = {f}
      /\ script'[p].pc = IF world[f] # Absent THEN "aside" ELSE "new"
  BY <1>1, <1>2 DEF Scripts
<1>7. stage'.original = stage.original /\ stage'.new = stage.new /\ stage'.applied = stage.applied
  BY <1>1, <1>2 DEF Stages
<1> QED BY <1>1, <1>2, <1>3, <1>5, <1>6, <1>7 DEF ScriptInv, At

LEMMA AsideKeeps ==
  ASSUME IInv, "outlive" \notin Faults, NEW p \in Pods, Aside(p)
  PROVE  ScriptInv(p)'
<1>1. /\ script \in [Pods -> Scripts] /\ world \in [Files -> Contents] /\ stage \in Stages
      /\ StageInv /\ Working(p, script[p].todo, script[p].file) /\ ~stage.applied
  BY DEF IInv, Types, TypeOK, Stages, ScriptInv, Aside, At
<1>2. PICK f \in script[p].file :
        /\ stage' = [stage EXCEPT !.exists = TRUE, !.original[f] = world[f]]
        /\ world' = [world EXCEPT ![f] = Absent]
        /\ script' = [script EXCEPT ![p].pc = "place"]
        /\ UNCHANGED <<asked, dirty>>
  BY DEF Aside, Goto
<1>3. f \in Files /\ script[p].file = {f} /\ world[f] # Absent /\ f \notin stage.new
  <2>1. ScriptInv(p) /\ script[p].pc = "aside"
    BY DEF IInv, Aside, At
  <2> QED BY <1>2, <2>1 DEF ScriptInv, At
<1>4. Confirmed(p)'
  BY <1>1, <1>2, ConfirmedKept DEF Working, Script, Aside, Finalize, At
<1>5. /\ script'[p].todo = script[p].todo /\ script'[p].file = {f} /\ script'[p].pc = "place"
  BY <1>1, <1>2, <1>3 DEF Scripts
<1>6. /\ stage'.exists /\ stage'.original[f] # Absent /\ world'[f] = Absent
      /\ stage'.applied = stage.applied /\ stage'.committed = stage.committed
      /\ stage'.journal = stage.journal /\ stage'.incoming = stage.incoming /\ stage'.new = stage.new
      /\ \A g \in Files \ {f} : world'[g] = world[g] /\ stage'.original[g] = stage.original[g]
  BY <1>1, <1>2, <1>3 DEF Stages
<1>7. stage.journal \subseteq Files /\ Promise!Targets(asked[p]) \subseteq Files
  BY <1>1, OnlyTheLast, TargetFacts DEF Stages, Aside, At, Ended
<1>8. Working(p, script[p].todo, {f})'
  BY <1>1, <1>2, <1>3, <1>4, <1>5, <1>6, <1>7 DEF Working, Journalled
<1> QED BY <1>3, <1>5, <1>6, <1>8, <1>1 DEF ScriptInv, At

LEMMA MarkNewKeeps ==
  ASSUME IInv, "outlive" \notin Faults, NEW p \in Pods, MarkNew(p)
  PROVE  ScriptInv(p)'
<1>1. /\ script \in [Pods -> Scripts] /\ world \in [Files -> Contents] /\ stage \in Stages
      /\ StageInv /\ Working(p, script[p].todo, script[p].file) /\ ~stage.applied
  BY DEF IInv, Types, TypeOK, Stages, ScriptInv, MarkNew, At
<1>2. PICK f \in Files :
        /\ script[p].file = {f} /\ (world[f] = Absent \/ f \in dirty)
        /\ stage.original[f] = Absent
        /\ stage' = [stage EXCEPT !.exists = TRUE, !.new = @ \cup {f}]
        /\ script' = [script EXCEPT ![p].pc = "place"]
        /\ UNCHANGED <<world, asked, dirty>>
  BY DEF MarkNew, Goto, IInv, ScriptInv, At
<1>3. Confirmed(p)'
  BY <1>1, <1>2, ConfirmedKept DEF Working, Script, MarkNew, Finalize, At
<1>4. /\ script'[p].todo = script[p].todo /\ script'[p].file = {f} /\ script'[p].pc = "place"
  BY <1>1, <1>2 DEF Scripts
<1>5. /\ stage'.exists /\ stage'.new = stage.new \cup {f}
      /\ stage'.applied = stage.applied /\ stage'.committed = stage.committed
      /\ stage'.journal = stage.journal /\ stage'.incoming = stage.incoming
      /\ stage'.original = stage.original
  BY <1>1, <1>2 DEF Stages
<1>6. Working(p, script[p].todo, {f})'
  BY <1>1, <1>2, <1>3, <1>4, <1>5 DEF Working, Journalled
<1> QED BY <1>1, <1>2, <1>4, <1>5, <1>6 DEF ScriptInv, At

LEMMA PlaceKeeps ==
  ASSUME IInv, "outlive" \notin Faults, NEW p \in Pods, Place(p)
  PROVE  ScriptInv(p)'
<1>1. /\ script \in [Pods -> Scripts] /\ world \in [Files -> Contents] /\ stage \in Stages
      /\ StageInv /\ Working(p, script[p].todo, script[p].file) /\ ~stage.applied
  BY DEF IInv, Types, TypeOK, Stages, ScriptInv, Place, At
<1>2. PICK f \in Files :
        /\ script[p].file = {f} /\ (world[f] = Absent \/ f \in dirty)
        /\ stage.original[f] # Absent \/ f \in stage.new
  BY DEF Place, IInv, ScriptInv, At
<1>3. /\ IF stage.incoming[f] # Absent
            THEN /\ world' = [world EXCEPT ![f] = stage.incoming[f]]
                 /\ stage' = [stage EXCEPT !.incoming[f] = Absent]
            ELSE UNCHANGED <<world, stage>>
      /\ script' = [script EXCEPT ![p].pc = "journal"]
      /\ UNCHANGED <<asked, dirty>>
  BY <1>2 DEF Place, Goto
<1>4. Confirmed(p)'
  BY <1>1, <1>3, ConfirmedKept DEF Working, Script, Place, Finalize, At
<1>5. /\ script'[p].todo = script[p].todo /\ script'[p].pc = "journal"
  BY <1>1, <1>3 DEF Scripts
<1>6. /\ stage'.exists = stage.exists /\ stage'.new = stage.new
      /\ stage'.applied = stage.applied /\ stage'.committed = stage.committed
      /\ stage'.journal = stage.journal /\ stage'.original = stage.original
      /\ \A g \in Files \ {f} : world'[g] = world[g] /\ stage'.incoming[g] = stage.incoming[g]
  BY <1>1, <1>2, <1>3 DEF Stages
<1>7. /\ stage.journal \subseteq Files /\ script[p].todo \subseteq Files
      /\ Promise!Targets(asked[p]) \subseteq Files
  BY <1>1, OnlyTheLast, TargetFacts DEF Stages, Scripts, Place, At, Ended
<1>8. f \notin dirty => world'[f] = Promise!Wanted(asked[p], p, f)
  <2>1. stage.incoming[f] = Promise!Wanted(asked[p], p, f)
    BY <1>1, <1>2 DEF Working
  <2> QED BY <1>1, <1>2, <1>3, <2>1
<1>9. f \in stage.journal /\ f \notin script[p].todo
  BY <1>1, <1>2 DEF Working
<1>10. Working(p, script[p].todo, {})'
  BY <1>1, <1>2, <1>3, <1>4, <1>5, <1>6, <1>7, <1>8, <1>9 DEF Working, Journalled
<1> QED BY <1>1, <1>5, <1>6, <1>10 DEF ScriptInv, At

LEMMA ReplayKeeps ==
  ASSUME IInv, "outlive" \notin Faults, NEW p \in Pods, Replay(p)
  PROVE  ScriptInv(p)'
<1>1. /\ script \in [Pods -> Scripts] /\ world \in [Files -> Contents] /\ stage \in Stages
      /\ StageInv /\ ~stage.committed /\ script[p].todo \subseteq stage.journal
      /\ Undone(stage.journal \ script[p].todo)
  BY DEF IInv, Types, TypeOK, Stages, ScriptInv, Replay, At
<1>2. PICK f \in script[p].todo :
        /\ script' = [script EXCEPT ![p].todo = @ \ {f},
                         ![p].pc = IF script[p].todo = {f} THEN "remove" ELSE "replay"]
        /\ IF stage.original[f] # Absent
             THEN /\ world' = [world EXCEPT ![f] = stage.original[f]]
                  /\ stage' = [stage EXCEPT !.original[f] = Absent]
             ELSE /\ world' = IF f \in stage.new THEN [world EXCEPT ![f] = Absent] ELSE world
                  /\ UNCHANGED stage
        /\ dirty' = dirty
  BY DEF Replay
<1>3. f \in Files
  BY <1>1, <1>2 DEF Scripts
<1>4. /\ script'[p].todo = script[p].todo \ {f} /\ script'[p].file = script[p].file
      /\ script'[p].pc = IF script[p].todo = {f} THEN "remove" ELSE "replay"
  BY <1>1, <1>2 DEF Scripts
<1>5. /\ stage'.journal = stage.journal /\ stage'.new = stage.new
      /\ stage'.committed = stage.committed /\ stage'.original[f] = Absent
      /\ f \in stage.new => world'[f] = Absent
      /\ \A g \in Files \ {f} : world'[g] = world[g] /\ stage'.original[g] = stage.original[g]
  BY <1>1, <1>2, <1>3 DEF Stages, StageInv, Journalled
<1>6. Undone(stage.journal \ (script[p].todo \ {f}))'
  BY <1>1, <1>2, <1>4, <1>5 DEF Undone, Stages
<1> QED BY <1>1, <1>4, <1>5, <1>6 DEF ScriptInv, At

\* Nothing a script relies on concerns one that has ended, or begins to recover.
LEMMA EndedKeeps ==
  ASSUME NEW p \in Pods, script'[p].pc \in {"idle", "recover", "done", "failed"}
  PROVE  ScriptInv(p)'
BY DEF ScriptInv, At

\* The marker of a commit is written when all is in place.
LEMMA ApplyWorks ==
  ASSUME IInv, "outlive" \notin Faults, NEW p \in Pods, Apply(p)
  PROVE  Applied(p)'
<1>1. stage \in Stages /\ Working(p, {}, {})
  BY DEF IInv, Types, TypeOK, Stages, ScriptInv, Apply, At
<1>2. /\ stage'.applied /\ stage'.exists = stage.exists /\ stage'.new = stage.new
      /\ stage'.committed = stage.committed /\ stage'.journal = stage.journal
      /\ stage'.original = stage.original /\ stage'.incoming = stage.incoming
      /\ UNCHANGED <<world, dirty, asked>>
  BY <1>1 DEF Apply, Stages
<1>3. Confirmed(p)'
  BY <1>1, <1>2, ConfirmedKept DEF Working, Script, Apply, Finalize, At
<1> QED BY <1>1, <1>2, <1>3 DEF Working, Journalled, Applied

LEMMA ScriptKeeps ==
  ASSUME IInv, "outlive" \notin Faults, NEW p \in Pods, Script(p)
  PROVE  \A q \in Pods : ScriptInv(q)'
<1>1. /\ script \in [Pods -> Scripts] /\ stage \in Stages /\ ScriptInv(p)
  BY DEF IInv, Types, TypeOK, Stages
<1>2. ASSUME NEW q \in Pods, q # p PROVE ScriptInv(q)'
  <2>1. script'[q].pc \in {"idle", "done", "failed"}
    BY <1>2, ScriptActs, OnlyTheLast DEF Ended
  <2> QED BY <2>1 DEF ScriptInv, At
<1>3. ScriptInv(p)'
  <2>1. CASE Recover(p)
    BY <1>1, <2>1 DEF Recover, ScriptInv, At, Undone, Scripts
  <2>2. CASE Remove(p)
    <3>1. script[p].then \in {"mkdir", "done", "failed", "sync", "lost"}
      BY <1>1 DEF Scripts, Thens
    <3>2. script'[p].pc = script[p].then /\ script'[p].file = {} /\ stage' = NoStage
      BY <1>1, <2>2 DEF Remove, Removed, Exit, NoScript
    <3> QED BY <3>1, <3>2 DEF ScriptInv, At, Settled
  <2>3. CASE MakeStage(p) \/ Untrap(p)
    BY <1>1, <2>3 DEF MakeStage, Untrap, Exit, ScriptInv, At, NoScript
  <2>4. CASE Apply(p)
    <3>1. script'[p].pc = "sync" /\ script'[p].file = script[p].file
      BY <1>1, <2>4 DEF Apply, Goto, Scripts
    <3> QED BY <2>4, <3>1, ApplyWorks DEF ScriptInv, At, Settled
  <2>5. CASE Finalize(p)
    BY <1>1, <2>5 DEF Finalize, Exit, ScriptInv, At, NoScript, Scripts, Stages
  <2>6. CASE Fail(p) \/ Signal(p) \/ Lost(p) \/ Kill(p)
    <3>1. script'[p].pc \in {"recover", "failed"}
      BY <1>1, <2>6 DEF Fail, Signal, Lost, Kill, Exit, NoScript
    <3> QED BY <3>1, EndedKeeps
  <2> QED BY <2>1, <2>2, <2>3, <2>4, <2>5, <2>6, CheckKeeps, JournalKeeps, AsideKeeps, MarkNewKeeps,
             PlaceKeeps, ReplayKeeps DEF Script
<1> QED BY <1>2, <1>3

\* A script's step keeps what its request waits for.
LEMMA ScriptRequest ==
  ASSUME IInv, "outlive" \notin Faults, NEW p \in Pods, Script(p)
  PROVE  RequestInv'
<1>1. /\ script \in [Pods -> Scripts] /\ stage \in Stages /\ RequestInv /\ ScriptInv(p)
      /\ (~stage.exists => stage = NoStage)
  BY DEF IInv, Types, TypeOK, Stages
<1>2. p = Number /\ Number' = Number /\ UNCHANGED <<request, asked>>
  BY ScriptActs, OnlyTheLast, ScriptTypes DEF Number
<1> USE <1>1, <1>2 DEF RequestInv, At, Exit, Goto, NoRequest
<1>3. CASE Recover(p)
  BY <1>3 DEF Recover, Scripts
<1>4. CASE Replay(p)
  <2>1. /\ script'[p].then = script[p].then /\ script'[p].pc \in {"remove", "replay"}
        /\ script[p].pc = "replay"
    BY <1>4 DEF Replay, Scripts
  <2> QED BY <2>1
<1>5. CASE Remove(p)
  <2>1. /\ script'[p].pc = script[p].then /\ script[p].pc = "remove" /\ stage' = NoStage
        /\ world' = world /\ dirty' = dirty
    BY <1>5 DEF Remove, Removed, NoScript
  <2>2. Placed(p) => Placed(p)'
    BY <2>1 DEF Placed
  <2>3. ~stage'.exists
    BY <2>1 DEF NoStage
  <2> QED BY <2>1, <2>2, <2>3 DEF Fresh, Settled
<1>6. CASE MakeStage(p)
  <2>1. \/ script'[p].pc = "failed"
        \/ /\ script'[p].pc = "done" /\ stage' = [NoStage EXCEPT !.exists = TRUE]
    BY <1>6 DEF MakeStage, NoScript
  <2>2. script[p].pc = "mkdir"
    BY <1>6 DEF MakeStage
  <2> QED BY <2>1, <2>2 DEF Fresh, Journalled, NoStage, NoFiles
<1>7. CASE Check(p)
  <2>1. script'[p].pc \in {"journal", "failed"} /\ script[p].pc = "check"
    BY <1>7 DEF Check, NoScript, Scripts
  <2> QED BY <2>1
<1>8. CASE Journal(p)
  <2>1. script'[p].pc \in {"aside", "new"} /\ script[p].pc = "journal"
    BY <1>8 DEF Journal, Scripts
  <2> QED BY <2>1
<1>9. CASE Aside(p) \/ MarkNew(p) \/ Place(p)
  <2>1. /\ script[p].pc \in {"aside", "new", "place"}
        /\ script' \in {[script EXCEPT ![p].pc = pc] : pc \in {"place", "journal"}}
    BY <1>9 DEF Aside, MarkNew, Place
  <2>2. script'[p].pc \in {"place", "journal"}
    BY <2>1 DEF Scripts
  <2> QED BY <2>1, <2>2
<1>10. CASE Apply(p)
  <2>1. script'[p].pc = "sync" /\ script[p].pc = "journal"
    BY <1>10 DEF Apply, Scripts
  <2> QED BY <2>1
<1>11. CASE Finalize(p)
  <2>1. script[p].pc = "finalize" /\ UNCHANGED <<world, dirty>>
    BY <1>11 DEF Finalize
  <2>2. \/ script'[p].pc = "remove" /\ script'[p].then = "done"
        \/ script'[p].pc = "failed"
    BY <1>11 DEF Finalize, Scripts, NoScript
  <2>3. stage.applied => Placed(p)'
    BY <2>1, OnlyTheLast, TargetFacts DEF ScriptInv, Settled, Applied, Working, Placed, Ended, NoStage
  <2>4. ~stage.applied => script'[p].pc = "failed"
    BY <1>11 DEF Finalize, NoScript
  <2> QED BY <2>1, <2>2, <2>3, <2>4
<1>12. CASE Untrap(p)
  <2>1. script'[p].pc = "done" /\ script[p].pc = "sync" /\ UNCHANGED <<world, stage, dirty>>
    BY <1>12 DEF Untrap, NoScript
  <2>2. Recovered' = Recovered
    BY <2>1 DEF Recovered
  <2>3. Settled(p)'
    BY <2>1, <2>2 DEF ScriptInv, Settled, Applied, Working, Journalled, Confirmed
  <2> QED BY <2>1, <2>3
<1>13. CASE Fail(p) \/ Signal(p)
  <2>1. /\ script'[p].pc = "recover" /\ script'[p].then \in {"failed", "sync", "lost"}
        /\ script[p].pc \in {"journal", "aside", "new", "place", "sync"}
    BY <1>13 DEF Fail, Signal, Trapping, NoScript
  <2> QED BY <2>1
<1>14. CASE Lost(p)
  <2>1. script'[p].pc = "recover" /\ script'[p].then = "failed" /\ script[p].pc = "lost"
    BY <1>14 DEF Lost, NoScript
  <2> QED BY <2>1
<1>15. CASE Kill(p)
  <2>1. script'[p].pc = "failed" /\ ~Ended(p)
    BY <1>15 DEF Kill, NoScript
  <2> QED BY <2>1 DEF Ended
<1> QED BY <1>3, <1>4, <1>5, <1>6, <1>7, <1>8, <1>9, <1>10, <1>11, <1>12, <1>13, <1>14, <1>15
       DEF Script

LEMMA ScriptStep ==
  ASSUME IInv, "outlive" \notin Faults, NEW p \in Pods, Script(p)
  PROVE  IInv'
<1>1. /\ stage' \in Stages /\ (~stage.exists => stage = NoStage)'
      /\ world' \in [Files -> Contents] /\ script' \in [Pods -> Scripts]
      /\ dirty' \subseteq Saves /\ finished' \subseteq Pods
      /\ UNCHANGED <<request, running, starts, asked>>
  BY ScriptTypes
<1>2. \A q \in Pods : script'[q].todo \subseteq Files /\ script'[q].file \subseteq Files
  BY <1>1 DEF Scripts
<1>3. Types'
  BY <1>1, <1>2 DEF IInv, Types, TypeOK, Stages, Number
<1> QED BY <1>3, ScriptStage, ScriptLast, ScriptKeeps, ScriptRequest DEF IInv

-----------------------------------------------------------------------------
(* The steps of the request and of the game server                         *)

LEMMA BeginKeeps ==
  ASSUME IInv, "outlive" \notin Faults, Begin
  PROVE  IInv'
<1>1. /\ Types /\ asked \in Seq(Requests) /\ Number \in 0..MaxRestores /\ MaxRestores \in Nat
      /\ Number < MaxRestores /\ \A p \in Pods : Ended(p)
      /\ UNCHANGED <<world, stage, script, running, starts, dirty, finished>>
      /\ request' = "prepare"
  BY Bounds DEF IInv, Types, TypeOK, Begin
<1>2. asked' \in Seq(Requests) /\ Number' = Number + 1
  BY <1>1 DEF Begin, Number
<1>3. Number' \in Pods /\ Number' \in 0..MaxRestores
  BY <1>1, <1>2 DEF Pods
<1>4. Types'
  BY <1>1, <1>2, <1>3 DEF Types, TypeOK, NoRequest
<1>5. StageInv'
  BY <1>1 DEF IInv, StageInv, Journalled
<1>6. LastOnly' /\ script'[Number'] = NoScript
  <2>1. \A p \in Pods : p \in Nat /\ (p > Number => script[p] = NoScript)
    BY Bounds DEF IInv, LastOnly
  <2>2. \A p \in Pods : Ended(p)' /\ script'[p] = script[p]
    BY <1>1 DEF Ended
  <2>3. \A p \in Pods : p > Number' => p > Number
    BY <1>1, <1>2, <2>1
  <2>4. Number' > Number
    BY <1>1, <1>2
  <2> QED BY <1>3, <2>1, <2>2, <2>3, <2>4 DEF LastOnly
<1>7. \A p \in Pods : ScriptInv(p)'
  BY <1>1, EndedKeeps DEF Ended
<1>8. RequestInv'
  BY <1>1, <1>6 DEF RequestInv, NoScript
<1> QED BY <1>4, <1>5, <1>6, <1>7, <1>8 DEF IInv

\* The state of the request's script, and of the others, when it is not at work.
LEMMA AtRest ==
  ASSUME IInv, request # NoRequest, Ended(Number)
  PROVE  Number \in Pods /\ \A p \in Pods : Ended(p)
BY DEF IInv, Types, LastOnly

LEMMA ExecKeeps ==
  ASSUME IInv, Prepare \/ Commit \/ Finish
  PROVE  IInv'
<1>0. PICK n : n = Number
  OBVIOUS
<1>1. /\ request \in {"prepare", "commit", "finalize"} /\ Ended(n)
      /\ UNCHANGED <<world, stage, running, starts, asked, dirty, finished>>
  BY <1>0 DEF Prepare, Commit, Finish, Exec, At, Ended
<1>2. n \in Pods /\ \A p \in Pods : Ended(p)
  BY <1>0, <1>1, AtRest DEF NoRequest
<1>3. Number' = Number /\ RequestInv /\ Types /\ script \in [Pods -> Scripts]
  BY <1>1 DEF Number, IInv, Types
<1>4. PICK s \in Scripts :
        /\ script' = [script EXCEPT ![n] = s]
        /\ \/ /\ request = "prepare" /\ request' = "prepare"
              /\ s.pc = "recover" /\ s.then = "mkdir"
           \/ /\ request = "commit" /\ request' = "commit"
              /\ script[n].pc = "idle" /\ s.pc = "check"
           \/ /\ request = "finalize" /\ request' = "finalize"
              /\ script[n].pc = "idle" /\ s.pc = "finalize"
           \/ /\ request = "prepare" /\ request' = "copy" /\ script[n].pc = "done" /\ s.pc = "idle"
           \/ /\ request = "commit" /\ request' = "confirm" /\ script[n].pc = "done" /\ s.pc = "idle"
           \/ /\ request = "finalize" /\ request' = NoRequest /\ s.pc = "idle"
  <2> DEFINE made(pc, then) == [NoScript EXCEPT !.pc = pc, !.then = then]
  <2>1. /\ NoScript \in Scripts /\ NoScript.pc = "idle"
        /\ \A pc \in Steps, then \in {"mkdir", "done", "failed"} :
             made(pc, then) \in Scripts /\ made(pc, then).pc = pc /\ made(pc, then).then = then
    BY DEF Scripts, NoScript, Steps, Thens
  <2>2. {"recover", "check", "finalize"} \subseteq Steps
    BY DEF Steps
  <2>3. ASSUME NEW mode, NEW pc, NEW then, NEW next, Exec(mode, pc, then, next)
        PROVE  /\ request = mode
               /\ \/ /\ script[n].pc = "idle" /\ request' = request
                    /\ script' = [script EXCEPT ![n] = made(pc, then)]
                  \/ /\ script[n].pc = "done" /\ request' = next
                    /\ script' = [script EXCEPT ![n] = NoScript]
    BY <1>0, <2>3 DEF Exec, At, made
  <2> HIDE DEF made
  <2>4. CASE Prepare
    BY <2>1, <2>2, <2>3, <2>4 DEF Prepare
  <2>5. CASE Commit
    BY <2>1, <2>2, <2>3, <2>5 DEF Commit
  <2>6. CASE Finish
    BY <2>1, <2>2, <2>3, <2>6 DEF Finish
  <2> QED BY <2>4, <2>5, <2>6
<1>5. /\ script' \in [Pods -> Scripts] /\ script'[n] = s
      /\ \A q \in Pods \ {n} : script'[q] = script[q]
  BY <1>2, <1>3, <1>4
<1>6. Types'
  <2>1. \A q \in Pods : script'[q].todo \subseteq Files /\ script'[q].file \subseteq Files
    BY <1>5 DEF Scripts
  <2>2. request' \in {NoRequest, "prepare", "copy", "commit", "confirm", "finalize"}
    BY <1>4
  <2> QED BY <1>0, <1>1, <1>2, <1>3, <1>5, <2>1, <2>2 DEF Types, TypeOK
<1>7. StageInv'
  BY <1>1 DEF IInv, StageInv, Journalled
<1>8. LastOnly'
  <2>1. ASSUME NEW q \in Pods, q # n
        PROVE  Ended(q)' /\ (q > Number' => script'[q] = NoScript)
    BY <1>2, <1>3, <1>5, <2>1 DEF IInv, LastOnly, Ended
  <2>2. ~(n > Number')
    BY <1>0, <1>2, <1>3, Bounds
  <2> QED BY <1>0, <1>3, <2>1, <2>2 DEF LastOnly
<1>9. (Fresh => Fresh') /\ (Settled(n) => Settled(n)')
  <2>1. Recovered' = Recovered
    BY <1>1 DEF Recovered
  <2> QED BY <1>1, <2>1 DEF Fresh, Settled, Applied, Working, Journalled, Confirmed
<1>10. /\ request = "commit" /\ script[n].pc = "idle" => Fresh'
       /\ request = "prepare" /\ script[n].pc = "done" => Fresh'
       /\ request = "commit" /\ script[n].pc = "done" => Settled(n)'
       /\ request = "finalize" /\ script[n].pc = "idle" => Settled(n)'
  <2>1. /\ request = "commit" /\ script[n].pc = "idle" => Fresh
        /\ request = "prepare" /\ script[n].pc = "done" => Fresh
        /\ request = "commit" /\ script[n].pc = "done" => Settled(n)
        /\ request = "finalize" /\ script[n].pc = "idle" => Settled(n)
    BY <1>0, <1>3 DEF RequestInv
  <2> QED BY <1>9, <2>1
<1>11. \A p \in Pods : ScriptInv(p)'
  <2>1. ASSUME NEW p \in Pods, p # n PROVE ScriptInv(p)'
    BY <1>2, <1>5, <2>1, EndedKeeps DEF Ended
  <2>2. ScriptInv(n)'
    <3>1. s.pc \in {"idle", "recover"} => ScriptInv(n)'
      BY <1>2, <1>5, EndedKeeps
    <3>2. s.pc = "check" /\ Fresh' => ScriptInv(n)'
      BY <1>5 DEF ScriptInv, At
    <3>3. s.pc = "finalize" /\ Settled(n)' => ScriptInv(n)'
      BY <1>5 DEF ScriptInv, At
    <3>4. /\ s.pc \in {"idle", "recover", "check", "finalize"}
          /\ s.pc = "check" => request = "commit" /\ script[n].pc = "idle"
          /\ s.pc = "finalize" => request = "finalize" /\ script[n].pc = "idle"
      BY <1>4
    <3>5. s.pc = "check" => Fresh'
      BY <1>10, <3>4
    <3>6. s.pc = "finalize" => Settled(n)'
      BY <1>10, <3>4
    <3> QED BY <3>1, <3>2, <3>3, <3>4, <3>5, <3>6
  <2> QED BY <2>1, <2>2
<1>12. RequestInv'
  BY <1>0, <1>3, <1>4, <1>5, <1>10 DEF RequestInv, NoRequest
<1> QED BY <1>6, <1>7, <1>8, <1>11, <1>12 DEF IInv

LEMMA CopyKeeps ==
  ASSUME IInv, Copy
  PROVE  IInv'
<1>1. /\ request = "copy" /\ stage.exists /\ script[Number].pc = "idle" /\ Fresh /\ Types
  BY DEF IInv, Copy, RequestInv
<1>2. Number \in Pods /\ \A p \in Pods : Ended(p)
  BY <1>1, AtRest DEF NoRequest, Ended
<1>3. /\ stage' = [stage EXCEPT !.incoming = Incoming(Number)] /\ request' = "commit"
      /\ UNCHANGED <<world, script, running, starts, asked, dirty, finished>>
      /\ Number' = Number
  BY DEF Copy, Number
<1>4. Incoming(Number) \in [Files -> Contents]
  BY <1>1, <1>2, ContentsFacts, Bounds DEF Types, Number, Pods
<1>5. Types'
  BY <1>1, <1>2, <1>3, <1>4 DEF Types, TypeOK
<1>6. stage'.journal = stage.journal /\ stage'.new = stage.new /\ stage'.original = stage.original
      /\ stage'.applied = stage.applied /\ stage'.committed = stage.committed
  BY <1>1, <1>3 DEF Types, TypeOK
<1>7. StageInv' /\ LastOnly'
  BY <1>3, <1>6 DEF IInv, StageInv, Journalled, LastOnly, Ended
<1>8. \A p \in Pods : ScriptInv(p)'
  BY <1>2, <1>3, EndedKeeps DEF Ended
<1>9. RequestInv'
  BY <1>1, <1>3, <1>6 DEF RequestInv, Fresh, Journalled, NoRequest
<1> QED BY <1>5, <1>7, <1>8, <1>9 DEF IInv

\* What is relied on depends on the volume, the scripts and the requests.
LEMMA RestKeeps ==
  ASSUME IInv, UNCHANGED <<world, stage, script, asked, dirty, finished>>
  PROVE  /\ StageInv' /\ LastOnly' /\ \A p \in Pods : ScriptInv(p)'
         /\ \A p \in Pods : Settled(p) => Settled(p)'
<1>1. Recovered' = Recovered /\ Number' = Number
  BY DEF Recovered, Number
<1>2. StageInv' /\ LastOnly'
  BY <1>1 DEF IInv, StageInv, Journalled, LastOnly, Ended
<1>3. ASSUME NEW p \in Pods, NEW todo, NEW pending, Working(p, todo, pending)
      PROVE  Working(p, todo, pending)'
  BY <1>1, <1>3 DEF Working, Journalled, Confirmed
<1>4. ASSUME NEW p \in Pods PROVE ScriptInv(p)'
  <2>1. ScriptInv(p)
    BY <1>4 DEF IInv
  <2> QED BY <1>3, <1>4, <2>1 DEF ScriptInv, At, Undone, Fresh, Journalled, Settled, Applied
<1> QED BY <1>2, <1>3, <1>4 DEF Settled, Applied

LEMMA ConfirmKeeps ==
  ASSUME IInv, Confirm \/ Abandon
  PROVE  IInv'
<1>1. /\ UNCHANGED <<world, stage, script, running, starts, asked, dirty, finished>>
      /\ Number' = Number
      /\ \/ request' = NoRequest
         \/ request = "confirm" /\ request' = "finalize"
  BY DEF Confirm, Abandon, Number
<1>2. Types'
  BY <1>1 DEF IInv, Types, TypeOK, NoRequest
<1>3. /\ StageInv' /\ LastOnly' /\ \A p \in Pods : ScriptInv(p)'
      /\ \A p \in Pods : Settled(p) => Settled(p)'
  BY <1>1, RestKeeps
<1>4. RequestInv'
  <2>1. CASE request' = NoRequest
    BY <2>1 DEF RequestInv, NoRequest
  <2>2. CASE request = "confirm" /\ request' = "finalize"
    <3>1. PICK n : n = Number
      OBVIOUS
    <3>2. script[n].pc = "idle" /\ Settled(n) /\ n \in Pods
      BY <2>2, <3>1 DEF IInv, Types, RequestInv, NoRequest
    <3>3. script'[n].pc = "idle" /\ Settled(n)' /\ Number' = n
      BY <1>1, <1>3, <3>1, <3>2
    <3> QED BY <2>2, <3>3 DEF RequestInv
  <2> QED BY <1>1, <2>1, <2>2
<1> QED BY <1>2, <1>3, <1>4 DEF IInv

LEMMA StartStopKeeps ==
  ASSUME IInv, Start \/ Stop
  PROVE  IInv'
<1>1. /\ UNCHANGED <<world, stage, script, request, asked, dirty, finished>>
      /\ Number' = Number /\ running' \in BOOLEAN /\ starts' \in 0..MaxStarts
  <2>1. starts \in 0..MaxStarts /\ MaxStarts \in Nat
    BY Bounds DEF IInv, Types, TypeOK
  <2>2. CASE Start
    BY <2>1, <2>2 DEF Start, Number
  <2>3. CASE Stop
    BY <2>1, <2>3 DEF Stop, Number
  <2> QED BY <2>2, <2>3
<1>2. Types'
  BY <1>1 DEF IInv, Types, TypeOK
<1>3. /\ StageInv' /\ LastOnly' /\ \A p \in Pods : ScriptInv(p)'
      /\ \A p \in Pods : Settled(p) => Settled(p)'
  BY <1>1, RestKeeps
<1>4. RequestInv'
  <2>1. PICK n : n = Number
    OBVIOUS
  <2>2. (Fresh => Fresh') /\ (Placed(n) => Placed(n)') /\ (n \in Pods /\ Settled(n) => Settled(n)')
    BY <1>1, <1>3 DEF Fresh, Journalled, Placed
  <2>3. RequestInv /\ (request # NoRequest => n \in Pods)
    BY <2>1 DEF IInv, Types
  <2> QED BY <1>1, <2>1, <2>2, <2>3 DEF RequestInv, NoRequest
<1> QED BY <1>2, <1>3, <1>4 DEF IInv

\* What a game server writes changes neither what is relied on of the other
\* files nor what a recovery makes of them.
LEMMA SaveKeeps ==
  ASSUME IInv, NEW f \in Saves, Save(f)
  PROVE  /\ IInv' /\ \A g \in Files \ dirty' : Recovered'[g] = Recovered[g]
<1>1. /\ world' = [world EXCEPT ![f] = Promise!Played] /\ dirty' = dirty \cup {f}
      /\ UNCHANGED <<stage, script, request, running, starts, asked, finished>>
      /\ Number' = Number
  BY DEF Save, Number
<1>2. /\ world \in [Files -> Contents] /\ Saves \subseteq Files
      /\ dirty \subseteq Saves
  BY DEF IInv, Types, TypeOK, Files, Promise!Files
<1>3. /\ world' \in [Files -> Contents] /\ world'[f] # Absent
      /\ \A g \in Files \ {f} : world'[g] = world[g]
  BY <1>1, <1>2, ContentsFacts
<1>4. Types'
  BY <1>1, <1>2, <1>3 DEF IInv, Types, TypeOK
<1>5. StageInv' /\ LastOnly'
  BY <1>1 DEF IInv, StageInv, Journalled, LastOnly, Ended
<1>6. \A g \in Files \ dirty' : Recovered'[g] = Recovered[g]
  <2>1. ASSUME NEW g \in Files, g # f
        PROVE  Saved(world', stage', g) = Saved(world, stage, g)
    BY <1>1, <1>3, <2>1 DEF Saved
  <2>2. \A g \in Files : Recovered[g] = Saved(world, stage, g)
    BY <1>2, RecoveredSaved
  <2>3. \A g \in Files : Recovered'[g] = Saved(world', stage', g)
    BY <1>3, RecoveredSavedNext
  <2> QED BY <1>1, <2>1, <2>2, <2>3
<1>7. ASSUME NEW n \in Pods, n \in 1..Len(asked)
      PROVE  /\ \A todo, pending : Working(n, todo, pending) => Working(n, todo, pending)'
             /\ Placed(n) => Placed(n)'
  <2>1. Promise!Targets(asked[n]) \subseteq Files
    BY <1>7, TargetFacts DEF IInv, Types
  <2>2. Confirmed(n) => Confirmed(n)'
    BY <1>1, <1>2, <1>6 DEF Confirmed
  <2>3. Placed(n) => Placed(n)'
    BY <1>1, <1>3, <2>1 DEF Placed
  <2>4. stage.journal \subseteq Files
    BY DEF IInv, Types, TypeOK
  <2>5. ASSUME NEW todo, NEW pending, Working(n, todo, pending)
        PROVE  Working(n, todo, pending)'
    BY <1>1, <1>3, <2>1, <2>2, <2>4, <2>5 DEF Working, Journalled
  <2> QED BY <2>3, <2>5
<1>8. Fresh => Fresh'
  BY <1>1 DEF Fresh, Journalled
<1>9. ASSUME NEW F, F \subseteq Files, Undone(F) PROVE Undone(F)'
  BY <1>1, <1>3, <1>9 DEF Undone
<1>10. ASSUME NEW p \in Pods PROVE ScriptInv(p)'
  <2>1. CASE script'[p].pc \in {"idle", "recover", "done", "failed"}
    BY <2>1, EndedKeeps
  <2>2. CASE script'[p].pc \notin {"idle", "recover", "done", "failed"}
    <3>1. ~Ended(p) /\ ScriptInv(p) /\ script'[p] = script[p]
      BY <1>1, <2>2 DEF Ended, IInv
    <3>2. p \in 1..Len(asked)
      BY <3>1, OnlyTheLast, Bounds DEF IInv, Types, TypeOK, Number, Pods
    <3>3. script[p].todo \subseteq Files /\ script[p].file \subseteq Files /\ stage.journal \subseteq Files
      BY DEF IInv, Types, TypeOK
    <3>4. \A todo, pending : Working(p, todo, pending) => Working(p, todo, pending)'
      BY <1>7, <3>2
    <3>5. script[p].pc = "replay" => Undone(stage.journal \ script[p].todo)'
      <4>1. PICK F : F = stage.journal \ script[p].todo
        OBVIOUS
      <4>2. script[p].pc = "replay" => Undone(F)'
        BY <1>9, <3>1, <3>3, <4>1 DEF ScriptInv, At
      <4> QED BY <1>1, <4>1, <4>2
    <3>6. script[p].pc = "remove" => stage.committed \/ Undone(stage.journal)'
      <4>1. PICK F : F = stage.journal
        OBVIOUS
      <4>2. script[p].pc = "remove" => stage.committed \/ Undone(F)'
        BY <1>9, <3>1, <3>3, <4>1 DEF ScriptInv, At
      <4> QED BY <1>1, <4>1, <4>2
    <3> QED BY <1>1, <1>3, <1>8, <3>1, <3>3, <3>4, <3>5, <3>6 DEF ScriptInv, At, Settled, Applied
  <2> QED BY <2>1, <2>2
<1>11. RequestInv'
  <2>1. PICK n : n = Number
    OBVIOUS
  <2>2. n \in Pods => n \in 1..Len(asked)
    BY <2>1, Bounds DEF IInv, Types, TypeOK, Number, Pods
  <2>3. n \in Pods => (Placed(n) => Placed(n)') /\ (Settled(n) => Settled(n)')
    BY <1>1, <1>7, <2>2 DEF Settled, Applied
  <2>4. RequestInv /\ (request # NoRequest => n \in Pods)
    BY <2>1 DEF IInv, Types
  <2> QED BY <1>1, <1>8, <2>1, <2>3, <2>4 DEF RequestInv, NoRequest
<1> QED BY <1>4, <1>5, <1>6, <1>10, <1>11 DEF IInv

-----------------------------------------------------------------------------
(* The theorems                                                            *)

\* Nothing the code does leads out of the invariant.
LEMMA NextIInv == "outlive" \notin Faults /\ IInv /\ [Next]_vars => IInv'
<1> SUFFICES ASSUME "outlive" \notin Faults, IInv, [Next]_vars PROVE IInv'
  OBVIOUS
<1>1. CASE Restore
  BY <1>1, BeginKeeps, ExecKeeps, CopyKeeps, ConfirmKeeps DEF Restore
<1>2. CASE \E p \in Pods : Script(p)
  BY <1>2, ScriptStep
<1>3. CASE Start \/ Stop \/ \E f \in Saves : Save(f)
  BY <1>3, StartStopKeeps, SaveKeeps
<1>4. CASE UNCHANGED vars
  <2>1. UNCHANGED <<world, stage, script, request, running, starts, asked, dirty, finished>>
    BY <1>4 DEF vars
  <2>2. Types'
    BY <2>1 DEF IInv, Types, TypeOK, Number
  <2>3. RequestInv'
    BY <2>1 DEF IInv, RequestInv, Number, Fresh, Journalled, Placed, Settled, Applied, Working,
              Confirmed, Recovered
  <2> QED BY <2>1, <2>2, <2>3, RestKeeps DEF IInv
<1> QED BY <1>1, <1>2, <1>3, <1>4 DEF Next

\* The invariant of the journal, of the script and of its request holds of
\* every restore, wherever its script is killed, signalled or fails, torn
\* removals included, and whoever plays meanwhile.
THEOREM JournalInvariant ==
  ASSUME "outlive" \notin Faults PROVE Spec => []IInv
<1>1. IInv /\ [Next]_vars => IInv'
  BY NextIInv
<1>2. Init => IInv
  BY InitIInv
<1> QED BY <1>1, <1>2, PTL DEF Spec

\* Every variable of a restore, and the stage that does not exist, keep the
\* form the code gives them.
THEOREM TypeCorrect ==
  ASSUME "outlive" \notin Faults PROVE Spec => []TypeOK
<1>1. IInv => TypeOK
  BY DEF IInv, Types
<1>2. Spec => []IInv
  BY JournalInvariant
<1> QED BY <1>1, <1>2, PTL

\* handleRestore answers that a restore is done only when every target is in
\* place and no journal is left to undo it: also after a signal, whose trap
\* has all of it undone while the script goes on, and after torn removals.
THEOREM AnswersAreTrue ==
  ASSUME "outlive" \notin Faults PROVE Spec => AnswerIsTrue
<1> DEFINE True == /\ ~stage.exists
                   /\ \A f \in Promise!Targets(asked[Number]) \ dirty :
                        world[f] = Promise!Wanted(asked[Number], Number, f)
<1>1. IInv /\ Answer => True
  BY DEF IInv, RequestInv, Answer, At, Placed
<1>2. IInv /\ [Next]_vars => [Answer => True]_vars
  BY <1>1
<1>3. Spec => []IInv
  BY JournalInvariant
<1> QED BY <1>2, <1>3, PTL DEF Spec, AnswerIsTrue

-----------------------------------------------------------------------------
(* The restore keeps the promise of WorldPromise                           *)

Promised == <<Recovered, asked, dirty>>

LEMMA InitPromised == Init => Promise!Init
<1> SUFFICES ASSUME Init PROVE Promise!Init
  OBVIOUS
<1>1. Recovered = world
  BY DEF Init, Recovered, NoStage
<1> QED BY <1>1 DEF Init, Promise!Init, Files, Promise!Files, Absent, Promise!Absent

\* The marker replaces the world at once: until it is there a recovery would
\* give the old one, and from then on nothing but the new.
LEMMA FinalizePromised ==
  ASSUME IInv, "outlive" \notin Faults, NEW p \in Pods, Finalize(p)
  PROVE  Promise!Replace \/ UNCHANGED Promised
<1>1. CASE ~stage.applied
  BY <1>1 DEF Finalize, Promised, Recovered
<1>2. CASE stage.applied
  <2>1. /\ stage' = [stage EXCEPT !.committed = TRUE] /\ UNCHANGED <<world, asked, dirty>>
        /\ Working(p, {}, {}) /\ stage \in Stages /\ world \in [Files -> Contents]
    <3>1. Settled(p)
      BY DEF Finalize, IInv, ScriptInv, At
    <3>2. Working(p, {}, {})
      <4>1. CASE stage = NoStage
        BY <1>2, <4>1 DEF NoStage
      <4> QED BY <3>1, <4>1 DEF Settled, Applied
    <3> QED BY <1>2, <3>2 DEF Finalize, IInv, Types, TypeOK, Stages
  <2>2. p \in 1..Len(asked) /\ asked[p] \in Requests
    BY OnlyTheLast, Bounds DEF Finalize, At, Ended, IInv, Types, TypeOK, Number, Pods
  <2>3. Promise!Targets(asked[p]) \subseteq Files /\ stage.journal \subseteq Promise!Targets(asked[p])
    BY <2>1, <2>2, TargetFacts DEF Working
  <2>4. \A f \in Files : Recovered'[f] = world[f]
    BY <2>1, RecoveredSavedNext DEF Saved, Stages
  <2>5. \A f \in Files \ stage.journal : Recovered[f] = world[f]
    BY <2>1, RecoveredSaved DEF Saved
  <2>6. \A f \in Promise!Targets(asked[p]) \ dirty : world[f] = Promise!Wanted(asked[p], p, f)
    BY <2>1, <2>2, <2>3, TargetFacts DEF Working
  <2>7. \A f \in Files \ dirty :
          Recovered'[f] = IF f \in Promise!Targets(asked[p]) THEN Promise!Wanted(asked[p], p, f)
                          ELSE Recovered[f]
    BY <2>3, <2>4, <2>5, <2>6
  <2>8. Confirmed(p)
    BY <2>1 DEF Working
  <2> QED BY <2>1, <2>2, <2>7, <2>8
          DEF Promise!Replace, Confirmed, Files, Promise!Files, Absent, Promise!Absent
<1> QED BY <1>1, <1>2

LEMMA NextPromised ==
  ASSUME IInv, Faults = {}, [Next]_vars
  PROVE  [Promise!Next]_Promised
<1>1. ASSUME NEW p \in Pods, Script(p) PROVE [Promise!Next]_Promised
  <2>1. CASE Finalize(p)
    BY <2>1, FinalizePromised DEF Promise!Next
  <2>2. CASE ~Finalize(p)
    <3>1. /\ \A f \in Files \ dirty : Recovered'[f] = Recovered[f]
          /\ dirty' = dirty \/ (dirty' = {} /\ Recovered' = Recovered)
          /\ asked' = asked
      BY <1>1, <2>2, ScriptRecovers, ScriptTypes
    <3>2. dirty' = dirty => Promise!Play
      BY <3>1 DEF Promise!Play, Files
    <3>3. dirty' = {} /\ Recovered' = Recovered => Promise!Begin
      BY <3>1 DEF Promise!Begin
    <3> QED BY <3>1, <3>2, <3>3 DEF Promise!Next
  <2> QED BY <2>1, <2>2
<1>2. CASE Begin
  BY <1>2 DEF Begin, Recovered, Promise!Ask, Promise!Next
<1>3. CASE Prepare \/ Commit \/ Finish \/ Copy \/ Confirm \/ Abandon \/ Start \/ Stop \/ UNCHANGED vars
  <2>1. /\ UNCHANGED <<world, asked, dirty>>
        /\ \/ stage' = stage
           \/ stage' = [stage EXCEPT !.incoming = Incoming(Number)]
    BY <1>3 DEF Prepare, Commit, Finish, Exec, Copy, Confirm, Abandon, Start, Stop, vars
  <2>2. stage \in Stages
    BY DEF IInv, Types, TypeOK, Stages
  <2>3. Recovered' = Recovered
    BY <2>1, <2>2 DEF Recovered, Stages
  <2> QED BY <2>1, <2>3 DEF Promised
<1>4. ASSUME NEW f \in Saves, Save(f) PROVE [Promise!Next]_Promised
  <2>1. dirty \subseteq dirty' /\ asked' = asked /\ \A g \in Files \ dirty' : Recovered'[g] = Recovered[g]
    BY <1>4, SaveKeeps DEF Save
  <2> QED BY <2>1 DEF Promise!Play, Promise!Next, Files
<1> QED BY <1>1, <1>2, <1>3, <1>4 DEF Next, Restore

\* A restore replaces the world at once or leaves it as it is, and replaces
\* saves only when that was confirmed, wherever its scripts are killed,
\* signalled or fail and whoever plays meanwhile.  Left out are the kill of a
\* finished restore's removal between its marker and its journal, which undoes
\* it, and the script that outlives its request.
THEOREM RestoreKeepsPromise ==
  ASSUME Faults = {} PROVE Spec => KeepsPromise
<1>1. Init => Promise!Init
  BY InitPromised
<1>2. IInv /\ [Next]_vars => [Promise!Next]_Promised
  BY NextPromised
<1>3. Spec => []IInv
  BY JournalInvariant
<1> QED BY <1>1, <1>2, <1>3, PTL DEF Spec, KeepsPromise, Promise!Spec, Promised
=============================================================================
