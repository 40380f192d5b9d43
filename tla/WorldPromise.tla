---------------------------- MODULE WorldPromise ----------------------------
(***************************************************************************)
(* What a restore promises of the world on a volume (docs/backups.md): a   *)
(* restore that was asked for replaces it at once or leaves it as it is,   *)
(* and saves are replaced only when that was confirmed.  A game server may *)
(* run meanwhile: then nothing is promised of the files it wrote.          *)
(***************************************************************************)
EXTENDS Naturals, Sequences

CONSTANTS
  Saves,     \* the save files of the world
  Settings,  \* its other files
  Requests   \* [files, overwrite]: the files a restore brings, and whether
             \* the replacement of saves was confirmed

Files == Saves \cup Settings

\* The content of a file: none, what was there first, what a game server
\* wrote, and what the n-th restore brought.
Absent == 0
Old == 1
Played == 2
Content(n) == 2 + n

\* A restore that brings a save replaces the whole world, one that does not
\* leaves the saves alone.
ReplacesWorld(r) == r.files \cap Saves # {}
Targets(r) == r.files \cup IF ReplacesWorld(r) THEN Saves ELSE {}
Wanted(r, n, f) == IF f \in r.files THEN Content(n) ELSE Absent

VARIABLES
  world,  \* the content of each file
  asked,  \* restores that were asked for, in order
  dirty   \* files that a game server wrote since the restore began

Init ==
  /\ world \in [Files -> {Absent, Old}]
  /\ asked = << >> /\ dirty = {}

Ask == \E r \in Requests : asked' = Append(asked, r) /\ UNCHANGED <<world, dirty>>

Begin == dirty' = {} /\ UNCHANGED <<world, asked>>

Play ==
  /\ dirty \subseteq dirty' /\ UNCHANGED asked
  /\ \A f \in Files \ dirty' : world'[f] = world[f]

Replace ==
  /\ \E n \in 1..Len(asked) :
       LET r == asked[n]
       IN /\ r.overwrite \/ \A f \in Saves \ dirty : world[f] = Absent
          /\ \A f \in Files \ dirty :
               world'[f] = IF f \in Targets(r) THEN Wanted(r, n, f) ELSE world[f]
  /\ UNCHANGED <<asked, dirty>>

Next == Ask \/ Begin \/ Play \/ Replace

Spec == Init /\ [][Next]_<<world, asked, dirty>>
=============================================================================
