-------------------------- MODULE RepositoryPromise --------------------------
(***************************************************************************)
(* What a backup repository promises, with no files and no objects: a      *)
(* publication is there or not, never in part; what a client was told is   *)
(* published stays as it is until the client withdraws it.                 *)
(***************************************************************************)
CONSTANTS Ids, Publications, Nothing

VARIABLES
  shown,    \* what can be opened under each manifest id
  promised  \* what a client was told is published

vars == <<shown, promised>>

Init ==
  /\ shown = [id \in Ids |-> Nothing]
  /\ promised = [id \in Ids |-> Nothing]

\* What nobody was told of may appear, vanish or be replaced.
Change ==
  /\ shown' \in [Ids -> Publications \cup {Nothing}]
  /\ \A id \in Ids :
       promised[id] # Nothing => shown'[id] = shown[id]
  /\ UNCHANGED promised

\* One answer to a publication, or the list a recovery returns.
Answer(ids) ==
  /\ \A id \in ids : shown[id] # Nothing
  /\ promised' = [id \in Ids |-> IF id \in ids THEN shown[id] ELSE promised[id]]
  /\ UNCHANGED shown

Withdraw(id) ==
  /\ promised' = [promised EXCEPT ![id] = Nothing]
  /\ UNCHANGED shown

Next ==
  \/ Change
  \/ \E id \in Ids : Withdraw(id)
  \/ \E ids \in SUBSET Ids : Answer(ids)

Spec == Init /\ [][Next]_vars
=============================================================================
