-------------------------- MODULE OccurrencePromise --------------------------
(***************************************************************************)
(* What the restart scheduler promises, without its clock, its schedules   *)
(* and its scans: the fate of an occurrence is decided once.  It is passed *)
(* over, or it awaits a restart, with all those claimed for the same one;  *)
(* a restart ends once, and all that await it end as it does; a server has *)
(* one restart at a time; and only what is over may be forgotten           *)
(* (docs/reboots.md, "Execution and recovery").  RebootScheduler           *)
(* implements it.                                                          *)
(***************************************************************************)
EXTENDS Naturals

CONSTANTS Servers, Occurrences

VARIABLES
  fate,     \* what became of each occurrence, and by which restart
  pending,  \* the restart each server waits for, 0 for none
  restarts, \* how many were reserved
  present   \* the servers that were not deleted

promise == <<fate, pending, restarts, present>>

Is(result, op) == [is |-> result, by |-> op]

None      == Is("none", 0)
Forgotten == Is("forgotten", 0)
Over      == {Is("skipped", 0), Is("missed", 0), Forgotten}

Open(f) == f.is \in {"awaiting", "uncertain"}

Init ==
  /\ fate = [o \in Occurrences |-> None]
  /\ pending = [s \in Servers |-> 0]
  /\ restarts = 0 /\ present = Servers

\* An undecided occurrence may be decided; an open one waits; one that is
\* over may be forgotten.
Turns(was, decisions) ==
  IF was = None THEN {None} \cup decisions ELSE IF Open(was) THEN {was} ELSE {was, Forgotten}

\* Those that wait for a restart take its end, the others do as they may.
Settled(was, op, ends) == IF Open(was) /\ was.by = op THEN ends ELSE Turns(was, {})

\* Occurrences are skipped, or missed.
PassOver ==
  /\ UNCHANGED <<restarts, pending, present>>
  /\ \A o \in Occurrences : fate'[o] \in Turns(fate[o], Over)

Waits(s) == s \in present /\ pending[s] # 0

\* A restart is reserved: for some occurrences, or for the operator.
Claim(s) ==
  /\ s \in present /\ pending[s] = 0
  /\ restarts' = restarts + 1 /\ pending' = [pending EXCEPT ![s] = restarts']
  /\ \A o \in Occurrences :
       fate'[o] \in Turns(fate[o], Over \cup {Is("awaiting", restarts')})
  /\ UNCHANGED present

\* Nobody knows whether the command of a pending restart arrived.
Doubt(s) ==
  /\ Waits(s)
  /\ UNCHANGED <<restarts, pending, present>>
  /\ \A o \in Occurrences :
       fate'[o] \in Settled(fate[o], pending[s], {Is("uncertain", pending[s])})

End(s, result) ==
  /\ Waits(s) /\ pending' = [pending EXCEPT ![s] = 0]
  /\ \A o \in Occurrences :
       fate'[o] \in Settled(fate[o], pending[s], {Is(result, pending[s]), Forgotten})
  /\ UNCHANGED <<restarts, present>>

\* A server is deleted: what waits for its restart waits on.
Abandon(s) ==
  /\ s \in present /\ present' = present \ {s}
  /\ pending' = [pending EXCEPT ![s] = 0]
  /\ UNCHANGED <<fate, restarts>>

Next ==
  /\ \/ PassOver
     \/ \E s \in Servers :
          Claim(s) \/ Doubt(s) \/ End(s, "completed") \/ End(s, "failed") \/ Abandon(s)
  /\ fate' = [o \in Occurrences |-> fate'[o]]

Spec == Init /\ [][Next]_promise
=============================================================================
