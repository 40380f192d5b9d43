--------------------------- MODULE RestartPromise ---------------------------
(***************************************************************************)
(* What one server's restart operation promises, without its machinery:    *)
(* an operation is requested when no other is open, its command is sent at *)
(* most once while it is open, and it ends exactly once (docs/reboots.md,  *)
(* "Execution and recovery").  RestartLifecycle implements it.             *)
(***************************************************************************)
EXTENDS Naturals

CONSTANT Ops   \* restart operation ids

VARIABLES
  outcome,  \* the event the history holds for an operation
  sent      \* orchestrator.Restart calls made for it

promise == <<outcome, sent>>

Init ==
  /\ outcome = [op \in Ops |-> "none"]
  /\ sent = [op \in Ops |-> 0]

Open(op) == outcome[op] = "requested"

Request(op) ==
  /\ outcome[op] = "none"
  /\ \A other \in Ops : ~Open(other)
  /\ outcome' = [outcome EXCEPT ![op] = "requested"]
  /\ UNCHANGED sent

Send(op) ==
  /\ Open(op) /\ sent[op] = 0
  /\ sent' = [sent EXCEPT ![op] = 1]
  /\ UNCHANGED outcome

End(op, result) ==
  /\ Open(op)
  /\ outcome' = [outcome EXCEPT ![op] = result]
  /\ UNCHANGED sent

Next ==
  \E op \in Ops :
    Request(op) \/ Send(op) \/ (\E result \in {"completed", "failed"} : End(op, result))

Spec == Init /\ [][Next]_promise
=============================================================================
