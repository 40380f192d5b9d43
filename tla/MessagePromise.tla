--------------------------- MODULE MessagePromise ---------------------------
(***************************************************************************)
(* What the alert deliveries promise, without their store and their        *)
(* worker: a message is carried to its provider by one courier at a time,  *)
(* who fetched it while it waited; what the list shows of it is true, of   *)
(* one that is carried as well; and an end it shows is final               *)
(* (docs/integrations.md, "Delivery reference").  Deliveries implements    *)
(* it.                                                                     *)
(***************************************************************************)
EXTENDS Naturals

CONSTANT Messages

VARIABLES
  shown,   \* what the list of deliveries shows of each message
  taken,   \* how often its provider took it
  carried  \* the message under way to its provider, if any

promise == <<shown, taken, carried>>

Init ==
  /\ shown = [m \in Messages |-> "none"]
  /\ taken = [m \in Messages |-> 0]
  /\ carried = {}

\* Nothing shown of a message is false: it was taken n times, and may be
\* taken once more when it is on its way.
True(as, n, onItsWay) ==
  /\ as \in {"waiting", "failed"} => n = 0 /\ ~onItsWay
  /\ as = "sent" => n = 1 /\ ~onItsWay

\* What may become of a message but by being fetched.  "stopped" is failed
\* with the warning that it may have been sent.
Becomes(was) ==
  CASE was = "none"      -> {"none", "waiting"}
    [] was = "waiting"   -> {"waiting", "failed", "stopped", "uncertain", "none"}
    [] was = "sending"   -> {"sending", "waiting", "sent", "failed", "stopped",
                             "uncertain", "none"}
    [] was = "uncertain" -> {"uncertain"}
    [] OTHER             -> {was, "none"}

\* The list changes; the courier may be lost.
Update ==
  /\ carried' = carried \/ carried' = {}
  /\ shown' = [m \in Messages |-> shown'[m]]
  /\ \A m \in Messages :
       shown'[m] \in Becomes(shown[m]) /\ True(shown'[m], taken[m], m \in carried')
  /\ UNCHANGED taken

Fetch(m) ==
  /\ carried = {} /\ carried' = {m}
  /\ shown[m] = "waiting" /\ shown' = [shown EXCEPT ![m] = "sending"]
  /\ UNCHANGED taken

Take(m) ==
  /\ carried = {m} /\ carried' = {}
  /\ taken' = [taken EXCEPT ![m] = @ + 1]
  /\ UNCHANGED shown

Next == Update \/ \E m \in Messages : Fetch(m) \/ Take(m)

Spec == Init /\ [][Next]_promise
=============================================================================
