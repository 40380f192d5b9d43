---------------------------- MODULE MCBackupRuns ----------------------------
(* Bounds for TLC: a schedule, the local backend and a remote one, and a     *)
(* retention that keeps the newest run and those of the last tick; a run by *)
(* hand without a schedule goes to the remote one.                          *)
EXTENDS BackupRuns
CONSTANTS s1, remote

Retain(c, d) == [count |-> c, days |-> d]
MCByHand == {[schedule |-> Nothing, backend |-> remote]}
MCRetentions == {Retain(1, 1)}
=============================================================================
