------------------------- MODULE MCRestartLifecycle -------------------------
(* Bounds for TLC: two operations, so that a second restart can follow one  *)
(* that failed with its command still in flight; two runtimes, so that a  *)
(* marked one can be replaced by another.                                   *)
EXTENDS RestartLifecycle
=============================================================================
