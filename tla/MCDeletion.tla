----------------------------- MODULE MCDeletion -----------------------------
(* Bounds for TLC; a tick stands for five minutes.                          *)
EXTENDS Deletion
=============================================================================
