-------------------------- MODULE MCRestoreJournal --------------------------
(* Bounds for TLC: two saves and a settings file; a confirmed restore of a   *)
(* save and the settings, an unconfirmed one of both saves, one of settings. *)
EXTENDS RestoreJournal
CONSTANTS w1, w2, c1

Asks(files, overwrite) == [files |-> files, overwrite |-> overwrite]
MCRequests == {Asks({w1, c1}, TRUE), Asks({w1, w2}, FALSE), Asks({c1}, TRUE)}
=============================================================================
