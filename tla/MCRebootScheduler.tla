-------------------------- MODULE MCRebootScheduler --------------------------
(* Timings for TLC, in ticks of 60 s: an interval, and wall-clock minutes   *)
(* that run out (the error path of nextReboot).  The shortest interval of   *)
(* the code is an hour; a shorter one makes occurrences follow each other.  *)
EXTENDS RebootScheduler

Interval == [mode |-> "interval", every |-> 2]
Civil    == [mode |-> "civil", at |-> {3, 4}]

BothTimings == {Interval, Civil}

\* Two occurrences, of which the first may be found later than the window.
OnlyCivil   == {[mode |-> "civil", at |-> {2, 4}]}
=============================================================================
