---------------------------- MODULE MCRebootTime ----------------------------
(* Zones for TLC: days of six slots, west and east of UTC, a clock that     *)
(* goes forward or back by one or two slots at any slot of two days, and    *)
(* another that does both.                                                  *)
EXTENDS RebootTime

OneChange == {[first |-> f, changes |-> {[at |-> t, offset |-> f + by]}] :
                f \in {-2, 0, 2}, t \in 24..35, by \in {-2, -1, 1, 2}}
TwoChanges == {[first |-> f, changes |-> {[at |-> t, offset |-> f + 1], [at |-> t + 9, offset |-> f]}] :
                f \in {-2, 2}, t \in 24..30}

AllZones == {z \in OneChange \cup TwoChanges : JumpsFromMidnight(z)}
TheStarts == 18..36

TheDefinitions ==
  [mode: {"interval"}, every: {4, 6}, times: {{}}]
    \cup [mode: {"daily"}, every: {1}, times: {{0}, {1, 2}, {3}, {0, 5}}]
    \cup [mode: {"cron"}, every: {1, 3}, times: {{0}, {1, 2}, {0, 5}}]
    \cup [mode: {"cron"}, every: {10, 40}, times: {{0}}]
=============================================================================
