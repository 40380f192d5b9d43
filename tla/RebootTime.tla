------------------------------ MODULE RebootTime ------------------------------
(***************************************************************************)
(* When a schedule runs (reboot_time.go): nextReboot for intervals, daily  *)
(* times and cron expressions in a zone whose clock changes, and the       *)
(* preview that applies it repeatedly, against what is meant: the first    *)
(* instant after a time at which the zone's clock shows a wanted minute    *)
(* for the first time.                                                     *)
(*                                                                         *)
(* An instant is a number of slots; so is a reading of a clock, whose date *)
(* is its quotient and whose time of day is its remainder by Day.          *)
(***************************************************************************)
EXTENDS Integers, Sequences, FiniteSets

CONSTANTS
  Day,         \* slots in a day
  Reach,       \* how far zoneOffsetsAround looks: 72 h
  DailyDays,   \* the days nextCivilDaily looks at: 366 * 9
  CronSlots,   \* the horizon of nextCivilCron: 8 years
  CronSearch,  \* how far cron.Next looks: 5 years
  Zones,       \* [first: offset, changes: set of [at, offset]]
  Definitions, \* what schedules ask for
  Starts,      \* instants asked from
  MaxRuns      \* the longest preview

VARIABLES zone, def, after, runs

vars == <<zone, def, after, runs>>

None == -1
Least(S)    == CHOOSE x \in S : \A y \in S : x <= y
Greatest(S) == CHOOSE x \in S : \A y \in S : x >= y

-----------------------------------------------------------------------------
(* Package time: zones and civil times (external).                         *)
Changes(z, t) == {c \in z.changes : c.at <= t}

OffsetAt(z, t) ==
  IF Changes(z, t) = {} THEN z.first
  ELSE (CHOOSE c \in Changes(z, t) : \A d \in Changes(z, t) : d.at <= c.at).offset

Local(z, t) == t + OffsetAt(z, t)
DateOf(civil) == civil \div Day
TimeOf(civil) == civil % Day

SamePeriod(z, t, u) == Changes(z, t) = Changes(z, u)

\* time.Date: the offset found at the reading taken as UTC, or else the one
\* found at the instant which that offset gives.
Date(z, civil) ==
  LET guess == civil - OffsetAt(z, civil)
  IN IF SamePeriod(z, civil, guess) THEN guess ELSE civil - OffsetAt(z, guess)

\* Readings the clock jumps over.
Skipped(z, civil) == \A o \in {z.first} \cup {c.offset : c \in z.changes} : Local(z, civil - o) # civil

\* A clock that jumps over midnight does so from midnight, or time.Date does
\* not leave the day.
JumpsFromMidnight(z) ==
  \A civil \in (Least(Starts) - Day)..(Greatest(Starts) + DailyDays * Day) :
    LET found == DateOf(Local(z, Date(z, civil)))
    IN Skipped(z, civil) =>
         \/ found = DateOf(civil)
         \/ /\ found < DateOf(civil)
            /\ \A c \in (civil - TimeOf(civil))..civil : Skipped(z, c)
            /\ ~Skipped(z, civil - TimeOf(civil) - 1)

ASSUME TimeAssumption ==
  /\ {Day, Reach, DailyDays, CronSlots, CronSearch} \subseteq Nat \ {0}
  /\ Starts \subseteq Nat /\ MaxRuns \in Nat
  /\ \A z \in Zones : JumpsFromMidnight(z)

-----------------------------------------------------------------------------
(* A wall-clock minute as an instant.                                      *)

\* zoneOffsetsAround: the offsets at the start, after each change, at the end.
OffsetsAround(z, civil) ==
  LET probes == {civil - Reach} \cup {c.at : c \in {d \in z.changes :
                   civil - Reach < d.at /\ d.at < civil + Reach}}
  IN {OffsetAt(z, t) : t \in probes \cup {civil + Reach}}

Matches(z, civil) ==
  {civil - o : o \in {p \in OffsetsAround(z, civil) : Local(z, civil - p) = civil}}

\* Mutant: a repeated minute runs when it comes back.
EarliestLast(z, civil) ==
  IF Matches(z, civil) = {} THEN None ELSE Greatest(Matches(z, civil))

\* earliestUTCForCivilMinute
Earliest(z, civil) ==
  IF Matches(z, civil) = {} THEN None ELSE Least(Matches(z, civil))

-----------------------------------------------------------------------------
\* nextReboot for intervals
NextInterval(every, anchor, t) ==
  IF anchor >= t THEN anchor + every
  ELSE anchor + ((t - anchor) \div every + 1) * every

\* The date nextCivilDaily looks at: local.AddDate(0, 0, d).
DailyDate(z, t, d) == DateOf(Local(z, Date(z, Local(z, t) + d * Day)))

\* nextCivilDaily: the first of the days, then of the times, that lies after.
NextDaily(z, times, t) ==
  LET at(d, m) == Earliest(z, DailyDate(z, t, d) * Day + m)
      hit(d)   == {m \in times : at(d, m) > t}
      days     == {d \in 0..(DailyDays - 1) : hit(d) # {}}
  IN IF days = {} THEN None ELSE at(Least(days), Least(hit(Least(days))))

Wanted(want, civil) == TimeOf(civil) \in want.times /\ DateOf(civil) % want.every = 0

\* cron.Next on civil fields (external), which gives up after a while.
CronNext(want, civil) ==
  LET found == {c \in (civil + 1)..(civil + CronSearch) : Wanted(want, c)}
  IN IF found = {} THEN None ELSE Least(found)

\* nextCivilCron
NextCron(z, want, t) ==
  LET horizon == Local(z, t) + CronSlots
      search[cursor \in Local(z, t)..(horizon + CronSearch)] ==
        LET nominal   == CronNext(want, cursor)
            candidate == Earliest(z, nominal)
        IN IF cursor >= horizon THEN None
           ELSE IF nominal = None THEN search[cursor + CronSearch - 1]
           ELSE IF nominal > horizon THEN None
           ELSE IF candidate > t THEN candidate
           ELSE search[nominal]
  IN search[Local(z, t)]

\* nextReboot
Next1(z, d, anchor, t) ==
  CASE d.mode = "interval" -> NextInterval(d.every, anchor, t)
    [] d.mode = "daily"    -> NextDaily(z, d.times, t)
    [] d.mode = "cron"     -> NextCron(z, d, t)

-----------------------------------------------------------------------------
Cursor == IF runs = <<>> THEN after ELSE runs[Len(runs)]

Init ==
  /\ zone \in Zones /\ def \in Definitions /\ after \in Starts
  /\ runs = <<>>

\* rebootPreview, whose anchor is where it starts.
Preview ==
  /\ Len(runs) < MaxRuns /\ Cursor # None
  /\ runs' = Append(runs, Next1(zone, def, after, Cursor))
  /\ UNCHANGED <<zone, def, after>>

Next == Preview

Spec == Init /\ [][Next]_vars

-----------------------------------------------------------------------------
(* What is meant.                                                          *)

\* The clock shows this for the first time.
FirstReading(z, t) == \A u \in (t - Reach)..(t - 1) : Local(z, u) # Local(z, t)

Meant(z, d, anchor, t) ==
  CASE d.mode = "interval" -> t > anchor /\ (t - anchor) % d.every = 0
    [] d.mode = "daily"    -> TimeOf(Local(z, t)) \in d.times /\ FirstReading(z, t)
    [] d.mode = "cron"     -> Wanted(d, Local(z, t)) /\ FirstReading(z, t)

\* docs/reboots.md, "Schedule modes": a preview names, in their order, all
\* the occurrences that are meant and nothing else: a minute the clock jumps
\* over is left out, one it repeats counts once, and nothing is lost or
\* doubled on the days around a change of the clock.  A schedule refused for
\* having no occurrence has none within the horizon.
PreviewIsExact ==
  \A i \in 1..Len(runs) :
    LET from == IF i = 1 THEN after ELSE runs[i - 1]
        occurs(t) == Meant(zone, def, after, t)
        within(t) == Local(zone, t) <= Local(zone, from) + CronSlots
    IN IF runs[i] = None
         THEN \A t \in (from + 1)..(from + CronSlots) : within(t) => ~occurs(t)
         ELSE /\ runs[i] > from /\ occurs(runs[i])
              /\ \A t \in (from + 1)..(runs[i] - 1) : ~occurs(t)
=============================================================================
