---------------------------- MODULE Scheduling -----------------------------
(***************************************************************************)
(* The schedule arithmetic of scheduling.py: when a trigger runs first,    *)
(* and when it runs next.                                                  *)
(*                                                                         *)
(* Instants are integers (UTC); a local day has DayLen of them, and wall   *)
(* times are rounded down to minutes of MinuteLen.  Local day 0 is a       *)
(* Monday.  The zone changes its offset from UTC at most once.             *)
(***************************************************************************)
EXTENDS Integers, FiniteSetsExt

CONSTANTS
    DayLen,
    MinuteLen,
    Zone,       \* [before, after, change]: the offset until and from the instant of change
    Unreachable \* AssertionError: no day of the scan fits

ASSUME LengthsAssumption ==
    /\ MinuteLen \in Nat \ {0}
    /\ DayLen \in Nat \ {0} /\ DayLen % MinuteLen = 0
ASSUME ZoneAssumption ==
    /\ Zone \in [before : Int, after : Int, change : Int]
    /\ Zone.before % MinuteLen = 0 /\ Zone.after % MinuteLen = 0
ASSUME UnreachableAssumption == Unreachable \notin Int

Weekdays == 0..6

\* repeat, with repeat_interval_hours (step) or days_of_week (days): what TriggerCreate accepts.
Schedule == [repeat : {"once", "daily"}]
       \cup [repeat : {"hourly"}, step : Nat \ {0}]
       \cup [repeat : {"weekly"}, days : (SUBSET Weekdays) \ {{}}]

-----------------------------------------------------------------------------
(* Wall clocks: astimezone, and datetime(..., tzinfo=tz) with fold = 0 *)

Local(u) == u + (IF u < Zone.change THEN Zone.before ELSE Zone.after)

\* A wall time that comes twice is the first of the two; one that is skipped is read with the
\* old offset.
UTC(wall) ==
    IF wall - Zone.before >= Zone.change /\ wall - Zone.after >= Zone.change
    THEN wall - Zone.after
    ELSE wall - Zone.before

Day(u) == Local(u) \div DayLen

\* Hour and minute of the anchor; its seconds are lost.
WallTime(anchor) == LET time == Local(anchor) % DayLen IN time - (time % MinuteLen)

At(day, time) == UTC(day * DayLen + time)

-----------------------------------------------------------------------------
\* Mutant of FirstDaily: an occurrence at the requested instant does not count.
FirstDailyLate(requested, anchor) ==
    LET today == At(Day(requested), WallTime(anchor))
    IN IF today > requested THEN today ELSE At(Day(requested) + 1, WallTime(anchor))

FirstDaily(requested, anchor) ==
    LET today == At(Day(requested), WallTime(anchor))
    IN IF today >= requested THEN today ELSE At(Day(requested) + 1, WallTime(anchor))

NextDaily(after, anchor) ==
    LET today == At(Day(after), WallTime(anchor))
    IN IF today > after THEN today ELSE At(Day(after) + 1, WallTime(anchor))

\* The first of the days that is selected and whose wall time comes no earlier than given.
FirstOfDays(start, offsets, anchor, days, earliest) ==
    LET time == WallTime(anchor)
        hits == {o \in offsets : (Day(start) + o) % 7 \in days /\ At(Day(start) + o, time) >= earliest}
    IN IF hits = {} THEN Unreachable ELSE At(Day(start) + Min(hits), time)

FirstWeekly(requested, anchor, days) == FirstOfDays(requested, 0..7, anchor, days, requested)

\* Mutant of NextWeekly: the scan stops before the same day of the next week.
NextWeeklyThisWeek(after, anchor, days) == FirstOfDays(after, 0..6, anchor, days, after + 1)

NextWeekly(after, anchor, days) == FirstOfDays(after, 0..7, anchor, days, after + 1)

\* Mutant of NextHourly: the period that has begun is skipped.
NextHourlySkipping(after, anchor, step) ==
    IF after < anchor THEN anchor ELSE anchor + ((after - anchor) \div step + 2) * step

NextHourly(after, anchor, step) ==
    IF after < anchor THEN anchor ELSE anchor + ((after - anchor) \div step + 1) * step

\* The only caller takes the requested instant as the anchor.
FirstRun(requested, sched) ==
    CASE sched.repeat \in {"once", "hourly"} -> requested
      [] sched.repeat = "daily"  -> FirstDaily(requested, requested)
      [] sched.repeat = "weekly" -> FirstWeekly(requested, requested, sched.days)

NextRun(after, anchor, sched) ==
    CASE sched.repeat = "hourly" -> NextHourly(after, anchor, sched.step)
      [] sched.repeat = "daily"  -> NextDaily(after, anchor)
      [] sched.repeat = "weekly" -> NextWeekly(after, anchor, sched.days)

-----------------------------------------------------------------------------
LeastOf(S) == CHOOSE m \in S : \A s \in S : m <= s

\* What the words mean: the first instants from the anchor on at which a schedule set by the
\* anchor falls due.
Occurrences(anchor, sched, weeks) ==
    CASE sched.repeat = "once"   -> {anchor}
      [] sched.repeat = "hourly" -> {anchor + k * sched.step : k \in 0 .. 7 * weeks * DayLen}
      [] sched.repeat = "daily"  -> {At(Day(anchor) + k, WallTime(anchor)) : k \in 0 .. 7 * weeks}
      [] sched.repeat = "weekly" ->
            {At(day, WallTime(anchor)) :
                day \in {d \in Day(anchor) .. Day(anchor) + 7 * weeks : d % 7 \in sched.days}}
=============================================================================
