\* Two fair pollers, two triggers of every kind, an update, a failing poll, summer time ahead.
SPECIFICATION FairSpec
CONSTANTS
    DayLen = 6
    MinuteLen = 2
    Zone <- SpringForward
    Trigger = {t1, t2}
    Poller = {p1, p2}
    Editor = {e1}
    Schedules <- AllRepeats
    Requests = {3, 58}
    Clock = {0, 5, 100}
    MaxEdits = 1
    MaxAborts = 1
    NULL = NULL
    Unreachable = Unreachable
INVARIANTS
    TypeOK
    OneShotFiresOnce
PROPERTIES
    CreatedAtFirst
    FiresOnlyWhenDue
    RescheduledToNext
    DueTriggersFire
\* When every trigger is gone and the clock has ended, nothing is left to do.
CHECK_DEADLOCK FALSE
