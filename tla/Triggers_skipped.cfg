\* A recurring trigger that has fired once stays behind the clock.
SPECIFICATION FairSpec
CONSTANTS
    DayLen = 6
    MinuteLen = 2
    Zone <- SpringForward
    Trigger = {t1}
    Poller = {p1}
    Editor = {e1}
    Schedules <- Recurring
    Requests = {3}
    Clock = {0, 5, 100}
    MaxEdits = 0
    MaxAborts = 0
    NULL = NULL
    Unreachable = Unreachable
PROPERTY
    RecurringNeverSkipped
\* When every trigger is gone and the clock has ended, nothing is left to do.
CHECK_DEADLOCK FALSE
