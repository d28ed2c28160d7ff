----------------------------- MODULE Triggers ------------------------------
(***************************************************************************)
(* Scheduled triggers: create_trigger, update_trigger, delete_trigger and  *)
(* the poller that fires what is due (routes/triggers.py, main.py).        *)
(*                                                                         *)
(* The poller keeps the rows it selected locked until it commits;          *)
(* update_trigger loads its row without a lock and writes the columns it   *)
(* changed later.                                                          *)
(***************************************************************************)
EXTENDS Scheduling, Functions

CONSTANTS
    Trigger,        \* the ids that may be drawn
    Poller,         \* one per orchestrator process
    Editor,         \* handlers that may serve a PATCH at the same time
    Schedules,      \* the schedules that users ask for
    Requests,       \* the instants that users ask for
    Clock,          \* the instants at which something happens
    MaxEdits,       \* bound on PATCH requests
    MaxAborts,      \* bound on poller iterations that fail
    NULL

ASSUME SchedulesAssumption == Schedules \subseteq Schedule
ASSUME BoundsAssumption == MaxEdits \in Nat /\ MaxAborts \in Nat
ASSUME InstantsAssumption == Requests \subseteq Nat /\ Clock \subseteq Nat

VARIABLES
    now,
    trig,           \* the rows of triggers that exist, by id
    runs,           \* for every id drawn so far, how many runs the poller has made for it
    poll,           \* the instant a poller has read and the rows it has locked
    edit,           \* the row a PATCH is about, the columns it will write, their values
    edits, aborts

vars == <<now, trig, runs, poll, edit, edits, aborts>>

NoTime == -1

Nothing == <<>>     \* no rows

\* The function f with one more element in its domain.
With(f, x, y) == [z \in DOMAIN f \cup {x} |-> IF z = x THEN y ELSE f[z]]

Columns == {"enabled", "runAt"}
Wish    == [enabled : BOOLEAN, runAt : Int]
NoEdit  == [of |-> NULL, columns |-> {}, want |-> [enabled |-> FALSE, runAt |-> NoTime]]

Row == [sched : Schedule, runAt : Int, enabled : BOOLEAN, firedAt : Int]

TypeOK ==
    /\ now \in Clock
    /\ DOMAIN runs \subseteq Trigger /\ DOMAIN trig \subseteq DOMAIN runs
    /\ \A t \in DOMAIN trig : trig[t] \in Row
    /\ \A t \in DOMAIN runs : runs[t] \in Nat
    /\ \A p \in Poller :
          /\ poll[p].at \in Clock \cup {NoTime}
          /\ \A t \in DOMAIN poll[p].due : t \in Trigger /\ poll[p].due[t] \in Row
    /\ \A e \in Editor :
          /\ edit[e].of \in Trigger \cup {NULL}
          /\ edit[e].columns \subseteq Columns /\ edit[e].want \in Wish
    /\ edits \in 0..MaxEdits /\ aborts \in 0..MaxAborts

Init ==
    /\ now \in Clock
    /\ trig = Nothing /\ runs = Nothing
    /\ poll = [p \in Poller |-> [at |-> NoTime, due |-> Nothing]]
    /\ edit = [e \in Editor |-> NoEdit]
    /\ edits = 0 /\ aborts = 0

-----------------------------------------------------------------------------
(* Users *)

Create(t) ==
    /\ t \notin DOMAIN runs
    /\ \E sched \in Schedules, requested \in Requests, enabled \in BOOLEAN :
          LET first == FirstRun(requested, sched)
          IN /\ first # Unreachable
             /\ trig' = With(trig, t, [sched |-> sched, runAt |-> first,
                                       enabled |-> enabled, firedAt |-> NoTime])
    /\ runs' = With(runs, t, 0)
    /\ UNCHANGED <<now, poll, edit, edits, aborts>>

\* Mutant of Locked: the poller selects its rows without locking them.
NeverLocked(t) == FALSE

Locked(t) == \E p \in Poller : t \in DOMAIN poll[p].due

Fired(row) == row.firedAt # NoTime

\* update_trigger up to the commit.  The session writes the columns whose values differ from
\* the loaded ones; an omitted field keeps its value.
EditRead(e, t) ==
    /\ edit[e].of = NULL /\ edits < MaxEdits /\ t \in DOMAIN trig
    /\ \E want \in [enabled : BOOLEAN, runAt : Requests \cup {trig[t].runAt}] :
          LET changed == {c \in Columns : want[c] # trig[t][c]}
          IN /\ changed # {}
             /\ "runAt" \in changed => ~(trig[t].sched.repeat = "once" /\ Fired(trig[t]))
             /\ edit' = [edit EXCEPT ![e] = [of |-> t, columns |-> changed, want |-> want]]
    /\ edits' = edits + 1
    /\ UNCHANGED <<now, trig, runs, poll, aborts>>

EditEnds(e) == edit' = [edit EXCEPT ![e] = NoEdit]

Edited(row, columns, want) ==
    [row EXCEPT !.enabled = IF "enabled" \in columns THEN want.enabled ELSE row.enabled,
                !.runAt   = IF "runAt" \in columns THEN want.runAt ELSE row.runAt]

\* Mutant of EditCommit: an edit of a row that is gone inserts it again.
EditCommitUpserts(e) ==
    /\ edit[e].of # NULL /\ ~Locked(edit[e].of)
    /\ trig' = With(trig, edit[e].of, edit[e].want)
    /\ EditEnds(e)
    /\ UNCHANGED <<now, runs, poll, edits, aborts>>

\* The UPDATE waits for the lock; it fails when the row is gone.
EditCommit(e) ==
    /\ edit[e].of \in DOMAIN trig /\ ~Locked(edit[e].of)
    /\ trig' = [trig EXCEPT ![edit[e].of] = Edited(trig[edit[e].of], edit[e].columns, edit[e].want)]
    /\ EditEnds(e)
    /\ UNCHANGED <<now, runs, poll, edits, aborts>>

\* A row that is gone, a lost connection, a crash.
EditFails(e) ==
    /\ edit[e].of # NULL
    /\ EditEnds(e)
    /\ UNCHANGED <<now, trig, runs, poll, edits, aborts>>

\* delete_trigger, and the cascade of deleting the trigger's process or agent.
Delete(t) ==
    /\ t \in DOMAIN trig /\ ~Locked(t)
    /\ trig' = Restrict(trig, DOMAIN trig \ {t})
    /\ UNCHANGED <<now, runs, poll, edit, edits, aborts>>

-----------------------------------------------------------------------------
(* The poller *)

IsDue(row) == row.enabled /\ ~Fired(row) /\ row.runAt <= now

\* SELECT ... FOR UPDATE SKIP LOCKED; a row that a PATCH is about to write may be locked.
PollBegin(p) ==
    LET due     == {t \in DOMAIN trig : IsDue(trig[t]) /\ ~Locked(t)}
        pending == {edit[e].of : e \in Editor}
    IN /\ poll[p].due = Nothing
       /\ \E rows \in SUBSET due :
             /\ rows # {} /\ due \ rows \subseteq pending
             /\ poll' = [poll EXCEPT ![p] = [at |-> now, due |-> Restrict(trig, rows)]]
       /\ UNCHANGED <<now, trig, runs, edit, edits, aborts>>

\* _reschedule: next_run from the old time on, until it is after the instant of the poll.
Rescheduled(row, at) ==
    LET from[c \in Int \cup {Unreachable}] ==
            IF c = Unreachable \/ c > at THEN c ELSE from[NextRun(c, row.runAt, row.sched)]
    IN IF row.sched.repeat = "once" THEN row.runAt
       ELSE from[NextRun(row.runAt, row.runAt, row.sched)]

PollEnds(p) == poll' = [poll EXCEPT ![p] = [at |-> NoTime, due |-> Nothing]]

PollCommit(p) ==
    LET due  == poll[p].due
        next == [t \in DOMAIN due |-> Rescheduled(due[t], poll[p].at)]
    IN /\ due # Nothing
       /\ \A t \in DOMAIN due : next[t] # Unreachable
       /\ runs' = [t \in DOMAIN runs |-> runs[t] + (IF t \in DOMAIN due THEN 1 ELSE 0)]
       /\ trig' = [t \in DOMAIN trig |->
                      IF t \in DOMAIN due
                      THEN [trig[t] EXCEPT !.firedAt = poll[p].at, !.runAt = next[t]]
                      ELSE trig[t]]
       /\ PollEnds(p)
       /\ UNCHANGED <<now, edit, edits, aborts>>

\* Any exception, an orchestrator that dies: everything is rolled back, the locks are released.
PollAbort(p) ==
    /\ poll[p].due # Nothing /\ aborts < MaxAborts
    /\ PollEnds(p)
    /\ aborts' = aborts + 1
    /\ UNCHANGED <<now, trig, runs, edit, edits>>

Tick ==
    /\ now' \in {c \in Clock : c > now}
    /\ UNCHANGED <<trig, runs, poll, edit, edits, aborts>>

Next ==
    \/ \E t \in Trigger : Create(t) \/ Delete(t)
    \/ \E e \in Editor : EditCommit(e) \/ EditFails(e) \/ \E t \in Trigger : EditRead(e, t)
    \/ \E p \in Poller : PollBegin(p) \/ PollCommit(p) \/ PollAbort(p)
    \/ Tick

Spec == Init /\ [][Next]_vars

\* Every poller polls again and again (main.py:58), a transaction that was begun ends.
FairSpec ==
    /\ Spec
    /\ \A p \in Poller : WF_vars(PollBegin(p)) /\ WF_vars(PollCommit(p))
    /\ \A e \in Editor : WF_vars(EditCommit(e) \/ EditFails(e))

-----------------------------------------------------------------------------
(* Properties *)

\* A one-shot trigger makes at most one run, whoever polls (triggers.py:187).
OneShotFiresOnce ==
    \A t \in DOMAIN trig : trig[t].sched.repeat = "once" => runs[t] <= 1

\* A run is made only for a trigger that exists, is enabled and is due in the moment of the
\* commit: a user who has disabled, postponed or deleted it is not surprised by a run later.
FiresOnlyWhenDue ==
    [][\A t \in DOMAIN runs : runs'[t] # runs[t] => t \in DOMAIN trig /\ IsDue(trig[t])]_vars

Weeks(span) == span \div (7 * DayLen) + 2

\* However many occurrences a late poll has missed, a recurring trigger is set to its first
\* occurrence after the poll, on the wall clock of its zone (models.py:276, triggers.py:158).
RescheduledToNext ==
    [][\A t \in DOMAIN trig \cap DOMAIN trig' :
          LET old == trig[t]
              new == trig'[t]
              all == Occurrences(old.runAt, old.sched, Weeks(new.firedAt - old.runAt))
          IN new.firedAt # old.firedAt /\ old.sched.repeat # "once"
             => new.runAt = LeastOf({o \in all : o > new.firedAt})]_vars

\* A new trigger is set to the first occurrence at or after the instant that was asked for
\* (scheduling.py:106), even if its wall time has just passed or the offset changes before.
CreatedAtFirst ==
    [][\A t \in DOMAIN trig' \ DOMAIN trig : \E requested \in Requests :
          LET all == Occurrences(requested, trig'[t].sched, 2)
          IN trig'[t].runAt = LeastOf({o \in all : o >= requested})]_vars

\* What is due does not stay due: it fires on a later poll, unless a user takes it back
\* (triggers.py:188).  One trigger that cannot be rescheduled would hold up all others.
DueTriggersFire ==
    \A t \in Trigger :
       (t \in DOMAIN trig /\ IsDue(trig[t])) ~> ~(t \in DOMAIN trig /\ IsDue(trig[t]))

\* "The poller fires due rows and reschedules recurring ones, so a trigger is never skipped"
\* (models.py:276): an enabled recurring trigger does not stay behind the clock.
RecurringNeverSkipped ==
    LET Behind(t) == /\ t \in DOMAIN trig /\ trig[t].sched.repeat # "once"
                     /\ trig[t].enabled /\ trig[t].runAt <= now
    IN \A t \in Trigger : Behind(t) ~> ~Behind(t)
=============================================================================
