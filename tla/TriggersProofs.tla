-------------------------- MODULE TriggersProofs ---------------------------
(***************************************************************************)
(* What Triggers keeps for every number of triggers, pollers and PATCH     *)
(* requests, every schedule, every zone and every clock.                   *)
(***************************************************************************)
EXTENDS Triggers, SchedulingProofs

(* A row that has not fired has made no run and has a time. *)
RowsOK ==
    \A t \in DOMAIN trig :
        /\ t \in DOMAIN runs
        /\ DOMAIN trig[t] = {"sched", "runAt", "enabled", "firedAt"}
        /\ ~Fired(trig[t]) => runs[t] = 0 /\ trig[t].runAt \in Int

CountsOK == \A t \in DOMAIN runs : runs[t] \in {0, 1}

(* What a poller has locked is as the poller has read it, and was due when the poller read *)
(* the clock; no two pollers have locked the same row.                                     *)
LocksOK ==
    /\ \A p \in Poller : \A t \in DOMAIN poll[p].due :
          /\ poll[p].at \in Nat /\ poll[p].at <= now
          /\ t \in DOMAIN trig /\ poll[p].due[t] = trig[t]
          /\ trig[t].enabled /\ ~Fired(trig[t]) /\ trig[t].runAt <= poll[p].at
    /\ \A p, q \in Poller : DOMAIN poll[p].due \cap DOMAIN poll[q].due # {} => p = q

EditsOK == \A e \in Editor : "runAt" \in edit[e].columns => edit[e].want.runAt \in Int

Inv ==
    /\ now \in Nat
    /\ DOMAIN poll = Poller /\ DOMAIN edit = Editor
    /\ RowsOK
    /\ CountsOK
    /\ LocksOK
    /\ EditsOK

-----------------------------------------------------------------------------
(* The invariant *)

LEMMA InitInv == Init => Inv
<1> SUFFICES ASSUME Init PROVE Inv
  OBVIOUS
<1>1. DOMAIN Nothing = {}
  BY DEF Nothing
<1>2. QED
  BY <1>1, InstantsAssumption DEF Init, Inv, RowsOK, CountsOK, LocksOK, EditsOK, NoEdit

(* A new row has made no run; its id is new, so no poller has locked it. *)
LEMMA CreateInv ==
    ASSUME Inv, NEW t \in Trigger, Create(t)
    PROVE  Inv'
<1>1. PICK sched \in Schedules, requested \in Requests, enabled \in BOOLEAN :
         /\ FirstRun(requested, sched) # Unreachable
         /\ trig' = With(trig, t, [sched |-> sched, runAt |-> FirstRun(requested, sched),
                                   enabled |-> enabled, firedAt |-> NoTime])
  BY DEF Create
<1>2. FirstRun(requested, sched) \in Int
  BY <1>1, FirstRunType, SchedulesAssumption, InstantsAssumption
<1>3. t \notin DOMAIN trig
  BY DEF Create, Inv, RowsOK
<1>4. /\ DOMAIN trig' = DOMAIN trig \cup {t}
      /\ \A x \in DOMAIN trig : trig'[x] = trig[x]
      /\ trig'[t] = [sched |-> sched, runAt |-> FirstRun(requested, sched),
                     enabled |-> enabled, firedAt |-> NoTime]
  BY <1>1, <1>3 DEF With
<1>5. /\ DOMAIN runs' = DOMAIN runs \cup {t} /\ runs'[t] = 0
      /\ \A x \in DOMAIN runs : runs'[x] = runs[x]
  BY DEF Create, With
<1>6. UNCHANGED <<now, poll, edit>>
  BY DEF Create
<1>7. RowsOK'
  BY <1>2, <1>3, <1>4, <1>5 DEF Inv, RowsOK, Fired, Create
<1>8. CountsOK'
  BY <1>5 DEF Inv, CountsOK, Create
<1>9. LocksOK'
  BY <1>3, <1>4, <1>6 DEF Inv, LocksOK, Fired
<1>10. QED
  BY <1>6, <1>7, <1>8, <1>9 DEF Inv, EditsOK

(* A PATCH changes the columns it may change, of a row no poller has locked. *)
LEMMA EditReadInv ==
    ASSUME Inv, NEW e \in Editor, NEW t \in Trigger, EditRead(e, t)
    PROVE  Inv'
<1>1. PICK want \in [enabled : BOOLEAN, runAt : Requests \cup {trig[t].runAt}] :
         LET changed == {c \in Columns : want[c] # trig[t][c]}
         IN edit' = [edit EXCEPT ![e] = [of |-> t, columns |-> changed, want |-> want]]
  BY DEF EditRead
<1>2. ASSUME "runAt" \in edit'[e].columns PROVE edit'[e].want.runAt \in Int
  <2>1. /\ edit'[e].columns = {c \in Columns : want[c] # trig[t][c]}
        /\ edit'[e].want = want
    BY <1>1 DEF Inv
  <2>2. want["runAt"] # trig[t]["runAt"]
    BY <1>2, <2>1
  <2>3. want.runAt \in Requests
    BY <2>2
  <2>4. Requests \subseteq Int
    BY InstantsAssumption
  <2>5. QED
    BY <2>1, <2>3, <2>4, Zenon
<1>3. EditsOK'
  BY <1>1, <1>2 DEF Inv, EditsOK
<1>4. DOMAIN edit' = Editor
  BY <1>1 DEF Inv
<1>5. UNCHANGED <<now, trig, runs, poll>>
  BY DEF EditRead
<1>6. QED
  BY <1>3, <1>4, <1>5 DEF Inv, RowsOK, CountsOK, LocksOK, Fired

LEMMA EditCommitInv ==
    ASSUME Inv, NEW e \in Editor, EditCommit(e)
    PROVE  Inv'
<1> DEFINE of == edit[e].of
           row == trig[of]
<1>1. /\ of \in DOMAIN trig /\ ~Locked(of)
      /\ trig' = [trig EXCEPT ![of] = Edited(row, edit[e].columns, edit[e].want)]
      /\ edit' = [edit EXCEPT ![e] = NoEdit]
      /\ UNCHANGED <<now, runs, poll>>
  BY DEF EditCommit, EditEnds
<1>2. DOMAIN row = {"sched", "runAt", "enabled", "firedAt"}
  BY <1>1 DEF Inv, RowsOK
<1>3. /\ DOMAIN trig'[of] = {"sched", "runAt", "enabled", "firedAt"}
      /\ trig'[of].firedAt = row.firedAt
      /\ trig'[of].runAt = IF "runAt" \in edit[e].columns THEN edit[e].want.runAt ELSE row.runAt
  BY <1>1, <1>2 DEF Edited
<1>4. /\ DOMAIN trig' = DOMAIN trig
      /\ \A t \in DOMAIN trig : t # of => trig'[t] = trig[t]
  BY <1>1
<1>5. RowsOK'
  BY <1>1, <1>3, <1>4 DEF Inv, RowsOK, EditsOK, Fired
<1>6. LocksOK'
  BY <1>1, <1>4 DEF Inv, LocksOK, Locked, Fired
<1>7. EditsOK'
  BY <1>1 DEF Inv, EditsOK, NoEdit
<1>8. QED
  BY <1>1, <1>5, <1>6, <1>7 DEF Inv, CountsOK

LEMMA EditFailsInv ==
    ASSUME Inv, NEW e \in Editor, EditFails(e)
    PROVE  Inv'
<1>1. edit' = [edit EXCEPT ![e] = NoEdit] /\ UNCHANGED <<now, trig, runs, poll>>
  BY DEF EditFails, EditEnds
<1>2. EditsOK' /\ DOMAIN edit' = Editor
  BY <1>1 DEF Inv, EditsOK, NoEdit
<1>3. QED
  BY <1>1, <1>2 DEF Inv, RowsOK, CountsOK, LocksOK, Fired

LEMMA DeleteInv ==
    ASSUME Inv, NEW t \in Trigger, Delete(t)
    PROVE  Inv'
<1>1. /\ DOMAIN trig' = DOMAIN trig \ {t} /\ ~Locked(t)
      /\ \A x \in DOMAIN trig' : trig'[x] = trig[x]
      /\ UNCHANGED <<now, runs, poll, edit>>
  BY DEF Delete, Restrict
<1>2. RowsOK'
  BY <1>1 DEF Inv, RowsOK, Fired
<1>3. LocksOK'
  BY <1>1 DEF Inv, LocksOK, Locked, Fired
<1>4. QED
  BY <1>1, <1>2, <1>3 DEF Inv, CountsOK, EditsOK

(* A poller locks rows that nobody has locked and that are due now. *)
LEMMA PollBeginInv ==
    ASSUME Inv, NEW p \in Poller, PollBegin(p)
    PROVE  Inv'
<1>1. PICK rows \in SUBSET {t \in DOMAIN trig : IsDue(trig[t]) /\ ~Locked(t)} :
         poll' = [poll EXCEPT ![p] = [at |-> now, due |-> Restrict(trig, rows)]]
  BY DEF PollBegin
<1>2. /\ DOMAIN poll' = Poller
      /\ poll'[p].at = now /\ DOMAIN poll'[p].due = rows
      /\ \A t \in rows : poll'[p].due[t] = trig[t]
      /\ \A q \in Poller : q # p => poll'[q] = poll[q]
  BY <1>1 DEF Inv, Restrict
<1>3. UNCHANGED <<now, trig, runs, edit>>
  BY DEF PollBegin
<1>4. LocksOK'
  <2>1. \A q \in Poller : \A t \in DOMAIN poll'[q].due :
           /\ poll'[q].at \in Nat /\ poll'[q].at <= now
           /\ t \in DOMAIN trig /\ poll'[q].due[t] = trig[t]
           /\ trig[t].enabled /\ ~Fired(trig[t]) /\ trig[t].runAt <= poll'[q].at
    BY <1>1, <1>2 DEF Inv, LocksOK, IsDue
  <2>2. \A q \in Poller : q # p => DOMAIN poll'[p].due \cap DOMAIN poll'[q].due = {}
    BY <1>1, <1>2 DEF Locked
  <2>3. \A q, r \in Poller : DOMAIN poll'[q].due \cap DOMAIN poll'[r].due # {} => q = r
    BY <1>2, <2>2 DEF Inv, LocksOK
  <2>4. QED
    BY <1>3, <2>1, <2>3 DEF LocksOK, Fired
<1>5. QED
  BY <1>2, <1>3, <1>4 DEF Inv, RowsOK, CountsOK, EditsOK, Fired

(* When a poll ends, its locks are gone and those of the others stand. *)
LEMMA PollEndsFacts ==
    ASSUME Inv, NEW p \in Poller, PollEnds(p)
    PROVE  /\ DOMAIN poll' = Poller /\ DOMAIN poll'[p].due = {}
           /\ \A q \in Poller : q # p => poll'[q] = poll[q]
<1>1. DOMAIN Nothing = {}
  BY DEF Nothing
<1>2. QED
  BY <1>1 DEF Inv, PollEnds

(* A commit counts a run for rows that had none and marks them fired; no other poller has *)
(* locked them.                                                                           *)
LEMMA PollCommitInv ==
    ASSUME Inv, NEW p \in Poller, PollCommit(p)
    PROVE  Inv'
<1> DEFINE due == DOMAIN poll[p].due
<1>1. /\ DOMAIN runs' = DOMAIN runs /\ DOMAIN trig' = DOMAIN trig
      /\ \A t \in DOMAIN runs : runs'[t] = runs[t] + (IF t \in due THEN 1 ELSE 0)
      /\ \A t \in DOMAIN trig : t \notin due => trig'[t] = trig[t]
      /\ UNCHANGED <<now, edit>>
  BY DEF PollCommit
<1>2. /\ DOMAIN poll' = Poller /\ DOMAIN poll'[p].due = {}
      /\ \A q \in Poller : q # p => poll'[q] = poll[q]
  BY PollEndsFacts DEF PollCommit
<1>3. \A t \in due : /\ t \in DOMAIN trig /\ t \in DOMAIN runs
                     /\ runs[t] = 0 /\ poll[p].at \in Nat
  BY DEF Inv, LocksOK, RowsOK
<1>4. \A t \in due : /\ DOMAIN trig'[t] = {"sched", "runAt", "enabled", "firedAt"}
                     /\ Fired(trig'[t])
  <2> SUFFICES ASSUME NEW t \in due
               PROVE  /\ DOMAIN trig'[t] = {"sched", "runAt", "enabled", "firedAt"}
                      /\ Fired(trig'[t])
    OBVIOUS
  <2>1. PICK next : trig'[t] = [trig[t] EXCEPT !.firedAt = poll[p].at, !.runAt = next]
    BY <1>3 DEF PollCommit
  <2>2. DOMAIN trig[t] = {"sched", "runAt", "enabled", "firedAt"}
    BY <1>3 DEF Inv, RowsOK
  <2>3. QED
    BY <1>3, <2>1, <2>2 DEF Fired, NoTime
<1>5. RowsOK'
  BY <1>1, <1>4 DEF Inv, RowsOK, CountsOK, Fired
<1>6. CountsOK'
  BY <1>1, <1>3 DEF Inv, CountsOK
<1>7. LocksOK'
  <2>1. \A q \in Poller : q # p => DOMAIN poll[q].due \cap due = {}
    BY DEF Inv, LocksOK
  <2>2. QED
    BY <1>1, <1>2, <2>1 DEF Inv, LocksOK, Fired
<1>8. QED
  BY <1>1, <1>2, <1>5, <1>6, <1>7 DEF Inv, EditsOK

LEMMA PollAbortInv ==
    ASSUME Inv, NEW p \in Poller, PollAbort(p)
    PROVE  Inv'
<1>1. /\ DOMAIN poll' = Poller /\ DOMAIN poll'[p].due = {}
      /\ \A q \in Poller : q # p => poll'[q] = poll[q]
  BY PollEndsFacts DEF PollAbort
<1>2. UNCHANGED <<now, trig, runs, edit>>
  BY DEF PollAbort
<1>3. LocksOK'
  BY <1>1, <1>2 DEF Inv, LocksOK, Fired
<1>4. QED
  BY <1>1, <1>2, <1>3 DEF Inv, RowsOK, CountsOK, EditsOK, Fired

LEMMA TickInv ==
    ASSUME Inv, Tick
    PROVE  Inv'
<1>1. now' \in Nat /\ now < now' /\ UNCHANGED <<trig, runs, poll, edit>>
  BY InstantsAssumption DEF Inv, Tick
<1>2. LocksOK'
  BY <1>1 DEF Inv, LocksOK, Fired
<1>3. QED
  BY <1>1, <1>2 DEF Inv, RowsOK, CountsOK, EditsOK, Fired

LEMMA NextInv == Inv /\ [Next]_vars => Inv'
<1> SUFFICES ASSUME Inv, [Next]_vars PROVE Inv'
  OBVIOUS
<1>1. CASE Next
  BY <1>1, CreateInv, DeleteInv, EditReadInv, EditCommitInv, EditFailsInv, PollBeginInv,
     PollCommitInv, PollAbortInv, TickInv DEF Next
<1>2. CASE UNCHANGED vars
  BY <1>2 DEF vars, Inv, RowsOK, CountsOK, LocksOK, EditsOK, Fired
<1>3. QED
  BY <1>1, <1>2

LEMMA Invariance == Spec => []Inv
BY InitInv, NextInv, PTL DEF Spec

-----------------------------------------------------------------------------
(* Theorems *)

(* A one-shot trigger makes at most one run, however many pollers there are. *)
THEOREM OneShotsFireOnce == Spec => []OneShotFiresOnce
<1>1. Inv => OneShotFiresOnce
  BY DEF Inv, RowsOK, CountsOK, OneShotFiresOnce
<1>2. QED
  BY <1>1, Invariance, PTL

(* A run is made only for a trigger that exists, is enabled and is due at the commit. *)
THEOREM NothingFiresEarly == Spec => FiresOnlyWhenDue
<1> DEFINE Fires(t) == runs'[t] # runs[t] => t \in DOMAIN trig /\ IsDue(trig[t])
<1>1. ASSUME Inv, [Next]_vars, NEW t \in DOMAIN runs
      PROVE  Fires(t)
  <2>1. ASSUME NEW p \in Poller, PollCommit(p) PROVE Fires(t)
    <3>1. runs'[t] # runs[t] => t \in DOMAIN poll[p].due
      <4>1. runs[t] \in Int
        BY <1>1 DEF Inv, CountsOK
      <4>2. t \notin DOMAIN poll[p].due => runs'[t] = runs[t] + 0
        BY <2>1 DEF PollCommit
      <4>3. QED
        BY <4>1, <4>2
    <3>2. ASSUME t \in DOMAIN poll[p].due PROVE t \in DOMAIN trig /\ IsDue(trig[t])
      <4>1. /\ t \in DOMAIN trig /\ trig[t].enabled /\ ~Fired(trig[t])
            /\ trig[t].runAt \in Int /\ trig[t].runAt <= poll[p].at
            /\ poll[p].at \in Nat /\ poll[p].at <= now /\ now \in Nat
        BY <1>1, <3>2 DEF Inv, LocksOK, RowsOK
      <4>2. QED
        BY <4>1 DEF IsDue
    <3>3. QED
      BY <3>1, <3>2
  <2>2. ASSUME NEW u \in Trigger, Create(u) PROVE Fires(t)
    BY <2>2 DEF Create, With
  <2>3. CASE UNCHANGED runs
    BY <2>3
  <2>4. QED
    BY <1>1, <2>1, <2>2, <2>3
    DEF Next, vars, Delete, EditRead, EditCommit, EditFails, PollBegin, PollAbort, Tick
<1>2. Inv /\ [Next]_vars => [\A t \in DOMAIN runs : Fires(t)]_vars
  BY <1>1
<1>3. QED
  BY <1>2, Invariance, PTL DEF Spec, FiresOnlyWhenDue

-----------------------------------------------------------------------------
(* Rescheduling *)

(* The loop of _reschedule ends at the first occurrence after the poll.  One function takes *)
(* every instant to where the loop leads from there, so the recursive definition has a      *)
(* solution; and whatever solution it is, an instant that were the last one from which it    *)
(* leads elsewhere would lead to a later one.                                               *)
LEMMA RescheduledIsNext ==
    ASSUME ShortShift, NEW at \in Int, NEW row, row.sched \in Schedule, Recurring(row.sched),
           row.runAt \in Int, row.runAt <= at
    PROVE  IsNext(Rescheduled(row, at), at, row.runAt, row.sched)
<1> DEFINE anchor == row.runAt
           next(c) == NextRun(c, anchor, row.sched)
           ends(c) == c = Unreachable \/ c > at
           Loop(f) == f = [c \in Int \cup {Unreachable} |-> IF ends(c) THEN c ELSE f[next(c)]]
           from == CHOOSE f : Loop(f)
           all == AllOccurrences(anchor, row.sched)
<1>1. PICK goal \in Int : IsNext(goal, at, anchor, row.sched)
  BY SomeNext
<1>2. \A c \in Int : next(c) \in Int \cup {Unreachable}
  BY NextRunType
<1>3. \A c \in Int : ~ends(next(c)) => next(c) \in all
  BY NextRunIsOccurrence
<1>4. \A c \in all \cup {anchor} : IsNext(next(c), c, anchor, row.sched)
  BY NextRunIsNext
<1>5. all \subseteq Int /\ anchor \in Int
  BY DEF AllOccurrences
<1>6. Rescheduled(row, at) = from[next(anchor)]
  BY DEF Rescheduled, Recurring
<1> HIDE DEF next, all
<1>7. ASSUME NEW c \in all \cup {anchor}, c <= at
      PROVE  /\ next(c) \in all /\ next(c) \in Int /\ c < next(c) /\ next(c) # Unreachable
             /\ next(c) > at => next(c) = goal
  <2>1. next(c) \in all /\ c < next(c) /\ \A o \in all : c < o => next(c) <= o
    BY <1>4, <1>7 DEF IsNext, all
  <2>2. goal \in all /\ at < goal /\ \A o \in all : at < o => goal <= o
    BY <1>1 DEF IsNext, all
  <2>3. next(c) \in Int /\ c \in Int
    BY <1>5, <2>1
  <2>4. next(c) <= goal
    BY <1>7, <2>1, <2>2, <2>3
  <2>5. next(c) > at => goal <= next(c)
    BY <2>1, <2>2, <2>3
  <2>6. QED
    BY <2>1, <2>3, <2>4, <2>5, UnreachableAssumption
<1>8. \E f : Loop(f)
  <2> DEFINE any == Int \cup {Unreachable}
             g == [c \in any |-> IF ends(c) THEN c ELSE IF ends(next(c)) THEN next(c) ELSE goal]
             h == [c \in any |-> IF ends(c) THEN c ELSE g[next(c)]]
  <2>1. ASSUME NEW c \in any, ~ends(c), ~ends(next(c))
        PROVE  g[next(c)] = goal
    <3> DEFINE e == next(c)
    <3>1. e \in all /\ e \in Int /\ e <= at
      BY <1>2, <1>3, <1>5, <2>1
    <3>2. next(e) > at => next(e) = goal
      BY <1>7, <3>1
    <3>3. next(e) # Unreachable
      BY <1>7, <3>1
    <3>4. g[e] = IF ends(e) THEN e ELSE IF ends(next(e)) THEN next(e) ELSE goal
      BY <3>1
    <3> HIDE DEF e, g
    <3>5. QED
      BY <2>1, <3>2, <3>3, <3>4 DEF e
  <2>2. ASSUME NEW c \in any
        PROVE  h[c] = g[c]
    <3>1. CASE ends(c)
      BY <3>1
    <3>2. CASE ~ends(c) /\ ends(next(c))
      <4>1. next(c) \in any
        BY <1>2, <3>2
      <4>2. QED
        BY <3>2, <4>1
    <3>3. CASE ~ends(c) /\ ~ends(next(c))
      BY <2>1, <3>3
    <3>4. QED
      BY <3>1, <3>2, <3>3
  <2>3. g = h
    <3>1. g = [c \in any |-> g[c]] /\ h = [c \in any |-> h[c]]
      OBVIOUS
    <3> HIDE DEF g, h
    <3>2. QED
      BY <2>2, <3>1
  <2> HIDE DEF g
  <2>4. Loop(g)
    BY <2>3
  <2>5. QED
    BY <2>4
<1>9. Loop(from)
  BY <1>8
<1>10. \A c \in Int \cup {Unreachable} : from[c] = IF ends(c) THEN c ELSE from[next(c)]
  <2> HIDE DEF from
  <2>1. QED
    BY <1>9
<1> HIDE DEF from
<1>11. from[anchor] = goal
  <2> DEFINE astray == {n \in Nat : at - n \in all \cup {anchor} /\ from[at - n] # goal}
  <2>1. SUFFICES ASSUME from[anchor] # goal PROVE FALSE
    OBVIOUS
  <2>2. at - anchor \in astray
    <3>1. at - anchor \in Nat /\ at - (at - anchor) = anchor
      BY <1>5
    <3>2. QED
      BY <2>1, <3>1
  <2>3. PICK n \in astray : \A m \in astray : n <= m
    BY <2>2, LeastNatural
  <2> DEFINE c == at - n
  <2>4. n \in Nat /\ c \in all \cup {anchor} /\ c \in Int /\ c <= at /\ from[c] # goal
    BY <2>3
  <2>5. next(c) \in all /\ next(c) \in Int /\ c < next(c) /\ next(c) # Unreachable
    BY <1>7, <2>4
  <2>6. from[next(c)] # goal
    BY <1>10, <2>4, UnreachableAssumption
  <2>7. ~(next(c) > at)
    BY <1>7, <1>10, <2>4, <2>5, <2>6
  <2>8. at - next(c) \in Nat /\ at - (at - next(c)) = next(c) /\ at - next(c) < n
    BY <2>4, <2>5, <2>7
  <2>9. at - next(c) \in astray
    BY <2>5, <2>6, <2>8
  <2>10. QED
    BY <2>3, <2>4, <2>8, <2>9
<1>12. from[anchor] = from[next(anchor)]
  <2>1. anchor \in Int /\ ~ends(anchor)
    BY UnreachableAssumption
  <2>2. QED
    BY <1>10, <2>1
<1>13. QED
  BY <1>1, <1>6, <1>11, <1>12

(* Whatever a poll has locked, the loop answers with a time. *)
LEMMA RescheduledType ==
    ASSUME ShortShift, NEW at \in Int, NEW row \in Row, row.runAt <= at
    PROVE  Rescheduled(row, at) \in Int
<1>1. row.sched \in Schedule /\ row.runAt \in Int
  BY DEF Row
<1>2. row.sched.repeat = "once" \/ Recurring(row.sched)
  BY <1>1 DEF Schedule, Recurring
<1>3. CASE row.sched.repeat = "once"
  BY <1>1, <1>3 DEF Rescheduled
<1>4. CASE Recurring(row.sched)
  BY <1>1, <1>4, RescheduledIsNext DEF IsNext, AllOccurrences
<1>5. QED
  BY <1>2, <1>3, <1>4

-----------------------------------------------------------------------------
(* The types *)

LEMMA InitTypes == Init => TypeOK
<1> SUFFICES ASSUME Init PROVE TypeOK
  OBVIOUS
<1>1. DOMAIN Nothing = {}
  BY DEF Nothing
<1>2. \A p \in Poller : poll[p].at = NoTime /\ poll[p].due = Nothing
  BY DEF Init
<1>3. \A e \in Editor : /\ edit[e].of = NULL /\ edit[e].columns = {}
                        /\ edit[e].want \in Wish
  <2>1. NoEdit.of = NULL /\ NoEdit.columns = {} /\ NoEdit.want \in Wish
    BY DEF NoEdit, NoTime, Wish
  <2>2. QED
    BY <2>1 DEF Init
<1>4. trig = Nothing /\ runs = Nothing /\ now \in Clock /\ edits = 0 /\ aborts = 0
  BY DEF Init
<1>5. QED
  BY <1>1, <1>2, <1>3, <1>4, BoundsAssumption DEF TypeOK

LEMMA CreateTypes ==
    ASSUME TypeOK, Inv, NEW t \in Trigger, Create(t)
    PROVE  TypeOK'
<1>1. PICK sched \in Schedules, requested \in Requests, enabled \in BOOLEAN :
         /\ FirstRun(requested, sched) # Unreachable
         /\ trig' = With(trig, t, [sched |-> sched, runAt |-> FirstRun(requested, sched),
                                   enabled |-> enabled, firedAt |-> NoTime])
  BY DEF Create
<1>2. FirstRun(requested, sched) \in Int /\ sched \in Schedule
  BY <1>1, FirstRunType, SchedulesAssumption, InstantsAssumption
<1>3. [sched |-> sched, runAt |-> FirstRun(requested, sched),
       enabled |-> enabled, firedAt |-> NoTime] \in Row
  BY <1>2 DEF Row, NoTime
<1>4. DOMAIN trig' = DOMAIN trig \cup {t} /\ \A x \in DOMAIN trig' : trig'[x] \in Row
  BY <1>1, <1>3 DEF With, TypeOK
<1>5. DOMAIN runs' = DOMAIN runs \cup {t} /\ \A x \in DOMAIN runs' : runs'[x] \in Nat
  BY DEF Create, With, TypeOK
<1>6. UNCHANGED <<now, poll, edit, edits, aborts>>
  BY DEF Create
<1>7. QED
  BY <1>4, <1>5, <1>6 DEF TypeOK

LEMMA EditReadTypes ==
    ASSUME TypeOK, Inv, NEW e \in Editor, NEW t \in Trigger, EditRead(e, t)
    PROVE  TypeOK'
<1>1. PICK want \in [enabled : BOOLEAN, runAt : Requests \cup {trig[t].runAt}] :
         LET changed == {c \in Columns : want[c] # trig[t][c]}
         IN edit' = [edit EXCEPT ![e] = [of |-> t, columns |-> changed, want |-> want]]
  BY DEF EditRead
<1>2. trig[t].runAt \in Int /\ Requests \subseteq Int
  BY InstantsAssumption DEF EditRead, TypeOK, Row
<1>3. want \in Wish
  BY <1>2 DEF Wish
<1>4. edit'[e].of = t /\ edit'[e].columns \subseteq Columns /\ edit'[e].want = want
  BY <1>1 DEF Inv
<1>5. \A x \in Editor : /\ edit'[x].of \in Trigger \cup {NULL}
                        /\ edit'[x].columns \subseteq Columns /\ edit'[x].want \in Wish
  BY <1>1, <1>3, <1>4 DEF Inv, TypeOK
<1>6. edits' \in 0..MaxEdits
  BY BoundsAssumption DEF EditRead, TypeOK
<1>7. UNCHANGED <<now, trig, runs, poll, aborts>>
  BY DEF EditRead
<1>8. QED
  BY <1>5, <1>6, <1>7 DEF TypeOK

(* An editor that has ended has the types of one that never began. *)
LEMMA EditEndsTypes ==
    ASSUME TypeOK, Inv, NEW e \in Editor, EditEnds(e)
    PROVE  \A x \in Editor : /\ edit'[x].of \in Trigger \cup {NULL}
                             /\ edit'[x].columns \subseteq Columns /\ edit'[x].want \in Wish
<1>1. /\ NoEdit.of \in Trigger \cup {NULL}
      /\ NoEdit.columns \subseteq Columns /\ NoEdit.want \in Wish
  BY DEF NoEdit, NoTime, Wish
<1>2. \A x \in Editor : edit'[x] = IF x = e THEN NoEdit ELSE edit[x]
  BY DEF EditEnds, Inv
<1>3. QED
  BY <1>1, <1>2 DEF TypeOK

LEMMA EditCommitTypes ==
    ASSUME TypeOK, Inv, NEW e \in Editor, EditCommit(e)
    PROVE  TypeOK'
<1> DEFINE of == edit[e].of
           columns == edit[e].columns
           want == edit[e].want
<1>1. trig[of] \in Row /\ want \in Wish
  BY DEF EditCommit, TypeOK
<1>2. Edited(trig[of], columns, want) \in Row
  BY <1>1 DEF Edited, Row, Wish
<1>3. DOMAIN trig' = DOMAIN trig /\ \A x \in DOMAIN trig' : trig'[x] \in Row
  BY <1>2 DEF EditCommit, TypeOK
<1>4. EditEnds(e) /\ UNCHANGED <<now, runs, poll, edits, aborts>>
  BY DEF EditCommit
<1>5. QED
  BY <1>3, <1>4, EditEndsTypes DEF TypeOK

LEMMA PollBeginTypes ==
    ASSUME TypeOK, Inv, NEW p \in Poller, PollBegin(p)
    PROVE  TypeOK'
<1>1. PICK rows \in SUBSET {t \in DOMAIN trig : IsDue(trig[t]) /\ ~Locked(t)} :
         poll' = [poll EXCEPT ![p] = [at |-> now, due |-> Restrict(trig, rows)]]
  BY DEF PollBegin
<1>2. /\ poll'[p].at = now /\ DOMAIN poll'[p].due = rows
      /\ \A t \in rows : poll'[p].due[t] = trig[t]
      /\ \A q \in Poller : q # p => poll'[q] = poll[q]
  BY <1>1 DEF Inv, Restrict
<1>3. \A q \in Poller :
         /\ poll'[q].at \in Clock \cup {NoTime}
         /\ \A t \in DOMAIN poll'[q].due : t \in Trigger /\ poll'[q].due[t] \in Row
  BY <1>1, <1>2 DEF TypeOK
<1>4. UNCHANGED <<now, trig, runs, edit, edits, aborts>>
  BY DEF PollBegin
<1>5. QED
  BY <1>3, <1>4 DEF TypeOK

LEMMA PollEndsTypes ==
    ASSUME TypeOK, Inv, NEW p \in Poller, PollEnds(p)
    PROVE  \A q \in Poller :
              /\ poll'[q].at \in Clock \cup {NoTime}
              /\ \A t \in DOMAIN poll'[q].due : t \in Trigger /\ poll'[q].due[t] \in Row
<1>1. DOMAIN poll'[p].due = {} /\ \A q \in Poller : q # p => poll'[q] = poll[q]
  BY PollEndsFacts
<1>2. poll'[p].at = NoTime
  BY DEF PollEnds, Inv
<1>3. QED
  BY <1>1, <1>2 DEF TypeOK

(* A row that is committed was locked, and was due when its poll read the clock. *)
LEMMA PollCommitTypes ==
    ASSUME ShortShift, TypeOK, Inv, NEW p \in Poller, PollCommit(p)
    PROVE  TypeOK'
<1> DEFINE due == poll[p].due
           at == poll[p].at
<1>1. \A t \in DOMAIN due : Rescheduled(due[t], at) \in Int /\ at \in Int
  <2> SUFFICES ASSUME NEW t \in DOMAIN due PROVE Rescheduled(due[t], at) \in Int /\ at \in Int
    OBVIOUS
  <2>1. due[t] \in Row
    BY DEF TypeOK
  <2>2. at \in Int /\ due[t].runAt <= at
    BY DEF Inv, LocksOK
  <2>3. QED
    BY <2>1, <2>2, RescheduledType
<1>2. /\ DOMAIN trig' = DOMAIN trig
      /\ \A t \in DOMAIN trig :
            trig'[t] = IF t \in DOMAIN due
                       THEN [trig[t] EXCEPT !.firedAt = at, !.runAt = Rescheduled(due[t], at)]
                       ELSE trig[t]
  BY DEF PollCommit
<1>3. \A t \in DOMAIN trig' : trig'[t] \in Row
  <2> SUFFICES ASSUME NEW t \in DOMAIN trig PROVE trig'[t] \in Row
    BY <1>2
  <2>1. trig[t] \in Row
    BY DEF TypeOK
  <2>2. CASE t \in DOMAIN due
    <3>1. trig'[t] = [trig[t] EXCEPT !.firedAt = at, !.runAt = Rescheduled(due[t], at)]
      BY <1>2, <2>2
    <3>2. Rescheduled(due[t], at) \in Int /\ at \in Int
      BY <1>1, <2>2
    <3>3. QED
      BY <2>1, <3>1, <3>2 DEF Row
  <2>3. CASE t \notin DOMAIN due
    BY <1>2, <2>1, <2>3
  <2>4. QED
    BY <2>2, <2>3
<1>4. DOMAIN runs' = DOMAIN runs /\ \A t \in DOMAIN runs' : runs'[t] \in Nat
  <2>1. /\ DOMAIN runs' = DOMAIN runs
        /\ \A t \in DOMAIN runs : runs'[t] = runs[t] + (IF t \in DOMAIN due THEN 1 ELSE 0)
    BY DEF PollCommit
  <2>2. \A t \in DOMAIN runs : runs[t] \in Nat
    BY DEF TypeOK
  <2>3. QED
    BY <2>1, <2>2
<1>5. PollEnds(p) /\ UNCHANGED <<now, edit, edits, aborts>>
  BY DEF PollCommit
<1>6. QED
  BY <1>2, <1>3, <1>4, <1>5, PollEndsTypes DEF TypeOK

LEMMA NextTypes ==
    ASSUME ShortShift
    PROVE  TypeOK /\ Inv /\ [Next]_vars => TypeOK'
<1> SUFFICES ASSUME TypeOK, Inv, [Next]_vars PROVE TypeOK'
  OBVIOUS
<1>1. ASSUME NEW t \in Trigger, Delete(t) PROVE TypeOK'
  BY <1>1 DEF Delete, Restrict, TypeOK
<1>2. ASSUME NEW e \in Editor, EditFails(e) PROVE TypeOK'
  BY <1>2, EditEndsTypes DEF EditFails, TypeOK
<1>3. ASSUME NEW p \in Poller, PollAbort(p) PROVE TypeOK'
  <2>1. aborts' \in 0..MaxAborts
    BY <1>3, BoundsAssumption DEF PollAbort, TypeOK
  <2>2. QED
    BY <1>3, <2>1, PollEndsTypes DEF PollAbort, TypeOK
<1>4. ASSUME Tick PROVE TypeOK'
  BY <1>4 DEF Tick, TypeOK
<1>5. CASE UNCHANGED vars
  BY <1>5 DEF vars, TypeOK
<1>6. QED
  BY <1>1, <1>2, <1>3, <1>4, <1>5, CreateTypes, EditReadTypes, EditCommitTypes, PollBeginTypes,
     PollCommitTypes DEF Next

(* Every row of triggers, selected or edited or rescheduled, stays a row: in particular, its *)
(* next_run_at is a time, however late the poll and whatever the zone.                       *)
THEOREM TypeCorrect ==
    ASSUME ShortShift
    PROVE  Spec => []TypeOK
BY InitTypes, NextTypes, Invariance, PTL DEF Spec

-----------------------------------------------------------------------------
(* Recurring triggers *)

(* No row that a poller has locked fails to be rescheduled: the assertion of the weekly scan *)
(* (scheduling.py:84) never rolls back the runs of the other rows.                           *)
THEOREM NoTriggerHoldsUpTheOthers ==
    ASSUME ShortShift
    PROVE  Spec => [](\A p \in Poller : \A t \in DOMAIN poll[p].due :
                         Rescheduled(poll[p].due[t], poll[p].at) # Unreachable)
<1> DEFINE Reschedulable == \A p \in Poller : \A t \in DOMAIN poll[p].due :
                               Rescheduled(poll[p].due[t], poll[p].at) # Unreachable
<1>1. TypeOK /\ Inv => Reschedulable
  <2> SUFFICES ASSUME TypeOK, Inv, NEW p \in Poller, NEW t \in DOMAIN poll[p].due
               PROVE  Rescheduled(poll[p].due[t], poll[p].at) # Unreachable
    OBVIOUS
  <2>1. poll[p].due[t] \in Row /\ poll[p].at \in Int /\ poll[p].due[t].runAt <= poll[p].at
    BY DEF TypeOK, Inv, LocksOK
  <2>2. QED
    BY <2>1, RescheduledType, UnreachableAssumption
<1>2. QED
  BY <1>1, TypeCorrect, Invariance, PTL

(* A new trigger is set to the first occurrence at or after the instant asked for. *)
THEOREM CreationFindsTheFirst ==
    ASSUME ShortShift
    PROVE  Spec => CreatedAtFirst
<1> DEFINE AtFirst(t) == \E requested \in Requests :
              LET all == Occurrences(requested, trig'[t].sched, 2)
              IN trig'[t].runAt = LeastOf({o \in all : o >= requested})
           AllAtFirst == \A t \in DOMAIN trig' \ DOMAIN trig : AtFirst(t)
<1>1. ASSUME Inv, [Next]_vars, NEW t \in DOMAIN trig' \ DOMAIN trig
      PROVE  AtFirst(t)
  <2>1. ASSUME NEW u \in Trigger, Create(u) PROVE AtFirst(t)
    <3>1. PICK sched \in Schedules, requested \in Requests, enabled \in BOOLEAN :
             trig' = With(trig, u, [sched |-> sched, runAt |-> FirstRun(requested, sched),
                                    enabled |-> enabled, firedAt |-> NoTime])
      BY <2>1 DEF Create
    <3>2. trig'[t].sched = sched /\ trig'[t].runAt = FirstRun(requested, sched)
      BY <3>1 DEF With
    <3>3. sched \in Schedule /\ requested \in Int
      BY SchedulesAssumption, InstantsAssumption
    <3>4. QED
      BY <3>2, <3>3, FirstRunIsFirst
  <2>2. ASSUME DOMAIN trig' \subseteq DOMAIN trig PROVE FALSE
    BY <2>2
  <2>3. QED
    BY <1>1, <2>1, <2>2
    DEF Next, vars, Delete, Restrict, EditRead, EditCommit, EditFails, PollBegin, PollCommit,
        PollAbort, Tick
<1>2. Inv /\ [Next]_vars => [AllAtFirst]_vars
  BY <1>1
<1>3. QED
  BY <1>2, Invariance, PTL DEF Spec, CreatedAtFirst

(* The span of a poll, in weeks, is covered by the weeks the property looks at. *)
LEMMA WeeksCover ==
    ASSUME NEW span \in Nat
    PROVE  \E weeks \in Nat : Weeks(span) = weeks + 1 /\ span <= DayLen * (7 * weeks)
<1> DEFINE week == 7 * DayLen
           q == span \div week
<1>1. week \in Nat \ {0} /\ DayLen \in Nat
  BY LengthsAssumption
<1>2. DayLen * (7 * (q + 1)) = week * (q + 1) /\ Weeks(span) = (q + 1) + 1
  <2>1. q \in Int
    BY <1>1
  <2> HIDE DEF q
  <2>2. DayLen * (7 * (q + 1)) = week * (q + 1)
    BY <1>1, <2>1
  <2>3. QED
    BY <2>1, <2>2 DEF Weeks, q
<1> HIDE DEF week
<1>3. q \in Nat /\ span % week \in 0 .. week - 1 /\ span = week * q + (span % week)
  <2>1. span \in Int
    OBVIOUS
  <2>2. q \in Nat
    BY <1>1
  <2>3. QED
    BY <1>1, <2>1, <2>2, Quotient
<1>4. week * (q + 1) = week * q + week /\ week * q \in Int
  BY <1>1, <1>3
<1> HIDE DEF q
<1>5. span <= week * (q + 1)
  BY <1>1, <1>3, <1>4
<1>6. q + 1 \in Nat
  BY <1>3
<1>7. QED
  BY <1>2, <1>5, <1>6

(* A recurring trigger that fires is set to its first occurrence after the poll. *)
THEOREM ReschedulingFindsTheNext ==
    ASSUME ShortShift
    PROVE  Spec => RescheduledToNext
<1> DEFINE ToNext(t) ==
              LET old == trig[t]
                  new == trig'[t]
                  all == Occurrences(old.runAt, old.sched, Weeks(new.firedAt - old.runAt))
              IN new.firedAt # old.firedAt /\ old.sched.repeat # "once"
                 => new.runAt = LeastOf({o \in all : o > new.firedAt})
           AllToNext == \A t \in DOMAIN trig \cap DOMAIN trig' : ToNext(t)
<1>1. ASSUME TypeOK, Inv, [Next]_vars, NEW t \in DOMAIN trig \cap DOMAIN trig'
      PROVE  ToNext(t)
  <2>1. ASSUME NEW p \in Poller, PollCommit(p), t \in DOMAIN poll[p].due,
               trig[t].sched.repeat # "once"
        PROVE  ToNext(t)
    <3> DEFINE row == poll[p].due[t]
               at == poll[p].at
    <3>1. /\ row = trig[t] /\ row \in Row
          /\ at \in Nat /\ row.runAt \in Int /\ row.runAt <= at
          /\ row.sched \in Schedule /\ Recurring(row.sched)
      BY <1>1, <2>1 DEF TypeOK, Inv, LocksOK, Row, Schedule, Recurring
    <3>2. trig'[t] = [trig[t] EXCEPT !.firedAt = at, !.runAt = Rescheduled(row, at)]
      BY <1>1, <2>1 DEF PollCommit
    <3>3. trig'[t].firedAt = at /\ trig'[t].runAt = Rescheduled(row, at)
      BY <3>1, <3>2 DEF Row
    <3>4. IsNext(Rescheduled(row, at), at, row.runAt, row.sched)
      BY <3>1, RescheduledIsNext
    <3> DEFINE span == at - row.runAt
    <3>5. PICK weeks \in Nat : Weeks(span) = weeks + 1 /\ span <= DayLen * (7 * weeks)
      <4>1. span \in Nat
        BY <3>1
      <4>2. QED
        BY <4>1, WeeksCover
    <3>6. at <= row.runAt + DayLen * (7 * weeks)
      <4>1. DayLen * (7 * weeks) \in Int
        BY LengthsAssumption
      <4>2. QED
        BY <3>1, <3>5, <4>1
    <3>7. Rescheduled(row, at)
            = LeastOf({o \in Occurrences(row.runAt, row.sched, weeks + 1) : o > at})
      BY <3>1, <3>4, <3>6, NextIsLeast
    <3>8. QED
      BY <3>1, <3>3, <3>5, <3>7
  <2>2. ASSUME trig'[t].firedAt = trig[t].firedAt PROVE ToNext(t)
    BY <2>2
  <2>3. ASSUME NEW p \in Poller, PollCommit(p), t \notin DOMAIN poll[p].due
        PROVE  trig'[t].firedAt = trig[t].firedAt
    BY <1>1, <2>3 DEF PollCommit
  <2>4. ASSUME NEW e \in Editor, EditCommit(e) PROVE trig'[t].firedAt = trig[t].firedAt
    <3>1. trig[t] \in Row
      BY <1>1 DEF TypeOK
    <3>2. QED
      BY <1>1, <2>4, <3>1 DEF EditCommit, Edited, Row
  <2>5. ASSUME NEW u \in Trigger, Create(u) PROVE trig'[t].firedAt = trig[t].firedAt
    <3>1. u \notin DOMAIN trig
      BY <1>1, <2>5 DEF Create, Inv, RowsOK
    <3>2. QED
      BY <1>1, <2>5, <3>1 DEF Create, With
  <2>6. ASSUME NEW u \in Trigger, Delete(u) PROVE trig'[t].firedAt = trig[t].firedAt
    BY <1>1, <2>6 DEF Delete, Restrict
  <2>7. ASSUME UNCHANGED trig PROVE trig'[t].firedAt = trig[t].firedAt
    BY <2>7
  <2>8. QED
    BY <1>1, <2>1, <2>2, <2>3, <2>4, <2>5, <2>6, <2>7
    DEF Next, vars, EditRead, EditFails, PollBegin, PollAbort, Tick
<1>2. TypeOK /\ Inv /\ [Next]_vars => [AllToNext]_vars
  BY <1>1
<1>3. QED
  BY <1>2, TypeCorrect, Invariance, PTL DEF Spec, RescheduledToNext
=============================================================================
