----------------------------- MODULE WorkQueue -----------------------------
(***************************************************************************)
(* One transactional queue of smithy-cloud (routes/queues.py) as the       *)
(* PostgreSQL rows that its handlers read and write.                       *)
(*                                                                         *)
(* Every HTTP request runs in its own READ COMMITTED transaction.  A claim *)
(* locks the rows it changes, so its commit is one step; it reads the      *)
(* clock and the run row before that.  Heartbeat and complete load the     *)
(* item WITHOUT a row lock, decide, and write by primary key when they     *)
(* commit: they are two steps, and any other commit may come in between.   *)
(***************************************************************************)
EXTENDS Integers

CONSTANTS
    Runs,         \* rows of process_runs whose scripts use the queue
    Handlers,     \* requests that the orchestrator serves at the same time
    MaxItems,     \* items are numbered in (created_at, id) order
    MaxAttempts,  \* Queue.max_attempts
    Leases,       \* values of lease_seconds that clients ask for
    MaxTime,      \* bound on the clock
    NoRun         \* NULL in queue_items.run_id

ASSUME RunsAssumption == NoRun \notin Runs
ASSUME ItemsAssumption == MaxItems \in Nat \ {0}
ASSUME AttemptsAssumption == MaxAttempts \in Nat \ {0}   \* schemas.py: ge=1
ASSUME LeasesAssumption == Leases \subseteq Nat \ {0}    \* schemas.py: ge=1
ASSUME TimeAssumption == MaxTime \in Nat

VARIABLES
    now,    \* the wall clock
    queue,  \* whether the row of the queue exists
    runs,   \* the rows of process_runs that exist
    item,   \* the rows of queue_items
    req     \* the request that each handler is serving

vars == <<now, queue, runs, item, req>>

-----------------------------------------------------------------------------
(* Rows and requests *)

Items == 1..MaxItems
NoLease == -1      \* NULL in queue_items.lease_expires_at

Outcomes == {"success", "business_failed", "system_failed"}

\* "absent": not inserted yet; "gone": deleted together with its queue.
Statuses == {"absent", "new", "in_progress", "gone"} \cup Outcomes

Item == [status : Statuses,
         run : Runs \cup {NoRun},
         lease : Nat \cup {NoLease},
         attempts : Nat]

\* run: body.run_id; at: the clock as the handler read it; lease: body.lease_seconds;
\* outcome: body.status; seen: item.attempts as loaded.
Request == [op : {"idle", "claim", "heartbeat", "complete"},
            run : Runs \cup {NoRun},
            item : Items \cup {0},
            at : Nat,
            lease : Nat,
            outcome : Outcomes \cup {"none"},
            seen : Nat]

Idle == [op |-> "idle", run |-> NoRun, item |-> 0, at |-> 0,
         lease |-> 0, outcome |-> "none", seen |-> 0]

\* The column defaults; an insert only has to make the row visible.
AbsentRow == [status |-> "absent", run |-> NoRun, lease |-> NoLease, attempts |-> 0]

TypeOK ==
    /\ now \in Nat
    /\ queue \in BOOLEAN
    /\ runs \subseteq Runs
    /\ item \in [Items -> Item]
    /\ req \in [Handlers -> Request]

Init ==
    /\ now = 0
    /\ queue = TRUE
    /\ runs = Runs
    /\ item = [i \in Items |-> AbsentRow]
    /\ req = [h \in Handlers |-> Idle]

-----------------------------------------------------------------------------
(* POST /queues/{name}/items: the commit makes a batch of rows visible.    *)
(* DELETE /queues/{name}: the items cascade.                               *)

AddItems(last) ==
    /\ queue
    /\ item[last].status = "absent"
    /\ item' = [i \in Items |->
                  IF i <= last /\ item[i].status = "absent" THEN [item[i] EXCEPT !.status = "new"]
                                                           ELSE item[i]]
    /\ UNCHANGED <<now, queue, runs, req>>

DeleteQueue ==
    /\ queue
    /\ queue' = FALSE
    /\ item' = [i \in Items |-> [item[i] EXCEPT !.status = "gone"]]
    /\ UNCHANGED <<now, runs, req>>

-----------------------------------------------------------------------------
(* POST /agents/{id}/queues/{name}/claim *)

\* The checks before the first write: the queue and the run exist; the clock is read.
ClaimBegin(h, r, l) ==
    /\ req[h] = Idle
    /\ queue
    /\ r \in runs
    /\ req' = [req EXCEPT ![h] = [Idle EXCEPT !.op = "claim", !.run = r,
                                              !.at = now, !.lease = l]]
    /\ UNCHANGED <<now, queue, runs, item>>

\* Mutants of Expired: the comparison is off by one; the sweep forgets rows whose run is gone.
ExpiredTooEarly(row, at) ==
    row.status = "in_progress" /\ row.lease # NoLease /\ row.lease <= at
ExpiredIfOwned(row, at) ==
    row.status = "in_progress" /\ row.run # NoRun /\ row.lease < at

Expired(row, at) ==
    row.status = "in_progress" /\ row.lease # NoLease /\ row.lease < at

\* Mutant of Requeued: an item that goes back gets its attempt refunded.
RequeuedWithRefund(row) ==
    [row EXCEPT !.status = "new", !.run = NoRun, !.lease = NoLease, !.attempts = @ - 1]

Requeued(row) == [row EXCEPT !.status = "new", !.run = NoRun, !.lease = NoLease]

\* The bulk UPDATE that returns every expired item of the queue.
Swept(at) == [i \in Items |-> IF Expired(item[i], at) THEN Requeued(item[i]) ELSE item[i]]

\* Mutant of Claimed: the lease is left to the first heartbeat.
ClaimedWithoutLease(row, r, expiresAt) ==
    [row EXCEPT !.status = "in_progress", !.run = r, !.attempts = @ + 1]

Claimed(row, r, expiresAt) ==
    [row EXCEPT !.status = "in_progress", !.run = r,
                !.attempts = @ + 1, !.lease = expiresAt]

\* SKIP LOCKED passes over a row that another open transaction has written.
MayBeLocked(h, i) ==
    \E g \in Handlers \ {h} : \/ req[g].op = "claim"
                              \/ req[g].op \in {"heartbeat", "complete"} /\ req[g].item = i

\* Mutant of Candidates: failed items are taken up again.
CandidatesAndFailures(h, rows) ==
    {i \in Items : rows[i].status \in {"new", "system_failed", "business_failed"}}

\* The rows that SELECT .. ORDER BY created_at, id FOR UPDATE SKIP LOCKED LIMIT 1 may return.
Candidates(h, rows) ==
    {i \in Items : /\ rows[i].status = "new"
                   /\ \A j \in Items : j < i /\ rows[j].status = "new" => MayBeLocked(h, j)}

\* Mutant of ForeignKey: the column is a plain UUID.
ForeignKeyUnchecked(r) == TRUE

\* The constraint on queue_items.run_id, which the UPDATE checks once more.
ForeignKey(r) == r \in runs

ClaimItem(h, i) ==
    /\ req[h].op = "claim"
    /\ ForeignKey(req[h].run)
    /\ LET rows == Swept(req[h].at) IN
         /\ i \in Candidates(h, rows)
         /\ item' = [rows EXCEPT ![i] = Claimed(rows[i], req[h].run, req[h].at + req[h].lease)]
    /\ req' = [req EXCEPT ![h] = Idle]
    /\ UNCHANGED <<now, queue, runs>>

\* item=None: only the sweep is committed.
ClaimNothing(h) ==
    /\ req[h].op = "claim"
    /\ LET rows == Swept(req[h].at) IN
         /\ \A i \in Items : rows[i].status = "new" => MayBeLocked(h, i)
         /\ item' = rows
    /\ req' = [req EXCEPT ![h] = Idle]
    /\ UNCHANGED <<now, queue, runs>>

-----------------------------------------------------------------------------
(* PATCH /agents/{id}/queue-items/{item_id}[/heartbeat] *)

\* The 409 check of both handlers, on the row as loaded.
OwnedBy(row, r) == row.status = "in_progress" /\ row.run = r

HeartbeatRead(h, r, i, l) ==
    /\ req[h] = Idle
    /\ OwnedBy(item[i], r)
    /\ req' = [req EXCEPT ![h] = [Idle EXCEPT !.op = "heartbeat", !.run = r,
                                  !.item = i, !.at = now, !.lease = l]]
    /\ UNCHANGED <<now, queue, runs, item>>

\* UPDATE queue_items SET lease_expires_at WHERE id: no other column, no other condition.
HeartbeatCommit(h) ==
    /\ req[h].op = "heartbeat"
    /\ item[req[h].item].status # "gone"
    /\ item' = [item EXCEPT ![req[h].item].lease = req[h].at + req[h].lease]
    /\ req' = [req EXCEPT ![h] = Idle]
    /\ UNCHANGED <<now, queue, runs>>

CompleteRead(h, r, i, outcome) ==
    /\ req[h] = Idle
    /\ OwnedBy(item[i], r)
    /\ req' = [req EXCEPT ![h] = [Idle EXCEPT !.op = "complete", !.run = r, !.item = i,
                                  !.outcome = outcome, !.seen = item[i].attempts]]
    /\ UNCHANGED <<now, queue, runs, item>>

\* Mutant of Retryable: the last attempt is not granted.
RetryableTooFew(q) == q.outcome = "system_failed" /\ q.seen + 1 < MaxAttempts

Retryable(q) == q.outcome = "system_failed" /\ q.seen < MaxAttempts

\* run_id and lease_expires_at are written only when the item goes back.
Completed(row, q) ==
    IF Retryable(q) THEN Requeued(row) ELSE [row EXCEPT !.status = q.outcome]

CompleteCommit(h) ==
    /\ req[h].op = "complete"
    /\ item[req[h].item].status # "gone"
    /\ item' = [item EXCEPT ![req[h].item] = Completed(item[req[h].item], req[h])]
    /\ req' = [req EXCEPT ![h] = Idle]
    /\ UNCHANGED <<now, queue, runs>>

-----------------------------------------------------------------------------
(* The environment of the requests *)

\* A request ends without a commit: an error response (the row or the run vanished),
\* a lost database connection, a crash of the orchestrator.
Rollback(h) ==
    /\ req[h] # Idle
    /\ req' = [req EXCEPT ![h] = Idle]
    /\ UNCHANGED <<now, queue, runs, item>>

\* Deleting a process or an agent cascades to its runs; run_id is SET NULL.
DeleteRun(r) ==
    /\ r \in runs
    /\ runs' = runs \ {r}
    /\ item' = [i \in Items |-> IF item[i].run = r THEN [item[i] EXCEPT !.run = NoRun]
                                                  ELSE item[i]]
    /\ UNCHANGED <<now, queue, req>>

Tick ==
    /\ now < MaxTime
    /\ now' = now + 1
    /\ UNCHANGED <<queue, runs, item, req>>

Begin(h) ==
    \E r \in Runs :
        \/ \E l \in Leases : ClaimBegin(h, r, l)
        \/ \E i \in Items, l \in Leases : HeartbeatRead(h, r, i, l)
        \/ \E i \in Items, o \in Outcomes : CompleteRead(h, r, i, o)

Claim(h) == ClaimNothing(h) \/ \E i \in Items : ClaimItem(h, i)

Finish(h) == Claim(h) \/ HeartbeatCommit(h) \/ CompleteCommit(h)

Next ==
    \/ \E last \in Items : AddItems(last)
    \/ DeleteQueue
    \/ \E h \in Handlers : Begin(h) \/ Finish(h) \/ Rollback(h)
    \/ \E r \in Runs : DeleteRun(r)
    \/ Tick

Spec == Init /\ [][Next]_vars

\* The clock advances; nothing else is assumed of anybody.
FairSpec == Spec /\ WF_vars(Tick)

-----------------------------------------------------------------------------
(* What the queue promises *)

\* The sweep only looks at rows with a lease, so an item in progress without one would never
\* come back.  No interleaving of unlocked heartbeats, completions and claims produces one.
InProgressHasLease ==
    \A i \in Items : item[i].status = "in_progress" => item[i].lease # NoLease

\* "system_failed" is final only when the retry budget is spent, even though complete
\* decides on the attempts it read before other requests moved the item on.
SystemFailedIsExhausted ==
    \A i \in Items : item[i].status = "system_failed" => item[i].attempts >= MaxAttempts

\* No row refers to a deleted run: claim checks that the run exists long before it writes.
OwnersExist ==
    \A i \in Items : item[i].run # NoRun => item[i].run \in runs

\* A claim takes nothing from a holder whose lease still stands: neither the sweep, with the
\* clock that the handler read earlier, nor the selection touches such an item.
LeaseIsRespected ==
    [][\A h \in Handlers : Claim(h) =>
          \A i \in Items : item[i].status = "in_progress" /\ item[i].lease >= now
                             => item'[i] = item[i]]_vars

\* While claims keep being served, no item is stranded with a holder that has died: an item
\* in progress whose lease can lapse is taken away, completed, or its lease moves on.
StrandedItemsComeBack ==
    []<><<\E h \in Handlers : Claim(h)>>_vars =>
        \A i \in Items, l \in 0..MaxTime-1 :
            (item[i].status = "in_progress" /\ item[i].lease = l) ~>
                ~(item[i].status = "in_progress" /\ item[i].lease = l)

\* What a status means to those who work on the item.
Stage(status) ==
    CASE status = "new" -> "available"
      [] status = "in_progress" -> "held"
      [] status \in Outcomes -> "done"
      [] OTHER -> status

Ledger == INSTANCE WorkLedger WITH state <- [i \in Items |-> Stage(item[i].status)],
                                   tries <- [i \in Items |-> item[i].attempts]

\* The rows keep the promises of a work ledger, whatever requests overlap: no claim hands out
\* an item that another one holds without taking it back first, every hand-out is counted as
\* an attempt, and a late completion moves no item that nobody has claimed, nor one of a
\* deleted queue.
ImplementsLedger == Ledger!Spec

\* What the documentation says and the code does not keep.

\* "test_success_and_business_failed_are_terminal" (complete_queue_item)
SuccessIsTerminal ==
    [][\A i \in Items : item[i].status \in {"success", "business_failed"}
                         => item'[i].status \in {item[i].status, "gone"}]_vars
=============================================================================
