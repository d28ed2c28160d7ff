-------------------------- MODULE WorkQueueProofs --------------------------
(***************************************************************************)
(* What WorkQueue keeps for every set of runs and handlers, every number   *)
(* of items, every retry budget and every bound on the clock.              *)
(***************************************************************************)
EXTENDS WorkQueue, TLAPS

(* What a handler remembers between its two steps stays true of the world  *)
(* in one direction only: the clock it read is past, and the attempts it   *)
(* loaded can only have grown.                                             *)
RequestsOK ==
    \A h \in Handlers :
        /\ req[h].at <= now
        /\ req[h].op \in {"heartbeat", "complete"} => req[h].item \in Items
        /\ req[h].op = "complete" =>
              /\ req[h].outcome \in Outcomes
              /\ req[h].seen <= item[req[h].item].attempts

Inv ==
    /\ TypeOK
    /\ RequestsOK
    /\ InProgressHasLease
    /\ SystemFailedIsExhausted
    /\ OwnersExist

(* What the last three say of a single row, when rs are the runs that exist. *)
RowOK(row, rs) ==
    /\ row.status = "in_progress" => row.lease # NoLease
    /\ row.status = "system_failed" => row.attempts >= MaxAttempts
    /\ row.run # NoRun => row.run \in rs

(* The row and request invariants, read off Inv for later use. *)
LEMMA InvFacts ==
    ASSUME Inv
    PROVE  /\ now \in Nat /\ queue \in BOOLEAN /\ runs \subseteq Runs
           /\ item \in [Items -> Item] /\ req \in [Handlers -> Request]
           /\ \A i \in Items : /\ item[i] \in Item /\ RowOK(item[i], runs)
                               /\ item[i].attempts \in Nat /\ item[i].lease \in Int
           /\ \A h \in Handlers : /\ req[h].at \in Nat /\ req[h].lease \in Nat
                                  /\ req[h].seen \in Nat
<1>1. \A i \in Items : RowOK(item[i], runs)
  BY DEF Inv, RowOK, InProgressHasLease, SystemFailedIsExhausted, OwnersExist
<1>2. QED
  BY <1>1 DEF Inv, TypeOK, Item, Request, NoLease

-----------------------------------------------------------------------------
(* Rows *)

(* Sending an item back keeps the row well typed and its attempts. *)
LEMMA RequeuedRow ==
    ASSUME NEW row \in Item, NEW rs
    PROVE  /\ Requeued(row) \in Item /\ RowOK(Requeued(row), rs)
           /\ Requeued(row).attempts = row.attempts /\ Requeued(row).status = "new"
<1>1. "new" \in Statuses
  BY DEF Statuses
<1>2. QED
  BY <1>1 DEF Item, Requeued, RowOK

(* A claim keeps the row well typed, gives it a lease, and adds an attempt. *)
LEMMA ClaimedRow ==
    ASSUME NEW row \in Item, NEW rs \in SUBSET Runs, NEW r \in rs, NEW l \in Nat
    PROVE  /\ Claimed(row, r, l) \in Item /\ RowOK(Claimed(row, r, l), rs)
           /\ Claimed(row, r, l).attempts = row.attempts + 1
<1>1. "in_progress" \in Statuses
  BY DEF Statuses
<1>2. row.attempts + 1 \in Nat
  BY DEF Item
<1>3. /\ Claimed(row, r, l) \in Item
      /\ Claimed(row, r, l).status = "in_progress" /\ Claimed(row, r, l).run = r
      /\ Claimed(row, r, l).lease = l /\ Claimed(row, r, l).attempts = row.attempts + 1
  BY <1>1, <1>2 DEF Item, Claimed
<1>4. QED
  BY <1>3 DEF RowOK, NoLease

(* The writes that insert a row, and that delete it with its queue. *)
LEMMA RelabelledRow ==
    ASSUME NEW row \in Item, NEW rs, RowOK(row, rs), NEW s \in {"new", "gone"}
    PROVE  /\ [row EXCEPT !.status = s] \in Item
           /\ RowOK([row EXCEPT !.status = s], rs)
           /\ [row EXCEPT !.status = s].attempts = row.attempts
<1>1. {"new", "gone"} \subseteq Statuses
  BY DEF Statuses
<1>2. QED
  BY <1>1 DEF Item, RowOK

(* ON DELETE SET NULL: detaching a row from its run. *)
LEMMA DetachedRow ==
    ASSUME NEW row \in Item, NEW rs, RowOK(row, rs), NEW ss
    PROVE  /\ [row EXCEPT !.run = NoRun] \in Item
           /\ RowOK([row EXCEPT !.run = NoRun], ss)
           /\ [row EXCEPT !.run = NoRun].attempts = row.attempts
  BY DEF Item, RowOK

(* The sweep changes expired rows only, and keeps what is promised of each row. *)
LEMMA SweptRows ==
    ASSUME Inv, NEW at \in Nat
    PROVE  /\ Swept(at) \in [Items -> Item]
           /\ \A i \in Items :
                 /\ RowOK(Swept(at)[i], runs)
                 /\ Swept(at)[i].attempts = item[i].attempts
                 /\ item[i].status = "in_progress" /\ item[i].lease >= at
                       => Swept(at)[i] = item[i]
<1>1. \A i \in Items : Swept(at)[i] = item[i] \/ Swept(at)[i] = Requeued(item[i])
  BY DEF Swept
<1>2. \A i \in Items : item[i].lease >= at => Swept(at)[i] = item[i]
  BY InvFacts DEF Swept, Expired
<1>3. Swept(at) \in [Items -> Item]
  BY InvFacts, RequeuedRow DEF Swept
<1>4. QED
  BY <1>1, <1>2, <1>3, InvFacts, RequeuedRow

-----------------------------------------------------------------------------
(* Steps *)

(* The invariant holds at first. *)
LEMMA InitInv == Init => Inv
  BY ItemsAssumption DEF Init, Inv, TypeOK, RequestsOK, InProgressHasLease,
     SystemFailedIsExhausted, OwnersExist, Idle, AbsentRow, Item, Request, Statuses,
     NoLease

(* A handler may start any request that remembers only what is true now. *)
LEMMA NewRequestInv ==
    ASSUME Inv, NEW h \in Handlers, NEW q \in Request,
           q.at <= now,
           q.op \in {"heartbeat", "complete"} => q.item \in Items,
           q.op = "complete" => /\ q.outcome \in Outcomes
                                /\ q.seen <= item[q.item].attempts,
           req' = [req EXCEPT ![h] = q],
           UNCHANGED <<now, queue, runs, item>>
    PROVE  Inv'
<1>1. TypeOK'
  BY DEF Inv, TypeOK
<1>2. RequestsOK'
  BY DEF Inv, TypeOK, RequestsOK
<1>3. InProgressHasLease' /\ SystemFailedIsExhausted' /\ OwnersExist'
  BY DEF Inv, InProgressHasLease, SystemFailedIsExhausted, OwnersExist
<1>4. QED
  BY <1>1, <1>2, <1>3 DEF Inv

(* A step may leave any rows that keep their attempts and are right one by one, provided     *)
(* that it starts no request.                                                                *)
LEMMA RowStepInv ==
    ASSUME Inv,
           (\E h \in Handlers : req' = [req EXCEPT ![h] = Idle]) \/ req' = req,
           now' = now, queue' \in BOOLEAN, runs' \subseteq runs,
           item' \in [Items -> Item],
           \A i \in Items : item'[i].attempts >= item[i].attempts /\ RowOK(item'[i], runs')
    PROVE  Inv'
<1>1. Idle \in Request /\ Idle.at = 0 /\ Idle.op = "idle"
  BY DEF Idle, Request
<1>2. /\ TypeOK'
      /\ \A g \in Handlers : req'[g] = Idle \/ req'[g] = req[g]
  BY <1>1 DEF Inv, TypeOK
<1>3. RequestsOK'
  <2> SUFFICES ASSUME NEW g \in Handlers
               PROVE  /\ req'[g].at <= now'
                      /\ req'[g].op \in {"heartbeat", "complete"} => req'[g].item \in Items
                      /\ req'[g].op = "complete" =>
                            /\ req'[g].outcome \in Outcomes
                            /\ req'[g].seen <= item'[req'[g].item].attempts
    BY DEF RequestsOK
  <2>1. CASE req'[g] = Idle
    BY <1>1, <2>1, InvFacts
  <2>2. CASE req'[g] = req[g]
    <3>1. /\ req[g].at <= now
          /\ req[g].op \in {"heartbeat", "complete"} => req[g].item \in Items
          /\ req[g].op = "complete" =>
                /\ req[g].outcome \in Outcomes
                /\ req[g].seen <= item[req[g].item].attempts
      BY DEF Inv, RequestsOK
    <3>2. \A i \in Items : item'[i].attempts \in Nat
      BY DEF Item
    <3>3. QED
      BY <2>2, <3>1, <3>2, InvFacts
  <2>3. QED
    BY <1>2, <2>1, <2>2
<1>4. InProgressHasLease' /\ SystemFailedIsExhausted' /\ OwnersExist'
  BY DEF InProgressHasLease, SystemFailedIsExhausted, OwnersExist, RowOK
<1>5. QED
  BY <1>2, <1>3, <1>4 DEF Inv

(* Each of the three requests, when a handler starts it. *)
LEMMA BeginInv ==
    ASSUME Inv, NEW h \in Handlers, Begin(h)
    PROVE  Inv'
<1>1. PICK r \in Runs :
        \/ \E l \in Leases : ClaimBegin(h, r, l)
        \/ \E i \in Items, l \in Leases : HeartbeatRead(h, r, i, l)
        \/ \E i \in Items, o \in Outcomes : CompleteRead(h, r, i, o)
  BY DEF Begin
<1>2. now \in Nat /\ Leases \subseteq Nat
  BY LeasesAssumption, InvFacts
<1>3. ASSUME NEW l \in Leases, ClaimBegin(h, r, l)
      PROVE  Inv'
  <2> DEFINE q == [Idle EXCEPT !.op = "claim", !.run = r, !.at = now, !.lease = l]
  <2>1. q \in Request /\ q.at = now /\ q.op = "claim"
    BY <1>2 DEF Request, Idle
  <2>2. req' = [req EXCEPT ![h] = q] /\ UNCHANGED <<now, queue, runs, item>>
    BY <1>3 DEF ClaimBegin
  <2> HIDE DEF q
  <2>3. q.at <= now /\ q.op \notin {"heartbeat", "complete"}
    BY <1>2, <2>1
  <2>4. QED
    BY <2>1, <2>2, <2>3, NewRequestInv
<1>4. ASSUME NEW i \in Items, NEW l \in Leases, HeartbeatRead(h, r, i, l)
      PROVE  Inv'
  <2> DEFINE q == [Idle EXCEPT !.op = "heartbeat", !.run = r,
                               !.item = i, !.at = now, !.lease = l]
  <2>1. q \in Request /\ q.at = now /\ q.op = "heartbeat" /\ q.item = i
    BY <1>2 DEF Request, Idle
  <2>2. req' = [req EXCEPT ![h] = q] /\ UNCHANGED <<now, queue, runs, item>>
    BY <1>4 DEF HeartbeatRead
  <2> HIDE DEF q
  <2>3. q.at <= now /\ q.item \in Items /\ q.op # "complete"
    BY <1>2, <2>1
  <2>4. QED
    BY <2>1, <2>2, <2>3, NewRequestInv
<1>5. ASSUME NEW i \in Items, NEW o \in Outcomes, CompleteRead(h, r, i, o)
      PROVE  Inv'
  <2> DEFINE q == [Idle EXCEPT !.op = "complete", !.run = r, !.item = i,
                               !.outcome = o, !.seen = item[i].attempts]
  <2>1. item[i].attempts \in Nat
    BY InvFacts
  <2>2. /\ q \in Request /\ q.at = 0 /\ q.op = "complete" /\ q.item = i
        /\ q.outcome = o /\ q.seen = item[i].attempts
    BY <2>1 DEF Request, Idle
  <2>3. req' = [req EXCEPT ![h] = q] /\ UNCHANGED <<now, queue, runs, item>>
    BY <1>5 DEF CompleteRead
  <2> HIDE DEF q
  <2>4. q.at <= now /\ q.item \in Items /\ q.outcome \in Outcomes
        /\ q.seen <= item[q.item].attempts
    BY <1>2, <2>1, <2>2
  <2>5. QED
    BY <2>2, <2>3, <2>4, NewRequestInv
<1>6. QED
  BY <1>1, <1>3, <1>4, <1>5

(* A claim sweeps, then takes one of the new rows or none. *)
LEMMA ClaimInv ==
    ASSUME Inv, NEW h \in Handlers, Claim(h)
    PROVE  Inv'
<1> DEFINE rows == Swept(req[h].at)
<1>1. req[h].at \in Nat /\ req[h].lease \in Nat /\ req[h].at + req[h].lease \in Nat
  BY InvFacts
<1>2. /\ rows \in [Items -> Item]
      /\ \A i \in Items : rows[i].attempts = item[i].attempts /\ RowOK(rows[i], runs)
  BY <1>1, SweptRows
<1>3. /\ queue \in BOOLEAN /\ runs \in SUBSET Runs
      /\ \A i \in Items : item[i].attempts \in Nat
  BY InvFacts
<1>4. ASSUME ClaimNothing(h)
      PROVE  Inv'
  <2>1. item' = rows /\ req' = [req EXCEPT ![h] = Idle] /\ UNCHANGED <<now, queue, runs>>
    BY <1>4 DEF ClaimNothing
  <2> HIDE DEF rows
  <2>2. \A i \in Items : item'[i].attempts >= item[i].attempts /\ RowOK(item'[i], runs')
    BY <1>2, <1>3, <2>1
  <2>3. QED
    BY <1>2, <1>3, <2>1, <2>2, RowStepInv
<1>5. ASSUME NEW i \in Items, ClaimItem(h, i)
      PROVE  Inv'
  <2> DEFINE row == Claimed(rows[i], req[h].run, req[h].at + req[h].lease)
  <2>1. /\ item' = [rows EXCEPT ![i] = row]
        /\ req' = [req EXCEPT ![h] = Idle] /\ UNCHANGED <<now, queue, runs>>
        /\ req[h].run \in runs
    BY <1>5 DEF ClaimItem, ForeignKey
  <2>2. row \in Item /\ row.attempts = rows[i].attempts + 1 /\ RowOK(row, runs)
    BY <1>1, <1>2, <1>3, <2>1, ClaimedRow
  <2> HIDE DEF rows, row
  <2>3. item' \in [Items -> Item]
    BY <1>2, <2>1, <2>2
  <2>4. \A j \in Items : item'[j].attempts >= item[j].attempts /\ RowOK(item'[j], runs')
    BY <1>2, <1>3, <2>1, <2>2
  <2>5. QED
    BY <1>3, <2>1, <2>3, <2>4, RowStepInv
<1>6. QED
  BY <1>4, <1>5 DEF Claim

(* A heartbeat always writes a lease, whatever has become of the row. *)
LEMMA HeartbeatInv ==
    ASSUME Inv, NEW h \in Handlers, HeartbeatCommit(h)
    PROVE  Inv'
<1> DEFINE k == req[h].item
<1>1. k \in Items /\ req[h].at + req[h].lease \in Nat
  BY InvFacts DEF Inv, RequestsOK, HeartbeatCommit
<1>2. /\ item' = [item EXCEPT ![k] = [item[k] EXCEPT !.lease = req[h].at + req[h].lease]]
      /\ req' = [req EXCEPT ![h] = Idle] /\ UNCHANGED <<now, queue, runs>>
  BY <1>1, InvFacts DEF HeartbeatCommit
<1>3. ASSUME NEW row \in Item, NEW l \in Nat, RowOK(row, runs)
      PROVE  /\ [row EXCEPT !.lease = l] \in Item /\ RowOK([row EXCEPT !.lease = l], runs)
             /\ [row EXCEPT !.lease = l].attempts = row.attempts
  BY <1>3 DEF Item, RowOK, NoLease
<1>4. item' \in [Items -> Item]
  BY <1>1, <1>2, <1>3, InvFacts
<1>5. \A j \in Items : item'[j].attempts >= item[j].attempts /\ RowOK(item'[j], runs')
  BY <1>1, <1>2, <1>3, InvFacts
<1>6. QED
  BY <1>2, <1>4, <1>5, InvFacts, RowStepInv

(* A completion decides on attempts that it read earlier: they bound the attempts of the row *)
(* from below when it writes.                                                                *)
LEMMA CompleteInv ==
    ASSUME Inv, NEW h \in Handlers, CompleteCommit(h)
    PROVE  Inv'
<1> DEFINE k == req[h].item
<1> DEFINE row == Completed(item[k], req[h])
<1>1. k \in Items /\ req[h].outcome \in Outcomes /\ req[h].seen <= item[k].attempts
  BY DEF Inv, RequestsOK, CompleteCommit
<1>2. /\ item' = [item EXCEPT ![k] = row]
      /\ req' = [req EXCEPT ![h] = Idle] /\ UNCHANGED <<now, queue, runs>>
  BY DEF CompleteCommit
<1>3. row \in Item /\ row.attempts = item[k].attempts /\ RowOK(row, runs)
  <2>1. CASE Retryable(req[h])
    BY <1>1, <2>1, InvFacts, RequeuedRow DEF Completed
  <2>2. CASE ~Retryable(req[h])
    <3>1. row = [item[k] EXCEPT !.status = req[h].outcome]
      BY <2>2 DEF Completed
    <3>2. req[h].outcome \in Statuses /\ req[h].outcome # "in_progress"
      BY <1>1 DEF Statuses, Outcomes
    <3>3. req[h].outcome = "system_failed" => item[k].attempts >= MaxAttempts
      BY <1>1, <2>2, InvFacts, AttemptsAssumption DEF Retryable
    <3>4. item[k] \in Item /\ RowOK(item[k], runs)
      BY <1>1, InvFacts
    <3>5. QED
      BY <3>1, <3>2, <3>3, <3>4 DEF Item, RowOK
  <2>3. QED
    BY <2>1, <2>2
<1> HIDE DEF row, k
<1>4. item' \in [Items -> Item]
  BY <1>1, <1>2, <1>3, InvFacts
<1>5. \A j \in Items : item'[j].attempts >= item[j].attempts /\ RowOK(item'[j], runs')
  BY <1>1, <1>2, <1>3, InvFacts
<1>6. QED
  BY <1>2, <1>4, <1>5, InvFacts, RowStepInv

(* Rows that appear, disappear with their queue, or lose their run. *)
LEMMA TableInv ==
    ASSUME Inv,
           (\E last \in Items : AddItems(last)) \/ DeleteQueue \/ (\E r \in Runs : DeleteRun(r))
    PROVE  Inv'
<1>1. ASSUME NEW last \in Items, AddItems(last)
      PROVE  Inv'
  <2>1. UNCHANGED <<now, queue, runs, req>>
    BY <1>1 DEF AddItems
  <2>2. ASSUME NEW j \in Items
        PROVE  item'[j] \in Item /\ item'[j].attempts >= item[j].attempts /\ RowOK(item'[j], runs')
    <3>1. item[j] \in Item /\ RowOK(item[j], runs') /\ item[j].attempts \in Nat
      BY <2>1, InvFacts
    <3>2. item'[j] = item[j] \/ item'[j] = [item[j] EXCEPT !.status = "new"]
      BY <1>1 DEF AddItems
    <3>3. \A row \in Item : RowOK(row, runs') =>
             /\ [row EXCEPT !.status = "new"] \in Item
             /\ RowOK([row EXCEPT !.status = "new"], runs')
             /\ [row EXCEPT !.status = "new"].attempts = row.attempts
      BY RelabelledRow
    <3>4. CASE item'[j] = item[j]
      BY <3>1, <3>4
    <3>5. CASE item'[j] = [item[j] EXCEPT !.status = "new"]
      BY <3>1, <3>3, <3>5
    <3>6. QED
      BY <3>2, <3>4, <3>5
  <2>3. item' \in [Items -> Item]
    BY <1>1, <2>2 DEF AddItems
  <2>4. QED
    BY <2>1, <2>2, <2>3, InvFacts, RowStepInv
<1>2. ASSUME DeleteQueue
      PROVE  Inv'
  <2>1. UNCHANGED <<now, runs, req>> /\ queue' \in BOOLEAN
    BY <1>2 DEF DeleteQueue
  <2>2. ASSUME NEW j \in Items
        PROVE  item'[j] \in Item /\ item'[j].attempts >= item[j].attempts /\ RowOK(item'[j], runs')
    <3>1. item[j] \in Item /\ RowOK(item[j], runs') /\ item[j].attempts \in Nat
      BY <2>1, InvFacts
    <3>2. item'[j] = [item[j] EXCEPT !.status = "gone"]
      BY <1>2 DEF DeleteQueue
    <3>3. \A row \in Item : RowOK(row, runs') =>
             /\ [row EXCEPT !.status = "gone"] \in Item
             /\ RowOK([row EXCEPT !.status = "gone"], runs')
             /\ [row EXCEPT !.status = "gone"].attempts = row.attempts
      BY RelabelledRow
    <3>4. QED
      BY <3>1, <3>2, <3>3
  <2>3. item' \in [Items -> Item]
    BY <1>2, <2>2 DEF DeleteQueue
  <2>4. QED
    BY <2>1, <2>2, <2>3, InvFacts, RowStepInv
<1>3. ASSUME NEW r \in Runs, DeleteRun(r)
      PROVE  Inv'
  <2>1. UNCHANGED <<now, queue, req>> /\ runs' = runs \ {r}
    BY <1>3 DEF DeleteRun
  <2>2. ASSUME NEW j \in Items
        PROVE  item'[j] \in Item /\ item'[j].attempts >= item[j].attempts /\ RowOK(item'[j], runs')
    <3>1. CASE item[j].run = r
      <4>1. item'[j] = [item[j] EXCEPT !.run = NoRun]
        BY <1>3, <3>1 DEF DeleteRun
      <4>2. QED
        BY <4>1, InvFacts, DetachedRow
    <3>2. CASE item[j].run # r
      <4>1. item'[j] = item[j]
        BY <1>3, <3>2 DEF DeleteRun
      <4>2. QED
        BY <2>1, <3>2, <4>1, InvFacts DEF RowOK
    <3>3. QED
      BY <3>1, <3>2
  <2>3. item' \in [Items -> Item]
    BY <1>3, <2>2 DEF DeleteRun
  <2>4. QED
    BY <2>1, <2>2, <2>3, InvFacts, RowStepInv
<1>4. QED
  BY <1>1, <1>2, <1>3

(* Every step keeps the invariant. *)
LEMMA NextInv == Inv /\ [Next]_vars => Inv'
<1> SUFFICES ASSUME Inv, [Next]_vars
             PROVE  Inv'
  OBVIOUS
<1>1. CASE (\E last \in Items : AddItems(last)) \/ DeleteQueue \/ (\E r \in Runs : DeleteRun(r))
  BY <1>1, TableInv
<1>2. ASSUME NEW h \in Handlers, Begin(h)
      PROVE  Inv'
  BY <1>2, BeginInv
<1>3. ASSUME NEW h \in Handlers, Finish(h)
      PROVE  Inv'
  BY <1>3, ClaimInv, HeartbeatInv, CompleteInv DEF Finish
<1>4. ASSUME NEW h \in Handlers, Rollback(h)
      PROVE  Inv'
  <2>1. req' = [req EXCEPT ![h] = Idle] /\ UNCHANGED <<now, queue, runs, item>>
    BY <1>4 DEF Rollback
  <2>2. Idle \in Request /\ Idle.at <= now /\ Idle.op \notin {"heartbeat", "complete"}
    BY InvFacts DEF Idle, Request
  <2>3. QED
    BY <2>1, <2>2, NewRequestInv
<1>5. CASE Tick
  BY <1>5, InvFacts DEF Tick, Inv, TypeOK, RequestsOK, InProgressHasLease,
     SystemFailedIsExhausted, OwnersExist
<1>6. CASE UNCHANGED vars
  BY <1>6 DEF vars, Inv, TypeOK, RequestsOK, InProgressHasLease, SystemFailedIsExhausted,
     OwnersExist
<1>7. QED
  BY <1>1, <1>2, <1>3, <1>4, <1>5, <1>6 DEF Next

-----------------------------------------------------------------------------
(* Every reachable state satisfies the invariant. *)
THEOREM Invariance == Spec => []Inv
  BY InitInv, NextInv, PTL DEF Spec

(* The rows and the requests in flight stay well typed, for any number of both. *)
THEOREM TypeCorrect == Spec => []TypeOK
<1>1. Inv => TypeOK
  BY DEF Inv
<1>2. QED
  BY <1>1, Invariance, PTL

(* Every item in progress carries a lease, so the sweep of a later claim can return it: no   *)
(* interleaving of unlocked heartbeats and completions strands an item for ever.             *)
THEOREM NoItemWithoutLease == Spec => []InProgressHasLease
<1>1. Inv => InProgressHasLease
  BY DEF Inv
<1>2. QED
  BY <1>1, Invariance, PTL

(* complete_queue_item makes a system failure final only when max_attempts claims were       *)
(* granted, although it compares the attempts of a row it read without a lock.               *)
THEOREM RetriesAreUsedUp == Spec => []SystemFailedIsExhausted
<1>1. Inv => SystemFailedIsExhausted
  BY DEF Inv
<1>2. QED
  BY <1>1, Invariance, PTL

(* run_id never refers to a deleted run. *)
THEOREM NoDanglingOwner == Spec => []OwnersExist
<1>1. Inv => OwnersExist
  BY DEF Inv
<1>2. QED
  BY <1>1, Invariance, PTL

(* A claim leaves alone every item whose lease still stands when the claim commits, although *)
(* the sweep uses a clock read earlier: that clock is never ahead.                           *)
THEOREM ClaimsRespectLeases == Spec => LeaseIsRespected
<1>1. ASSUME Inv, NEW h \in Handlers, Claim(h), NEW i \in Items,
             item[i].status = "in_progress", item[i].lease >= now
      PROVE  item'[i] = item[i]
  <2> DEFINE rows == Swept(req[h].at)
  <2>1. req[h].at \in Nat /\ item[i].lease >= req[h].at
    BY <1>1, InvFacts DEF Inv, RequestsOK
  <2>2. rows \in [Items -> Item] /\ rows[i] = item[i]
    BY <1>1, <2>1, SweptRows
  <2>3. CASE ClaimNothing(h)
    BY <2>2, <2>3 DEF ClaimNothing
  <2>4. ASSUME NEW j \in Items, ClaimItem(h, j)
        PROVE  item'[i] = item[i]
    <3>1. rows[j].status = "new"
      BY <2>4 DEF ClaimItem, Candidates
    <3>2. item' = [rows EXCEPT ![j] = Claimed(rows[j], req[h].run, req[h].at + req[h].lease)]
      BY <2>4 DEF ClaimItem
    <3>3. QED
      BY <1>1, <2>2, <3>1, <3>2
  <2>5. QED
    BY <1>1, <2>3, <2>4 DEF Claim
<1>2. Inv /\ [Next]_vars =>
        [\A h \in Handlers : Claim(h) =>
            \A i \in Items : item[i].status = "in_progress" /\ item[i].lease >= now
                               => item'[i] = item[i]]_vars
  BY <1>1
<1>3. QED
  BY <1>2, Invariance, PTL DEF Spec, LeaseIsRespected
=============================================================================
