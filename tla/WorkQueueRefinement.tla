------------------------ MODULE WorkQueueRefinement -------------------------
(***************************************************************************)
(* WorkQueue implements WorkLedger, for every number of items, runs and    *)
(* concurrent requests.                                                    *)
(***************************************************************************)
EXTENDS WorkQueueProofs

(* What the ledger adds to the invariant: an item in progress has been     *)
(* claimed, one that is not inserted yet has not, and a completion has     *)
(* loaded an item that was claimed.                                        *)
LedgerOK ==
    /\ \A i \in Items : /\ item[i].status = "in_progress" => item[i].attempts > 0
                        /\ item[i].status = "absent" => item[i].attempts = 0
    /\ \A h \in Handlers : req[h].op = "complete" => req[h].seen > 0

LInv == Inv /\ LedgerOK

(* The two variables of the ledger. *)
stages == [i \in Items |-> Stage(item[i].status)]
counts == [i \in Items |-> item[i].attempts]

(* Stages and statuses determine each other, but for the three outcomes. *)
LEMMA StageOf ==
    ASSUME NEW s \in Statuses
    PROVE  /\ Stage(s) = "absent" <=> s = "absent"
           /\ Stage(s) = "available" <=> s = "new"
           /\ Stage(s) = "held" <=> s = "in_progress"
           /\ Stage(s) = "done" <=> s \in Outcomes
           /\ Stage(s) = "gone" <=> s = "gone"
  BY DEF Stage, Statuses, Outcomes

(* The same of every row. *)
LEMMA StageOfRow ==
    ASSUME Inv, NEW i \in Items
    PROVE  /\ item[i].status \in Statuses /\ item[i].attempts \in Nat
           /\ Stage(item[i].status) = "absent" <=> item[i].status = "absent"
           /\ Stage(item[i].status) = "available" <=> item[i].status = "new"
           /\ Stage(item[i].status) = "held" <=> item[i].status = "in_progress"
           /\ Stage(item[i].status) = "done" <=> item[i].status \in Outcomes
           /\ Stage(item[i].status) = "gone" <=> item[i].status = "gone"
<1>1. item[i].status \in Statuses
  BY InvFacts DEF Item
<1>2. QED
  BY <1>1, StageOf, InvFacts

(* A queue starts with an empty ledger. *)
LEMMA InitLedger == Init => LedgerOK /\ Ledger!Init
<1> SUFFICES ASSUME Init PROVE LedgerOK /\ Ledger!Init
  OBVIOUS
<1>1. \A i \in Items : item[i].status = "absent" /\ item[i].attempts = 0
  BY DEF Init, AbsentRow
<1>2. \A h \in Handlers : req[h].op = "idle"
  BY DEF Init, Idle
<1>3. Stage("absent") = "absent"
  BY DEF Stage, Outcomes
<1>4. LedgerOK
  BY <1>1, <1>2 DEF LedgerOK
<1>5. Ledger!Init
  BY <1>1, <1>3 DEF Ledger!Init
<1>6. QED
  BY <1>4, <1>5

(* What a step does to the rows decides what it does to the ledger. *)
LEMMA Unmoved ==
    ASSUME \A i \in Items : item'[i].status = item[i].status /\ item'[i].attempts = item[i].attempts
    PROVE  UNCHANGED Ledger!vars
<1>1. stages' = stages /\ counts' = counts
  BY DEF stages, counts
<1>2. QED
  BY <1>1 DEF Ledger!vars, stages, counts

(* An insert of any batch. *)
LEMMA AddMaps ==
    ASSUME LInv, NEW last \in Items, AddItems(last)
    PROVE  Ledger!Next
<1> DEFINE these == {i \in Items : i <= last /\ item[i].status = "absent"}
<1>1. item' = [i \in Items |-> IF i <= last /\ item[i].status = "absent"
                               THEN [item[i] EXCEPT !.status = "new"] ELSE item[i]]
  BY DEF AddItems
<1>2. Stage("new") = "available"
  BY StageOf DEF Statuses
<1>3. these \in SUBSET Ledger!In("absent")
  BY StageOfRow DEF Ledger!In, LInv
<1>4. ASSUME NEW i \in Items
      PROVE  /\ Stage(item'[i].status) = IF i \in these THEN "available" ELSE Stage(item[i].status)
             /\ item'[i].attempts = item[i].attempts
  <2>1. item[i] \in Item
    BY InvFacts DEF LInv
  <2>2. /\ i \in these => item'[i] = [item[i] EXCEPT !.status = "new"]
        /\ i \notin these => item'[i] = item[i]
    BY <1>1
  <2>3. QED
    BY <1>2, <2>1, <2>2 DEF Item
<1> HIDE DEF these
<1>5. stages' = Ledger!Moved(these, "available") /\ counts' = counts
  BY <1>4 DEF stages, counts, Ledger!Moved
<1>6. Ledger!Publish
  BY <1>3, <1>5 DEF Ledger!Publish, stages, counts
<1>7. QED
  BY <1>6 DEF Ledger!Next

(* The sweep of any claim takes back what has expired. *)
LEMMA SweepMaps ==
    ASSUME LInv, NEW at
    PROVE  \E these \in SUBSET Ledger!In("held") :
              \A i \in Items : /\ Stage(Swept(at)[i].status) = Ledger!Moved(these, "available")[i]
                               /\ Swept(at)[i].attempts = item[i].attempts
                               /\ Swept(at)[i].status \in {item[i].status, "new"}
                               /\ Swept(at)[i] \in Item
<1> DEFINE these == {i \in Items : Expired(item[i], at)}
<1>1. these \in SUBSET Ledger!In("held")
  BY StageOfRow DEF Ledger!In, LInv, Expired
<1>2. ASSUME NEW i \in Items
      PROVE  /\ Stage(Swept(at)[i].status) = Ledger!Moved(these, "available")[i]
             /\ Swept(at)[i].attempts = item[i].attempts
             /\ Swept(at)[i].status \in {item[i].status, "new"}
             /\ Swept(at)[i] \in Item
  <2>1. item[i] \in Item
    BY InvFacts DEF LInv
  <2>2. Stage("new") = "available"
    BY StageOf DEF Statuses
  <2>3. Requeued(item[i]) \in Item /\ Requeued(item[i]).attempts = item[i].attempts
        /\ Requeued(item[i]).status = "new"
    BY <2>1, RequeuedRow
  <2>4. CASE Expired(item[i], at)
    BY <2>2, <2>3, <2>4 DEF Swept, Ledger!Moved
  <2>5. CASE ~Expired(item[i], at)
    BY <2>1, <2>5 DEF Swept, Ledger!Moved
  <2>6. QED
    BY <2>4, <2>5
<1>3. QED
  BY <1>1, <1>2

(* A claim that finds nothing only takes back. *)
LEMMA ClaimNothingMaps ==
    ASSUME LInv, NEW h \in Handlers, ClaimNothing(h)
    PROVE  Ledger!Next
<1>1. item' = Swept(req[h].at)
  BY DEF ClaimNothing
<1>2. PICK these \in SUBSET Ledger!In("held") :
         \A i \in Items : /\ Stage(Swept(req[h].at)[i].status) = Ledger!Moved(these, "available")[i]
                          /\ Swept(req[h].at)[i].attempts = item[i].attempts
  BY SweepMaps
<1>3. stages' = Ledger!Moved(these, "available") /\ counts' = counts
  BY <1>1, <1>2 DEF stages, counts, Ledger!Moved
<1>4. Ledger!TakeBack
  BY <1>3 DEF Ledger!TakeBack, stages, counts
<1>5. QED
  BY <1>4 DEF Ledger!Next

(* A claim that finds an item hands out that one. *)
LEMMA ClaimItemMaps ==
    ASSUME LInv, NEW h \in Handlers, NEW k \in Items, ClaimItem(h, k)
    PROVE  Ledger!Next
<1> DEFINE rows == Swept(req[h].at)
<1>1. /\ item' = [rows EXCEPT ![k] = Claimed(rows[k], req[h].run, req[h].at + req[h].lease)]
      /\ rows[k].status = "new"
  BY DEF ClaimItem, Candidates
<1>2. PICK these \in SUBSET Ledger!In("held") :
         \A i \in Items : /\ Stage(rows[i].status) = Ledger!Moved(these, "available")[i]
                          /\ rows[i].attempts = item[i].attempts
                          /\ rows[i] \in Item
  BY SweepMaps
<1>3. rows = [i \in Items |-> rows[i]]
  BY DEF Swept
<1> HIDE DEF rows
<1>4. ASSUME NEW r, NEW l
      PROVE  /\ Claimed(rows[k], r, l).status = "in_progress"
             /\ Claimed(rows[k], r, l).attempts = item[k].attempts + 1
  BY <1>2 DEF Claimed, Item
<1>5. Stage("new") = "available" /\ Stage("in_progress") = "held"
  BY StageOf DEF Statuses
<1>6. Ledger!Moved(these, "available")[k] = "available"
  BY <1>1, <1>2, <1>5
<1> DEFINE row == Claimed(rows[k], req[h].run, req[h].at + req[h].lease)
<1>c. row.status = "in_progress" /\ row.attempts = item[k].attempts + 1
  BY <1>4
<1> HIDE DEF row
<1>j. ASSUME NEW j \in Items
      PROVE  item'[j] = IF j = k THEN row ELSE rows[j]
  BY <1>1, <1>3 DEF row
<1>7. stages' = [Ledger!Moved(these, "available") EXCEPT ![k] = "held"]
  <2>1. ASSUME NEW j \in Items
        PROVE  Stage(item'[j].status) = IF j = k THEN "held" ELSE Ledger!Moved(these, "available")[j]
    BY <1>2, <1>5, <1>c, <1>j
  <2>2. QED
    BY <2>1 DEF stages, Ledger!Moved
<1>8. counts' = [counts EXCEPT ![k] = @ + 1]
  <2>1. ASSUME NEW j \in Items
        PROVE  item'[j].attempts = IF j = k THEN item[k].attempts + 1 ELSE item[j].attempts
    BY <1>2, <1>c, <1>j
  <2>2. QED
    BY <2>1 DEF counts
<1>9. Ledger!Take(k)
  BY <1>6, <1>7, <1>8 DEF Ledger!Take, stages, counts
<1>10. QED
  BY <1>9 DEF Ledger!Next

(* A completion settles an item that was claimed when it was loaded, whatever its row has    *)
(* become since.                                                                             *)
LEMMA CompleteMaps ==
    ASSUME LInv, NEW h \in Handlers, CompleteCommit(h)
    PROVE  Ledger!Next
<1> DEFINE k == req[h].item
<1> DEFINE row == Completed(item[k], req[h])
<1>1. /\ k \in Items /\ req[h].outcome \in Outcomes
      /\ req[h].seen <= item[k].attempts /\ req[h].seen > 0
  BY DEF LInv, Inv, RequestsOK, LedgerOK, CompleteCommit
<1>2. item' = [item EXCEPT ![k] = row] /\ item[k].status # "gone"
  BY DEF CompleteCommit
<1>3. item[k] \in Item /\ item[k].attempts \in Nat /\ req[h].seen \in Nat
  BY <1>1, InvFacts DEF LInv
<1>4. item[k].attempts > 0 /\ item[k].status # "absent"
  BY <1>1, <1>3 DEF LInv, LedgerOK
<1>5. Stage(item[k].status) \in {"available", "held", "done"}
  BY <1>1, <1>2, <1>3, <1>4 DEF Item, Statuses, Stage
<1>6. Stage(row.status) \in {"available", "done"} /\ row.attempts = item[k].attempts
  <2>1. Stage("new") = "available" /\ \A o \in Outcomes : Stage(o) = "done"
    BY StageOf DEF Statuses
  <2>2. CASE Retryable(req[h])
    BY <1>3, <2>1, <2>2, RequeuedRow DEF Completed
  <2>3. CASE ~Retryable(req[h])
    <3>1. row.status = req[h].outcome /\ row.attempts = item[k].attempts
      BY <1>3, <2>3 DEF Completed, Item
    <3>2. QED
      BY <1>1, <2>1, <3>1
  <2>4. QED
    BY <2>2, <2>3
<1> HIDE DEF row, k
<1>7. item \in [Items -> Item]
  BY InvFacts DEF LInv
<1>8. stages' = [stages EXCEPT ![k] = Stage(row.status)] /\ counts' = counts
  BY <1>1, <1>2, <1>6, <1>7 DEF stages, counts
<1>9. Ledger!Settle(k)
  BY <1>1, <1>4, <1>5, <1>6, <1>8 DEF Ledger!Settle, stages, counts
<1>10. QED
  BY <1>1, <1>9 DEF Ledger!Next

(* Every step of the queue is a step of the ledger or leaves it alone. *)
LEMMA NextLedger == LInv /\ [Next]_vars => [Ledger!Next]_(Ledger!vars)
<1> SUFFICES ASSUME LInv, [Next]_vars
             PROVE  Ledger!Next \/ UNCHANGED Ledger!vars
  OBVIOUS
<1>1. ASSUME NEW last \in Items, AddItems(last)
      PROVE  Ledger!Next
  BY <1>1, AddMaps
<1>2. CASE DeleteQueue
  <2>1. \A i \in Items : item'[i] = [item[i] EXCEPT !.status = "gone"] /\ item[i] \in Item
    BY <1>2, InvFacts DEF DeleteQueue, LInv
  <2>2. \A i \in Items : item'[i].status = "gone" /\ item'[i].attempts = item[i].attempts
    BY <2>1 DEF Item
  <2>3. Stage("gone") = "gone"
    BY StageOf DEF Statuses
  <2>4. stages' = [i \in Items |-> "gone"] /\ counts' = counts
    BY <2>2, <2>3 DEF stages, counts
  <2>5. Ledger!Drop
    BY <2>4 DEF Ledger!Drop, stages, counts
  <2>6. QED
    BY <2>5 DEF Ledger!Next
<1>3. ASSUME NEW h \in Handlers, Finish(h)
      PROVE  Ledger!Next \/ UNCHANGED Ledger!vars
  <2>1. CASE HeartbeatCommit(h)
    <3>1. req[h].item \in Items /\ item \in [Items -> Item]
      BY <2>1, InvFacts DEF HeartbeatCommit, LInv, Inv, RequestsOK
    <3>2. item' = [item EXCEPT ![req[h].item].lease = req[h].at + req[h].lease]
      BY <2>1 DEF HeartbeatCommit
    <3>3. \A i \in Items : /\ item'[i].status = item[i].status
                           /\ item'[i].attempts = item[i].attempts
      BY <3>1, <3>2 DEF Item
    <3>4. QED
      BY <3>3, Unmoved
  <2>2. QED
    BY <1>3, <2>1, ClaimNothingMaps, ClaimItemMaps, CompleteMaps DEF Finish, Claim
<1>4. ASSUME NEW r \in Runs, DeleteRun(r)
      PROVE  UNCHANGED Ledger!vars
  <2>1. \A i \in Items : item[i] \in Item
    BY InvFacts DEF LInv
  <2>2. item' = [i \in Items |-> IF item[i].run = r THEN [item[i] EXCEPT !.run = NoRun] ELSE item[i]]
    BY <1>4 DEF DeleteRun
  <2>3. \A i \in Items : item'[i].status = item[i].status /\ item'[i].attempts = item[i].attempts
    BY <2>1, <2>2 DEF Item
  <2>4. QED
    BY <2>3, Unmoved
<1>5. CASE item' = item
  BY <1>5, Unmoved
<1>6. ASSUME NEW h \in Handlers, Begin(h) \/ Rollback(h)
      PROVE  item' = item
  BY <1>6 DEF Begin, ClaimBegin, HeartbeatRead, CompleteRead, Rollback
<1>7. QED
  BY <1>1, <1>2, <1>3, <1>4, <1>5, <1>6 DEF Next, Tick, vars

(* The steps that change rows keep what the ledger adds. *)
LEMMA LedgerRows ==
    ASSUME LInv, [Next]_vars, NEW i \in Items
    PROVE  /\ item'[i].status = "in_progress" => item'[i].attempts > 0
           /\ item'[i].status = "absent" => item'[i].attempts = 0
<1>1. /\ item[i] \in Item /\ item[i].attempts \in Nat /\ item \in [Items -> Item]
      /\ item[i].status = "in_progress" => item[i].attempts > 0
      /\ item[i].status = "absent" => item[i].attempts = 0
  BY InvFacts DEF LInv, LedgerOK
<1>2. ASSUME NEW last \in Items, AddItems(last)
      PROVE  item'[i] = item[i] \/ item'[i].status = "new"
  BY <1>1, <1>2 DEF AddItems, Item
<1>3. CASE DeleteQueue
  BY <1>1, <1>3 DEF DeleteQueue, Item
<1>4. ASSUME NEW at
      PROVE  /\ Swept(at)[i].status \in {item[i].status, "new"}
             /\ Swept(at)[i].attempts = item[i].attempts
  BY SweepMaps
<1>5. ASSUME NEW h \in Handlers, ClaimNothing(h)
      PROVE  /\ item'[i].status \in {item[i].status, "new"}
             /\ item'[i].attempts = item[i].attempts
  BY <1>4, <1>5 DEF ClaimNothing
<1>6. ASSUME NEW h \in Handlers, NEW k \in Items, ClaimItem(h, k)
      PROVE  \/ /\ item'[i].status \in {item[i].status, "new"}
                /\ item'[i].attempts = item[i].attempts
             \/ item'[i].status = "in_progress" /\ item'[i].attempts = item[i].attempts + 1
  <2> DEFINE rows == Swept(req[h].at)
  <2>1. /\ item' = [rows EXCEPT ![k] = Claimed(rows[k], req[h].run, req[h].at + req[h].lease)]
        /\ rows = [j \in Items |-> rows[j]]
    BY <1>6 DEF ClaimItem, Swept
  <2>2. rows[i].status \in {item[i].status, "new"} /\ rows[i].attempts = item[i].attempts
        /\ rows[i] \in Item
    BY SweepMaps
  <2> HIDE DEF rows
  <2>3. CASE i # k
    BY <2>1, <2>2, <2>3
  <2>4. CASE i = k
    <3>1. item'[i] = Claimed(rows[i], req[h].run, req[h].at + req[h].lease)
      BY <2>1, <2>4
    <3>2. QED
      BY <2>2, <3>1 DEF Claimed, Item
  <2>5. QED
    BY <2>3, <2>4
<1>7. ASSUME NEW h \in Handlers, HeartbeatCommit(h)
      PROVE  item'[i].status = item[i].status /\ item'[i].attempts = item[i].attempts
  BY <1>1, <1>7 DEF HeartbeatCommit, Item
<1>8. ASSUME NEW h \in Handlers, CompleteCommit(h)
      PROVE  item'[i] = item[i] \/ item'[i].status \in Outcomes \cup {"new"}
  <2>1. item' = [item EXCEPT ![req[h].item] = Completed(item[req[h].item], req[h])]
        /\ req[h].outcome \in Outcomes
    BY <1>8 DEF CompleteCommit, LInv, Inv, RequestsOK
  <2>2. Completed(item[i], req[h]).status \in Outcomes \cup {"new"}
    BY <1>1, <2>1 DEF Completed, Requeued, Item
  <2>3. QED
    BY <1>1, <2>1, <2>2
<1>9. ASSUME NEW r \in Runs, DeleteRun(r)
      PROVE  item'[i].status = item[i].status /\ item'[i].attempts = item[i].attempts
  BY <1>1, <1>9 DEF DeleteRun, Item
<1>10. ASSUME NEW h \in Handlers, Begin(h) \/ Rollback(h)
       PROVE  item' = item
  BY <1>10 DEF Begin, ClaimBegin, HeartbeatRead, CompleteRead, Rollback
<1>11. \/ item'[i].status \in {item[i].status, "new"} /\ item'[i].attempts = item[i].attempts
       \/ item'[i].status = "in_progress" /\ item'[i].attempts = item[i].attempts + 1
       \/ item'[i].status \in Outcomes \cup {"new", "gone"}
  <2>1. CASE \E h \in Handlers : Finish(h)
    BY <1>5, <1>6, <1>7, <1>8, <2>1 DEF Finish, Claim
  <2>2. CASE DeleteQueue
    BY <1>1, <2>2 DEF DeleteQueue, Item
  <2>3. CASE item' = item
    BY <2>3
  <2>4. QED
    BY <1>2, <1>9, <1>10, <2>1, <2>2, <2>3 DEF Next, Tick, vars
<1>12. QED
  BY <1>1, <1>11 DEF Outcomes

(* Completions start on items in progress only. *)
LEMMA LedgerRequests ==
    ASSUME LInv, [Next]_vars, NEW h \in Handlers
    PROVE  req'[h].op = "complete" => req'[h].seen > 0
<1>1. req \in [Handlers -> Request] /\ (req[h].op = "complete" => req[h].seen > 0)
  BY InvFacts DEF LInv, LedgerOK
<1>2. Idle.op = "idle"
  BY DEF Idle
<1>3. ASSUME NEW g \in Handlers, Finish(g) \/ Rollback(g)
      PROVE  req' = [req EXCEPT ![g] = Idle]
  BY <1>3 DEF Finish, Claim, ClaimNothing, ClaimItem, HeartbeatCommit, CompleteCommit, Rollback
<1>4. ASSUME NEW g \in Handlers, NEW r \in Runs, NEW l \in Leases, ClaimBegin(g, r, l)
      PROVE  req'[h] = req[h] \/ req'[h].op = "claim"
  BY <1>1, <1>4, InvFacts DEF ClaimBegin, Idle, LInv
<1>5. ASSUME NEW g \in Handlers, NEW r \in Runs, NEW i \in Items, NEW l \in Leases,
             HeartbeatRead(g, r, i, l)
      PROVE  req'[h] = req[h] \/ req'[h].op = "heartbeat"
  BY <1>1, <1>5, InvFacts DEF HeartbeatRead, Idle, LInv
<1>6. ASSUME NEW g \in Handlers, NEW r \in Runs, NEW i \in Items, NEW o \in Outcomes,
             CompleteRead(g, r, i, o)
      PROVE  req'[h] = req[h] \/ req'[h].seen > 0
  <2>1. item[i].attempts > 0
    BY <1>6 DEF CompleteRead, OwnedBy, LInv, LedgerOK
  <2>2. QED
    BY <1>6, <2>1, InvFacts DEF CompleteRead, Idle, LInv
<1>7. CASE \E g \in Handlers : Begin(g)
  BY <1>1, <1>4, <1>5, <1>6, <1>7 DEF Begin
<1>8. CASE \E g \in Handlers : Finish(g) \/ Rollback(g)
  BY <1>1, <1>2, <1>3, <1>8, InvFacts DEF LInv
<1>9. CASE req' = req
  BY <1>1, <1>9
<1>10. QED
  BY <1>7, <1>8, <1>9 DEF Next, AddItems, DeleteQueue, DeleteRun, Tick, vars

(* The strengthened invariant. *)
LEMMA LedgerInvariance == Spec => []LInv
<1>1. Init => LInv
  BY InitInv, InitLedger DEF LInv
<1>2. LInv /\ [Next]_vars => LInv'
  <2>1. LInv /\ [Next]_vars => Inv'
    BY NextInv DEF LInv
  <2>2. LInv /\ [Next]_vars => LedgerOK'
    BY LedgerRows, LedgerRequests DEF LedgerOK
  <2>3. QED
    BY <2>1, <2>2 DEF LInv
<1>3. QED
  BY <1>1, <1>2, PTL DEF Spec

(* The rows of a queue are a work ledger: claims, sweeps, late heartbeats and completions,   *)
(* deleted runs and a deleted queue, in whatever order they commit, do nothing to an item    *)
(* that WorkLedger does not allow.                                                           *)
THEOREM Refinement == Spec => ImplementsLedger
<1>1. Init => Ledger!Init
  BY InitLedger
<1>2. QED
  BY <1>1, NextLedger, LedgerInvariance, PTL DEF Spec, ImplementsLedger, Ledger!Spec
=============================================================================
