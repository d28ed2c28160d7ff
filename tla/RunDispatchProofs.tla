------------------------- MODULE RunDispatchProofs -------------------------
(***************************************************************************)
(* The safety properties of RunDispatch, and the ledger of runs that it    *)
(* implements, for any number of runs, deployments, processes, permits,    *)
(* stop requests and faults.                                               *)
(***************************************************************************)
EXTENDS RunDispatch, FiniteSetTheorems, SequenceTheorems, TLAPS

(* The work that is issued: a command, and the task that it becomes. *)
Jobs == [cmd : {"run"}, id : Runs] \cup [cmd : {"deploy"}, id : Deployments]

Status(c) == IF c.cmd = "run" THEN run[c.id].status ELSE dep[c.id].status

(* The row has not been polled yet. *)
Unissued(c) == Status(c) \in {"absent", "pending", "deploying"}

Queued(c, k) == k \in 1..Len(inbox) /\ inbox[k] = c

Does(s, c) ==
    /\ slot[s].id = c.id
    /\ \/ c.cmd = "run" /\ slot[s].at \in RunPoints
       \/ c.cmd = "deploy" /\ slot[s].at \in DeployPoints

(* One copy of it at most, queued or at work, and none before it is issued. *)
Once(c) ==
    /\ \A j, k \in Nat : Queued(c, j) /\ Queued(c, k) => j = k
    /\ \A s, t \in Slots : Does(s, c) /\ Does(t, c) => s = t
    /\ \A k \in Nat, s \in Slots : ~(Queued(c, k) /\ Does(s, c))
    /\ Unissued(c) => (\A k \in Nat : ~Queued(c, k)) /\ (\A s \in Slots : ~Does(s, c))

Known(r) == run[r].status # "absent"

(* Whatever speaks of a run speaks of one that was created, and so has a process. *)
Named ==
    /\ \A r \in Runs : Known(r) => run[r].proc \in Procs
    /\ stopping # None => Known(stopping)
    /\ \A k \in 1..Len(inbox) : inbox[k].cmd = "stop" => Known(inbox[k].id)
    /\ \A s \in Slots : slot[s].at \in StopPoints => Known(slot[s].id)
    /\ \A m \in net : m.of = "run" => Known(m.id)

Job(r) == [cmd |-> "run", id |-> r]

(* The child of the run is still to be started. *)
Ahead(r) ==
    \/ Unissued(Job(r))
    \/ \E k \in Nat : Queued(Job(r), k)
    \/ \E s \in Slots : slot[s].id = r /\ slot[s].at \in {"running", "build"}

Truthful ==
    /\ CompletedMeansExitZero
    /\ \A m \in net : m.of = "run" /\ m.status = "completed" => child[m.id] = "ok"

HandlesOK ==
    /\ HandleHasTask
    /\ \A p \in Procs : handle[p] # None => run[handle[p]].proc = p

Inv ==
    /\ TypeOK
    /\ Named
    /\ \A c \in Jobs : Once(c)
    /\ \A r \in Runs : Ahead(r) => child[r] = "none"
    /\ Truthful
    /\ HandlesOK

-----------------------------------------------------------------------------
(* What TypeOK says of a slot, by the point at which its task is suspended. *)
LEMMA TaskType ==
    ASSUME TypeOK, NEW s \in Slots
    PROVE  /\ slot[s].at \in RunPoints \cup StopPoints =>
                slot[s] \in [at : RunPoints \cup StopPoints, id : Runs, victim : Runs \cup {None}]
           /\ slot[s].at \in DeployPoints =>
                slot[s] \in [at : DeployPoints, id : Deployments, victim : {None}]
           /\ slot[s].at = "free" => slot[s] = Free
           /\ slot[s].at \in RunPoints \cup StopPoints \cup DeployPoints \cup {"free"}
BY DEF TypeOK, Tasks, Free, RunPoints, StopPoints, DeployPoints

(* A task that goes on to another point of its code. *)
LEMMA MoveType ==
    ASSUME TypeOK, NEW s \in Slots, NEW point, MoveTo(s, point),
           \/ slot[s].at \in RunPoints \cup StopPoints /\ point \in RunPoints \cup StopPoints
           \/ slot[s].at \in DeployPoints /\ point \in DeployPoints
    PROVE  /\ slot' \in [Slots -> Tasks \cup {Free}]
           /\ slot'[s].at = point /\ slot'[s].id = slot[s].id
           /\ \A t \in Slots : t # s => slot'[t] = slot[t]
<1>1. slot \in [Slots -> Tasks \cup {Free}] /\ slot' = [slot EXCEPT ![s].at = point]
  BY DEF TypeOK, MoveTo
<1>2. [slot[s] EXCEPT !.at = point] \in Tasks
  <2>1. CASE slot[s].at \in RunPoints \cup StopPoints
    <3>1. slot[s] \in [at : RunPoints \cup StopPoints, id : Runs, victim : Runs \cup {None}]
      BY <2>1, TaskType
    <3>2. point \in RunPoints \cup StopPoints
      BY <2>1 DEF RunPoints, StopPoints, DeployPoints
    <3>3. QED
      BY <3>1, <3>2 DEF Tasks
  <2>2. CASE slot[s].at \in DeployPoints
    <3>1. slot[s] \in [at : DeployPoints, id : Deployments, victim : {None}]
      BY <2>2, TaskType
    <3>2. point \in DeployPoints
      BY <2>2 DEF RunPoints, StopPoints, DeployPoints
    <3>3. QED
      BY <3>1, <3>2 DEF Tasks
  <2>3. QED
    BY <2>1, <2>2
<1>3. slot[s].at \in RunPoints \cup StopPoints \cup DeployPoints
  OBVIOUS
<1>4. [slot[s] EXCEPT !.at = point].at = point /\ [slot[s] EXCEPT !.at = point].id = slot[s].id
  BY <1>1, <1>3, TaskType DEF Tasks
<1>5. QED
  BY <1>1, <1>2, <1>4

(* Reports are what their names say, and keep it when nobody waits for them any more. *)
LEMMA ReportType ==
    /\ \A s \in Slots \cup {None}, r \in Runs, status \in {"running"} \cup Terminal :
          RunReport(s, r, status) \in Reports
    /\ \A s \in Slots \cup {None}, d \in Deployments, status \in {"deployed", "failed"} :
          Ack(s, d, status) \in Reports
    /\ \A m \in Reports : /\ [m EXCEPT !.slot = None] \in Reports
                          /\ [m EXCEPT !.slot = None].of = m.of
                          /\ [m EXCEPT !.slot = None].id = m.id
                          /\ [m EXCEPT !.slot = None].status = m.status
BY DEF Reports, RunReport, Ack

(* What a report says. *)
LEMMA ReportFacts ==
    ASSUME NEW m \in Reports
    PROVE  /\ m.of = "run" => m.id \in Runs /\ m.status \in {"running"} \cup Terminal
           /\ m.of # "run" => m.id \in Deployments /\ m.status \in {"deployed", "failed"}
           /\ m.slot \in Slots \cup {None}
BY DEF Reports

-----------------------------------------------------------------------------
(* How rows change: they keep their process once they are created, they are issued once, and  *)
(* nothing is completed but by a report that says so.                                         *)
RowsMove ==
    /\ \A r \in Runs : Known(r) => Known(r)' /\ run'[r].proc = run[r].proc
    /\ \A r \in Runs : Known(r)' => run'[r].proc \in Procs
    /\ \A r \in Runs : run'[r].status = "completed" =>
          \/ run[r].status = "completed"
          \/ \E m \in net : m.of = "run" /\ m.id = r /\ m.status = "completed"
    /\ \A c \in Jobs : Unissued(c)' => Unissued(c)

RowTypes ==
    /\ procs \subseteq Procs
    /\ run \in [Runs -> [status : RunStatuses, proc : Procs \cup {None}]]
    /\ dep \in [Deployments -> [status : DeploymentStatuses, proc : Procs \cup {None}]]

(* A status that is written by primary key. *)
LEMMA SetStatusRun ==
    ASSUME RowTypes, NEW r \in Runs, Known(r), \A q \in Runs : Known(q) => run[q].proc \in Procs,
           NEW status \in {"running", "stopping"} \cup Terminal, run' = SetStatus(run, r, status),
           dep' = dep, procs' = procs,
           status = "completed" =>
              \E m \in net : m.of = "run" /\ m.id = r /\ m.status = "completed"
    PROVE  RowTypes' /\ RowsMove
<1>1. CASE run[r].status = "gone"
  <2>1. run' = run
    BY <1>1 DEF SetStatus
  <2>2. QED
    BY <2>1 DEF RowTypes, RowsMove, Known, Unissued, Status, Jobs
<1>2. CASE run[r].status # "gone"
  <2>1. run' = [run EXCEPT ![r].status = status]
    BY <1>2 DEF SetStatus
  <2>2. run'[r] = [status |-> status, proc |-> run[r].proc]
    BY <2>1 DEF RowTypes
  <2>3. \A q \in Runs : q # r => run'[q] = run[q]
    BY <2>1 DEF RowTypes
  <2>4. RowTypes'
    BY <2>1 DEF RowTypes, RunStatuses, Terminal
  <2>5. \A c \in Jobs : Unissued(c)' => Unissued(c)
    BY <2>2, <2>3 DEF Jobs, Unissued, Status, Terminal
  <2>6. QED
    BY <2>2, <2>3, <2>4, <2>5 DEF RowsMove, Known, RowTypes, Terminal
<1>3. QED
  BY <1>1, <1>2

LEMMA SetStatusDeployment ==
    ASSUME RowTypes, NEW d \in Deployments, \A q \in Runs : Known(q) => run[q].proc \in Procs,
           NEW status \in {"deployed", "failed"}, dep' = SetStatus(dep, d, status),
           run' = run, procs' = procs
    PROVE  RowTypes' /\ RowsMove
<1>1. CASE dep[d].status = "gone"
  <2>1. dep' = dep
    BY <1>1 DEF SetStatus
  <2>2. QED
    BY <2>1 DEF RowTypes, RowsMove, Known, Unissued, Status, Jobs
<1>2. CASE dep[d].status # "gone"
  <2>1. dep' = [dep EXCEPT ![d].status = status]
    BY <1>2 DEF SetStatus
  <2>2. dep'[d].status = status /\ \A q \in Deployments : q # d => dep'[q] = dep[q]
    BY <2>1 DEF RowTypes
  <2>3. RowTypes'
    BY <2>1 DEF RowTypes, DeploymentStatuses
  <2>4. \A c \in Jobs : Unissued(c)' => Unissued(c)
    BY <2>2 DEF Jobs, Unissued, Status
  <2>5. QED
    BY <2>3, <2>4 DEF RowsMove, Known
<1>3. QED
  BY <1>1, <1>2

LEMMA AppliedRows ==
    ASSUME TypeOK, Named, NEW m \in net, Apply(m), procs' = procs
    PROVE  RowTypes' /\ RowsMove
<1>1. m \in Reports /\ RowTypes
  BY DEF TypeOK, RowTypes
<1>2. \A q \in Runs : Known(q) => run[q].proc \in Procs
  BY DEF Named
<1>3. CASE m.of = "run"
  <2>1. m.id \in Runs /\ m.status \in {"running", "stopping"} \cup Terminal /\ Known(m.id)
    BY <1>1, <1>3, ReportFacts DEF Named
  <2>2. run' = SetStatus(run, m.id, m.status) /\ dep' = dep
    BY <1>3 DEF Apply
  <2>3. QED
    BY <1>1, <1>2, <1>3, <2>1, <2>2, SetStatusRun
<1>4. CASE m.of # "run"
  <2>1. m.id \in Deployments /\ m.status \in {"deployed", "failed"}
    BY <1>1, <1>4, ReportFacts
  <2>2. dep' = SetStatus(dep, m.id, m.status) /\ run' = run
    BY <1>4 DEF Apply
  <2>3. QED
    BY <1>1, <1>2, <2>1, <2>2, SetStatusDeployment
<1>5. QED
  BY <1>3, <1>4

(* What a poll leaves behind. *)
LEMMA MarkedRows ==
    /\ RowTypes
    /\ dep' = Marked(dep, "deploying") /\ run' = Marked(run, "pending") /\ procs' = procs
    => /\ RowTypes'
       /\ \A r \in Runs : /\ run[r].status = "pending" => run'[r].status = "dispatched"
                          /\ run[r].status # "pending" => run'[r].status = run[r].status
                          /\ run'[r].proc = run[r].proc
       /\ \A d \in Deployments : /\ dep[d].status = "deploying" => dep'[d].status = "dispatched"
                                 /\ dep[d].status # "deploying" => dep'[d].status = dep[d].status
BY DEF Marked, RowTypes, RunStatuses, DeploymentStatuses

LEMMA PolledRows ==
    /\ RowTypes
    /\ \A q \in Runs : Known(q) => run[q].proc \in Procs
    /\ dep' = Marked(dep, "deploying") /\ run' = Marked(run, "pending") /\ procs' = procs
    => /\ RowTypes' /\ RowsMove
       /\ \A r \in Runs : run[r].status = "pending" => ~Unissued(Job(r))'
       /\ \A d \in Deployments : dep[d].status = "deploying" => dep'[d].status = "dispatched"
<1>1. ASSUME RowTypes, \A q \in Runs : Known(q) => run[q].proc \in Procs, RowTypes',
             \A r \in Runs : /\ run[r].status = "pending" => run'[r].status = "dispatched"
                             /\ run[r].status # "pending" => run'[r].status = run[r].status
                             /\ run'[r].proc = run[r].proc,
             \A d \in Deployments : /\ dep[d].status = "deploying" => dep'[d].status = "dispatched"
                                    /\ dep[d].status # "deploying" => dep'[d].status = dep[d].status
      PROVE  RowsMove /\ \A r \in Runs : run[r].status = "pending" => ~Unissued(Job(r))'
  <2>1. \A c \in Jobs : Unissued(c)' => Unissued(c)
    BY <1>1 DEF Jobs, Unissued, Status
  <2>2. \A r \in Runs : Known(r)' <=> Known(r)
    BY <1>1 DEF Known
  <2>3. RowsMove
    BY <1>1, <2>1, <2>2 DEF RowsMove
  <2>4. \A r \in Runs : run[r].status = "pending" => ~Unissued(Job(r))'
    BY <1>1 DEF Unissued, Status, Job
  <2>5. QED
    BY <2>3, <2>4
<1>2. QED
  BY <1>1, MarkedRows

LEMMA KeptRows ==
    ASSUME RowTypes, \A q \in Runs : Known(q) => run[q].proc \in Procs,
           UNCHANGED <<procs, run, dep>>
    PROVE  RowTypes' /\ RowsMove
BY DEF RowTypes, RowsMove, Known, Unissued, Status, Jobs

LEMMA CreatedRow ==
    ASSUME RowTypes, \A q \in Runs : Known(q) => run[q].proc \in Procs,
           \/ \E r \in Runs, p \in Procs : RunProcess(r, p)
           \/ \E d \in Deployments, p \in Procs : DeployProcess(d, p)
    PROVE  RowTypes' /\ RowsMove
<1>1. ASSUME NEW r \in Runs, NEW p \in Procs, RunProcess(r, p) PROVE RowTypes' /\ RowsMove
  <2>1. /\ ~Known(r) /\ p \in procs /\ dep' = dep /\ procs' = procs
        /\ run' = [run EXCEPT ![r] = [status |-> "pending", proc |-> p]]
    BY <1>1 DEF RunProcess, IsNext, Known
  <2>2. run'[r] = [status |-> "pending", proc |-> p] /\ \A q \in Runs : q # r => run'[q] = run[q]
    BY <2>1 DEF RowTypes
  <2>3. RowTypes'
    BY <2>1 DEF RowTypes, RunStatuses
  <2>4. \A c \in Jobs : Unissued(c)' => Unissued(c)
    BY <2>1, <2>2 DEF Jobs, Unissued, Status, Known
  <2>5. QED
    BY <2>1, <2>2, <2>3, <2>4 DEF RowsMove, Known
<1>2. ASSUME NEW d \in Deployments, NEW p \in Procs, DeployProcess(d, p) PROVE RowTypes' /\ RowsMove
  <2>1. /\ dep[d].status = "absent" /\ p \in procs /\ run' = run /\ procs' = procs
        /\ dep' = [dep EXCEPT ![d] = [status |-> "deploying", proc |-> p]]
    BY <1>2 DEF DeployProcess, IsNext
  <2>2. \A q \in Deployments : q # d => dep'[q] = dep[q]
    BY <2>1 DEF RowTypes
  <2>3. RowTypes'
    BY <2>1 DEF RowTypes, DeploymentStatuses
  <2>4. \A c \in Jobs : Unissued(c)' => Unissued(c)
    BY <2>1, <2>2 DEF Jobs, Unissued, Status
  <2>5. QED
    BY <2>1, <2>3, <2>4 DEF RowsMove, Known
<1>3. QED
  BY <1>1, <1>2

LEMMA DeletedRows ==
    ASSUME RowTypes, \A q \in Runs : Known(q) => run[q].proc \in Procs
    PROVE  \A p \in Procs : DeleteProcess(p) => RowTypes' /\ RowsMove
<1>1. ASSUME NEW p \in Procs, DeleteProcess(p)
      PROVE  /\ RowTypes'
             /\ \A r \in Runs : /\ run'[r].proc = run[r].proc
                                /\ run'[r].status = run[r].status \/ run'[r].status = "gone"
             /\ \A r \in Runs : run'[r].status # run[r].status => run[r].proc = p
             /\ \A d \in Deployments : dep'[d].status = dep[d].status \/ dep'[d].status = "gone"
  BY <1>1 DEF DeleteProcess, RowTypes, RunStatuses, DeploymentStatuses
<1>2. ASSUME NEW p \in Procs,
             \A r \in Runs : /\ run'[r].proc = run[r].proc
                             /\ run'[r].status = run[r].status \/ run'[r].status = "gone",
             \A r \in Runs : run'[r].status # run[r].status => run[r].proc = p,
             \A d \in Deployments : dep'[d].status = dep[d].status \/ dep'[d].status = "gone"
      PROVE  RowsMove
  <2>1. \A c \in Jobs : Unissued(c)' => Unissued(c)
    BY <1>2 DEF Jobs, Unissued, Status
  <2>2. QED
    BY <1>2, <2>1 DEF RowsMove, Known
<1>3. QED
  BY <1>1, <1>2

(* Every step. *)
LEMMA RowStep == ASSUME Inv, Next PROVE RowTypes' /\ RowsMove
<1>1. TypeOK /\ Named /\ RowTypes /\ \A q \in Runs : Known(q) => run[q].proc \in Procs
  BY DEF Inv, TypeOK, RowTypes, Named
<1>2. CASE \/ \E r \in Runs, p \in Procs : RunProcess(r, p)
           \/ \E d \in Deployments, p \in Procs : DeployProcess(d, p)
  BY <1>1, <1>2, CreatedRow
<1>3. CASE \E p \in Procs : DeleteProcess(p)
  BY <1>1, <1>3, DeletedRows
<1>4. CASE StopCommit
  <2>1. /\ stopping \in Runs /\ Known(stopping)
        /\ run' = SetStatus(run, stopping, "stopping") /\ procs' = procs /\ dep' = dep
    BY <1>1, <1>4 DEF StopCommit, Named, TypeOK
  <2>2. QED
    BY <1>1, <2>1, SetStatusRun
<1>5. CASE Poll \/ PollLost
  <2>1. dep' = Marked(dep, "deploying") /\ run' = Marked(run, "pending") /\ procs' = procs
    BY <1>5 DEF Poll, PollLost
  <2>2. QED
    BY <1>1, <2>1, PolledRows
<1>6. CASE \E m \in net : Answered(m) \/ ArrivesLate(m)
  <2>1. PICK m \in net : Answered(m) \/ ArrivesLate(m)
    BY <1>6
  <2>2. Apply(m) /\ procs' = procs
    BY <2>1 DEF Answered, ArrivesLate
  <2>3. QED
    BY <1>1, <2>2, AppliedRows
<1>7. CASE \/ \E r \in Runs : StopSelect(r) \/ ChildExits(r)
           \/ StopRollback \/ Crash
           \/ \E s \in Slots : Task(s) \/ StreamBreaks(s)
           \/ \E m \in net : Refused(m) \/ GivesUp(m) \/ NeverArrives(m)
  <2>1. UNCHANGED <<procs, run, dep>>
    <3>1. CASE \/ \E r \in Runs : StopSelect(r) \/ ChildExits(r)
               \/ StopRollback \/ Crash
      BY <3>1 DEF StopSelect, ChildExits, StopRollback, Crash, serverVars
    <3>2. CASE \E s \in Slots : Task(s) \/ StreamBreaks(s)
      BY <3>2 DEF Task, StartDeploy, StartRun, StartStop, Start, Prepare, Spawn, BuildFails,
                  StreamEnds, StreamBreaks, Kill, StopReturns, serverVars
    <3>3. CASE \E m \in net : Refused(m) \/ GivesUp(m) \/ NeverArrives(m)
      BY <3>3 DEF Refused, GivesUp, NeverArrives, serverVars
    <3>4. QED
      BY <1>7, <3>1, <3>2, <3>3
  <2>2. QED
    BY <1>1, <2>1, KeptRows
<1>8. QED
  BY <1>2, <1>3, <1>4, <1>5, <1>6, <1>7 DEF Next

-----------------------------------------------------------------------------
(* Types. *)
SlotTypes == slot \in [Slots -> Tasks \cup {Free}]
OtherTypes ==
    /\ stopping \in Runs \cup {None}
    /\ inbox \in Seq(Commands)
    /\ net \subseteq Reports
    /\ handle \in [Procs -> Runs \cup {None}]
    /\ child \in [Runs -> {"none", "alive", "ok", "bad", "killed"}]
    /\ stops \in Nat
    /\ faults \in Nat

(* The sequence of some set of commands, in any order, and each of them once. *)
LEMMA OrderFacts ==
    ASSUME NEW ids, IsFiniteSet(ids), NEW cmd, NEW q \in Orders(cmd, ids)
    PROVE  /\ q \in Seq({[cmd |-> cmd, id |-> i] : i \in ids})
           /\ \A j, k \in 1..Len(q) : q[j] = q[k] => j = k
<1> DEFINE S == {[cmd |-> cmd, id |-> i] : i \in ids}
           f == [i \in ids |-> [cmd |-> cmd, id |-> i]]
<1>1. IsFiniteSet(S)
  <2>1. f \in Surjection(ids, S)
    BY DEF Surjection
  <2>2. QED
    BY <2>1, FS_Surjection
<1>2. Cardinality(S) \in Nat
  BY <1>1, FS_CardinalityType
<1>3. q \in [1..Cardinality(S) -> S] /\ \A i, j \in 1..Cardinality(S) : i # j => q[i] # q[j]
  BY DEF Orders, SetToSeqs
<1>4. q \in Seq(S) /\ Len(q) = Cardinality(S)
  BY <1>2, <1>3
<1>5. QED
  BY <1>3, <1>4

(* The queue after a poll: what was there, and once each what was due. *)
New(c) ==
    \/ c \in [cmd : {"deploy"}, id : Due(dep, "deploying")]
    \/ c \in [cmd : {"run"}, id : Due(run, "pending")]
    \/ c \in [cmd : {"stop"}, id : Due(run, "stopping")]

LEMMA PolledQueue ==
    ASSUME TypeOK, Poll
    PROVE  /\ inbox' \in Seq(Commands)
           /\ \A k \in 1..Len(inbox') :
                 (k \in 1..Len(inbox) /\ inbox'[k] = inbox[k]) \/ New(inbox'[k])
           /\ \A j, k \in 1..Len(inbox') :
                 inbox'[j] = inbox'[k] /\ j # k => \E l \in {j, k} : l \in 1..Len(inbox)
           /\ \A k \in 1..Len(inbox) : k \in 1..Len(inbox') /\ inbox'[k] = inbox[k]
<1> DEFINE C(cmd, ids) == {[cmd |-> cmd, id |-> i] : i \in ids}
<1>1. /\ Due(dep, "deploying") \subseteq Deployments /\ IsFiniteSet(Due(dep, "deploying"))
      /\ Due(run, "pending") \subseteq Runs /\ IsFiniteSet(Due(run, "pending"))
      /\ Due(run, "stopping") \subseteq Runs /\ IsFiniteSet(Due(run, "stopping"))
  <2>1. IsFiniteSet(Runs) /\ IsFiniteSet(Deployments)
    <3>1. MaxRuns \in Int /\ MaxDeploys \in Int
      BY RunsAssumption, BoundsAssumption
    <3>2. IsFiniteSet(1..MaxRuns) /\ IsFiniteSet(1..MaxDeploys)
      BY <3>1, FS_Interval
    <3>3. QED
      BY <3>2 DEF Runs, Deployments
  <2>2. /\ Due(dep, "deploying") \subseteq Deployments
        /\ Due(run, "pending") \subseteq Runs
        /\ Due(run, "stopping") \subseteq Runs
    BY DEF Due, TypeOK
  <2>3. QED
    BY <2>1, <2>2, FS_Subset
<1>2. PICK a \in Orders("deploy", Due(dep, "deploying")), b \in Orders("run", Due(run, "pending")),
           c \in Orders("stop", Due(run, "stopping")) : inbox' = inbox \o a \o b \o c
  BY DEF Poll
<1>3. /\ a \in Seq(C("deploy", Due(dep, "deploying"))) /\ \A j, k \in 1..Len(a) : a[j] = a[k] => j = k
      /\ b \in Seq(C("run", Due(run, "pending"))) /\ \A j, k \in 1..Len(b) : b[j] = b[k] => j = k
      /\ c \in Seq(C("stop", Due(run, "stopping"))) /\ \A j, k \in 1..Len(c) : c[j] = c[k] => j = k
  <2>1. a \in Seq(C("deploy", Due(dep, "deploying"))) /\ \A j, k \in 1..Len(a) : a[j] = a[k] => j = k
    BY <1>1, OrderFacts
  <2>2. b \in Seq(C("run", Due(run, "pending"))) /\ \A j, k \in 1..Len(b) : b[j] = b[k] => j = k
    BY <1>1, OrderFacts
  <2>3. c \in Seq(C("stop", Due(run, "stopping"))) /\ \A j, k \in 1..Len(c) : c[j] = c[k] => j = k
    BY <1>1, OrderFacts
  <2>4. QED
    BY <2>1, <2>2, <2>3
<1>4. /\ C("deploy", Due(dep, "deploying")) \subseteq Commands
      /\ C("run", Due(run, "pending")) \subseteq Commands
      /\ C("stop", Due(run, "stopping")) \subseteq Commands
  BY <1>1 DEF Commands
<1>5. inbox \in Seq(Commands) /\ a \in Seq(Commands) /\ b \in Seq(Commands) /\ c \in Seq(Commands)
  BY <1>3, <1>4, SeqMonotonic DEF TypeOK
<1>6. /\ \A k \in 1..Len(a) : a[k].cmd = "deploy" /\ a[k] \in [cmd : {"deploy"}, id : Due(dep, "deploying")]
      /\ \A k \in 1..Len(b) : b[k].cmd = "run" /\ b[k] \in [cmd : {"run"}, id : Due(run, "pending")]
      /\ \A k \in 1..Len(c) : c[k].cmd = "stop" /\ c[k] \in [cmd : {"stop"}, id : Due(run, "stopping")]
  BY <1>3, ElementOfSeq
<1> HIDE DEF C
<1>7. /\ Len(inbox) \in Nat /\ Len(a) \in Nat /\ Len(b) \in Nat /\ Len(c) \in Nat
      /\ inbox' \in Seq(Commands) /\ Len(inbox') = Len(inbox) + Len(a) + Len(b) + Len(c)
      /\ \A k \in 1..Len(inbox') : inbox'[k] =
            IF k <= Len(inbox) THEN inbox[k]
            ELSE IF k <= Len(inbox) + Len(a) THEN a[k - Len(inbox)]
            ELSE IF k <= Len(inbox) + Len(a) + Len(b) THEN b[k - Len(inbox) - Len(a)]
            ELSE c[k - Len(inbox) - Len(a) - Len(b)]
  BY <1>2, <1>5
<1> DEFINE FromA(k) == k - Len(inbox) \in 1..Len(a) /\ inbox'[k] = a[k - Len(inbox)]
           FromB(k) == /\ k - Len(inbox) - Len(a) \in 1..Len(b)
                       /\ inbox'[k] = b[k - Len(inbox) - Len(a)]
           FromC(k) == /\ k - Len(inbox) - Len(a) - Len(b) \in 1..Len(c)
                       /\ inbox'[k] = c[k - Len(inbox) - Len(a) - Len(b)]
<1>8. \A k \in 1..Len(inbox') :
         (k \in 1..Len(inbox) /\ inbox'[k] = inbox[k]) \/ FromA(k) \/ FromB(k) \/ FromC(k)
  BY <1>7
<1>9. \A k \in 1..Len(inbox') :
         /\ FromA(k) => inbox'[k].cmd = "deploy" /\ New(inbox'[k])
         /\ FromB(k) => inbox'[k].cmd = "run" /\ New(inbox'[k])
         /\ FromC(k) => inbox'[k].cmd = "stop" /\ New(inbox'[k])
  BY <1>6 DEF New
<1>10. ASSUME NEW j \in 1..Len(inbox'), NEW k \in 1..Len(inbox'), inbox'[j] = inbox'[k]
       PROVE  /\ FromA(j) /\ FromA(k) => j = k
              /\ FromB(j) /\ FromB(k) => j = k
              /\ FromC(j) /\ FromC(k) => j = k
  <2>1. j \in Int /\ k \in Int /\ Len(inbox) \in Int /\ Len(a) \in Int /\ Len(b) \in Int
    BY <1>7
  <2>2. ASSUME FromA(j), FromA(k) PROVE j = k
    <3>1. j - Len(inbox) = k - Len(inbox)
      BY <1>3, <1>10, <2>2
    <3>2. QED
      BY <2>1, <3>1
  <2>3. ASSUME FromB(j), FromB(k) PROVE j = k
    <3>1. j - Len(inbox) - Len(a) = k - Len(inbox) - Len(a)
      BY <1>3, <1>10, <2>3
    <3>2. QED
      BY <2>1, <3>1
  <2>4. ASSUME FromC(j), FromC(k) PROVE j = k
    <3>1. j - Len(inbox) - Len(a) - Len(b) = k - Len(inbox) - Len(a) - Len(b)
      BY <1>3, <1>10, <2>4
    <3>2. QED
      BY <2>1, <3>1
  <2>5. QED
    BY <2>2, <2>3, <2>4
<1>11. \A k \in 1..Len(inbox) : k \in 1..Len(inbox') /\ inbox'[k] = inbox[k]
  BY <1>7
<1>12. inbox' \in Seq(Commands)
  BY <1>7
<1> HIDE DEF FromA, FromB, FromC
<1>13. \A k \in 1..Len(inbox') : (k \in 1..Len(inbox) /\ inbox'[k] = inbox[k]) \/ New(inbox'[k])
  BY <1>8, <1>9
<1>14. ASSUME NEW j \in 1..Len(inbox'), NEW k \in 1..Len(inbox'), inbox'[j] = inbox'[k], j # k,
              j \notin 1..Len(inbox), k \notin 1..Len(inbox)
       PROVE  FALSE
  <2>1. FromA(j) \/ FromB(j) \/ FromC(j)
    BY <1>8, <1>14
  <2>2. FromA(k) \/ FromB(k) \/ FromC(k)
    BY <1>8, <1>14
  <2>3. "deploy" # "run" /\ "deploy" # "stop" /\ "run" # "stop"
    OBVIOUS
  <2>4. \/ FromA(j) /\ FromA(k)
        \/ FromB(j) /\ FromB(k)
        \/ FromC(j) /\ FromC(k)
    BY <1>9, <1>14, <2>1, <2>2, <2>3
  <2>5. QED
    BY <1>10, <1>14, <2>4
<1>15. \A j, k \in 1..Len(inbox') :
          inbox'[j] = inbox'[k] /\ j # k => \E l \in {j, k} : l \in 1..Len(inbox)
  BY <1>14
<1>16. QED
  BY <1>11, <1>12, <1>13, <1>15

-----------------------------------------------------------------------------
(* What a step that neither polls nor starts a task does to the tasks and reports: tasks stay  *)
(* what they are, or end, and reports are repeated or speak of a run that exists.              *)
Goes(s) ==
    \/ slot'[s] = slot[s]
    \/ slot'[s] = Free
    \/ /\ slot'[s].id = slot[s].id
       /\ \/ /\ slot[s].at \in RunPoints /\ slot'[s].at \in RunPoints \ {"running"}
             /\ slot'[s].at = "build" => slot[s].at = "running"
          \/ slot[s].at \in StopPoints /\ slot'[s].at \in StopPoints
          \/ slot[s].at \in DeployPoints /\ slot'[s].at \in DeployPoints

Sayable(m) ==
    m.of = "run" =>
        \/ \E n \in net : n.of = "run" /\ n.id = m.id /\ n.status = m.status
        \/ Known(m.id) /\ (m.status = "completed" => child[m.id] = "ok")

Effect ==
    /\ SlotTypes' /\ net' \subseteq Reports
    /\ \A s \in Slots : Goes(s)
    /\ \A m \in net' : Sayable(m)

(* Tasks of runs and stops work for runs that exist. *)
LEMMA WorkerKnown ==
    ASSUME Inv, NEW s \in Slots, slot[s].at \in RunPoints \cup StopPoints
    PROVE  slot[s].id \in Runs /\ Known(slot[s].id)
<1>1. slot[s].id \in Runs
  BY TaskType DEF Inv
<1>2. CASE slot[s].at \in RunPoints
  <2>1. Job(slot[s].id) \in Jobs /\ Does(s, Job(slot[s].id))
    BY <1>1, <1>2 DEF Job, Jobs, Does
  <2>2. ~Unissued(Job(slot[s].id))
    BY <2>1 DEF Inv, Once
  <2>3. QED
    BY <1>1, <2>2 DEF Unissued, Status, Job, Known
<1>3. CASE slot[s].at \in StopPoints
  BY <1>1, <1>3 DEF Inv, Named
<1>4. QED
  BY <1>2, <1>3

LEMMA FreeTyped == Free \in Tasks \cup {Free}
  OBVIOUS

(* Nothing is said that was not said. *)
LEMMA Unsaid ==
    ASSUME \A m \in net' : \E n \in net : n.of = m.of /\ n.id = m.id /\ n.status = m.status
    PROVE  \A m \in net' : Sayable(m)
BY DEF Sayable

LEMMA UntouchedTasks ==
    ASSUME Inv, UNCHANGED slot, net' \subseteq net
    PROVE  Effect
<1>1. SlotTypes' /\ net' \subseteq Reports
  BY DEF Inv, TypeOK, SlotTypes
<1>2. \A s \in Slots : Goes(s)
  BY DEF Goes
<1>3. \A m \in net' : Sayable(m)
  BY DEF Sayable
<1>4. QED
  BY <1>1, <1>2, <1>3 DEF Effect

LEMMA ReportEffect ==
    ASSUME Inv, NEW s \in Slots, NEW point, NEW status, NEW m, net' = net \cup {m}, MoveTo(s, point),
           \/ /\ m = RunReport(s, slot[s].id, status) /\ status \in {"running"} \cup Terminal
              /\ status = "completed" => child[slot[s].id] = "ok"
              /\ \/ slot[s].at \in RunPoints /\ point \in {"report", "except"}
                 \/ slot[s].at \in StopPoints /\ point \in StopPoints
           \/ /\ m = Ack(s, slot[s].id, status) /\ status \in {"deployed", "failed"}
              /\ slot[s].at \in DeployPoints /\ point \in DeployPoints
    PROVE  Effect
<1>1. TypeOK
  BY DEF Inv
<1>2. /\ SlotTypes'
      /\ slot'[s].at = point /\ slot'[s].id = slot[s].id
      /\ \A t \in Slots : t # s => slot'[t] = slot[t]
  BY <1>1, MoveType DEF SlotTypes, RunPoints, StopPoints
<1>3. \A t \in Slots : Goes(t)
  BY <1>2 DEF Goes, RunPoints
<1>4. m \in Reports /\ Sayable(m)
  <2>1. CASE /\ m = RunReport(s, slot[s].id, status) /\ status \in {"running"} \cup Terminal
             /\ status = "completed" => child[slot[s].id] = "ok"
             /\ slot[s].at \in RunPoints \cup StopPoints
    <3>1. slot[s].id \in Runs /\ Known(slot[s].id)
      BY <2>1, WorkerKnown
    <3>2. m \in Reports
      BY <2>1, <3>1, ReportType
    <3>3. m.id = slot[s].id /\ m.status = status
      BY <2>1 DEF RunReport
    <3>4. QED
      BY <2>1, <3>1, <3>2, <3>3 DEF Sayable
  <2>2. CASE /\ m = Ack(s, slot[s].id, status) /\ status \in {"deployed", "failed"}
             /\ slot[s].at \in DeployPoints
    <3>1. slot[s].id \in Deployments
      BY <1>1, <2>2, TaskType
    <3>2. m \in Reports
      BY <2>2, <3>1, ReportType
    <3>3. m.of = "deployment"
      BY <2>2 DEF Ack
    <3>4. QED
      BY <3>2, <3>3 DEF Sayable
  <2>3. QED
    BY <2>1, <2>2
<1>5. net \subseteq Reports
  BY <1>1 DEF TypeOK
<1>6. \A n \in net' : Sayable(n)
  <2>1. \A n \in net : Sayable(n)
    BY DEF Sayable
  <2>2. QED
    BY <1>4, <2>1
<1>7. QED
  BY <1>2, <1>3, <1>4, <1>5, <1>6 DEF Effect

(* A task that ends, and one that goes on without a report. *)
LEMMA FreedEffect ==
    ASSUME Inv, NEW s \in Slots, slot' = [slot EXCEPT ![s] = Free],
           net' \subseteq Reports,
           \A m \in net' : \E n \in net : n.of = m.of /\ n.id = m.id /\ n.status = m.status
    PROVE  Effect
<1>1. slot \in [Slots -> Tasks \cup {Free}]
  BY DEF Inv, TypeOK
<1>2. SlotTypes' /\ \A t \in Slots : Goes(t)
  BY <1>1, FreeTyped DEF SlotTypes, Goes
<1>3. QED
  BY <1>2, Unsaid DEF Effect

LEMMA MovedEffect ==
    ASSUME Inv, NEW s \in Slots, NEW point, MoveTo(s, point), net' \subseteq net,
           slot[s].at \in RunPoints, point \in RunPoints \ {"running"},
           point = "build" => slot[s].at = "running"
    PROVE  Effect
<1>1. TypeOK
  BY DEF Inv
<1>2. /\ SlotTypes'
      /\ slot'[s].at = point /\ slot'[s].id = slot[s].id
      /\ \A t \in Slots : t # s => slot'[t] = slot[t]
  BY <1>1, MoveType DEF SlotTypes
<1>3. \A t \in Slots : Goes(t)
  BY <1>2 DEF Goes
<1>4. net' \subseteq Reports /\ \A m \in net' : Sayable(m)
  BY <1>1 DEF TypeOK, Sayable
<1>5. QED
  BY <1>2, <1>3, <1>4 DEF Effect

LEMMA WorkEffect ==
    Inv => \A s \in Slots :
        Prepare(s) \/ Spawn(s) \/ BuildFails(s) \/ StreamEnds(s) \/ StreamBreaks(s)
            \/ Kill(s) \/ StopReturns(s) => Effect
<1> SUFFICES ASSUME Inv, NEW s \in Slots
             PROVE  Prepare(s) \/ Spawn(s) \/ BuildFails(s) \/ StreamEnds(s) \/ StreamBreaks(s)
                       \/ Kill(s) \/ StopReturns(s) => Effect
  OBVIOUS
<1>1. ASSUME Prepare(s) PROVE Effect
  <2>1. PICK status \in {"deployed", "failed"}, point \in DeployPoints :
           slot[s].at \in DeployPoints /\ MoveTo(s, point) /\ net' = net \cup {Ack(s, slot[s].id, status)}
    BY <1>1 DEF Prepare, PostAck, DeployPoints
  <2>2. QED
    BY <2>1, ReportEffect
<1>2. ASSUME Spawn(s) PROVE Effect
  <2>1. MoveTo(s, "stream") /\ net' \subseteq net /\ slot[s].at \in RunPoints
    BY <1>2 DEF Spawn, RunPoints
  <2>2. QED
    BY <2>1, MovedEffect DEF RunPoints
<1>3. ASSUME BuildFails(s) \/ StreamBreaks(s) PROVE Effect
  <2>1. MoveTo(s, "except") /\ slot[s].at \in RunPoints /\ net' = net \cup {RunReport(s, slot[s].id, "failed")}
    BY <1>3 DEF BuildFails, StreamBreaks, PostStatus, RunPoints
  <2>2. QED
    BY <2>1, ReportEffect DEF Terminal
<1>4. ASSUME StreamEnds(s) PROVE Effect
  <2>1. /\ MoveTo(s, "report") /\ slot[s].at \in RunPoints
        /\ net' = net \cup {RunReport(s, slot[s].id, FinalStatus(slot[s].id))}
    BY <1>4 DEF StreamEnds, PostStatus, RunPoints
  <2>2. /\ FinalStatus(slot[s].id) \in Terminal
        /\ FinalStatus(slot[s].id) = "completed" => child[slot[s].id] = "ok"
    BY DEF FinalStatus, Terminal
  <2>3. QED
    BY <2>1, <2>2, ReportEffect
<1>5. ASSUME Kill(s) PROVE Effect
  BY <1>5, UntouchedTasks DEF Kill, agentVars
<1>6. ASSUME StopReturns(s) PROVE Effect
  <2>1. MoveTo(s, "stopped") /\ slot[s].at \in StopPoints /\ net' = net \cup {RunReport(s, slot[s].id, "stopped")}
    BY <1>6 DEF StopReturns, PostStatus, StopPoints
  <2>2. QED
    BY <2>1, ReportEffect DEF Terminal, StopPoints
<1>7. QED
  BY <1>1, <1>2, <1>3, <1>4, <1>5, <1>6

LEMMA ReplyEffect ==
    Inv => \A m \in net :
        Answered(m) \/ Refused(m) \/ GivesUp(m) \/ ArrivesLate(m) \/ NeverArrives(m) => Effect
<1> SUFFICES ASSUME Inv, NEW m \in net
             PROVE  Answered(m) \/ Refused(m) \/ GivesUp(m) \/ ArrivesLate(m) \/ NeverArrives(m)
                       => Effect
  OBVIOUS
<1>1. m \in Reports /\ net \subseteq Reports
  BY DEF Inv, TypeOK
<1>2. ASSUME Answered(m) \/ Refused(m) PROVE Effect
  <2>1. m.slot \in Slots /\ net' = net \ {m} /\ Resume(m.slot)
    BY <1>1, <1>2, ReportFacts DEF Answered, Refused
  <2>2. CASE slot[m.slot].at = "running" /\ MoveTo(m.slot, "build")
    BY <2>1, <2>2, MovedEffect DEF RunPoints
  <2>3. CASE Finish(m.slot)
    BY <1>1, <2>1, <2>3, FreedEffect DEF Finish
  <2>4. QED
    BY <2>1, <2>2, <2>3 DEF Resume
<1>3. ASSUME ArrivesLate(m) \/ NeverArrives(m) PROVE Effect
  BY <1>3, UntouchedTasks DEF ArrivesLate, NeverArrives, agentVars
<1>4. ASSUME GivesUp(m) PROVE Effect
  <2> DEFINE late == (net \ {m}) \cup {[m EXCEPT !.slot = None]}
  <2>1. m.slot \in Slots
    BY <1>1, <1>4, ReportFacts DEF GivesUp
  <2>2. /\ late \subseteq Reports
        /\ \A l \in late : \E n \in net : n.of = l.of /\ n.id = l.id /\ n.status = l.status
    BY <1>1, ReportType
  <2>3. \/ /\ slot[m.slot].at \in {"running", "report"} /\ MoveTo(m.slot, "except")
           /\ net' = late \cup {RunReport(m.slot, slot[m.slot].id, "failed")}
        \/ /\ slot[m.slot].at = "ack" /\ MoveTo(m.slot, "nack")
           /\ net' = late \cup {Ack(m.slot, slot[m.slot].id, "failed")}
        \/ slot' = [slot EXCEPT ![m.slot] = Free] /\ net' = late
    BY <1>4 DEF GivesUp, Finish
  <2> HIDE DEF late
  <2>4. CASE slot' = [slot EXCEPT ![m.slot] = Free] /\ net' = late
    BY <2>1, <2>2, <2>4, FreedEffect
  <2>5. CASE /\ slot[m.slot].at \in {"running", "report"} /\ MoveTo(m.slot, "except")
             /\ net' = late \cup {RunReport(m.slot, slot[m.slot].id, "failed")}
    <3>1. slot[m.slot].at \in RunPoints /\ slot[m.slot].id \in Runs /\ Known(slot[m.slot].id)
      BY <2>1, <2>5, WorkerKnown DEF RunPoints
    <3>2. SlotTypes' /\ \A t \in Slots : Goes(t)
      <4>1. /\ SlotTypes'
            /\ slot'[m.slot].at = "except" /\ slot'[m.slot].id = slot[m.slot].id
            /\ \A t \in Slots : t # m.slot => slot'[t] = slot[t]
        BY <2>1, <2>5, <3>1, MoveType DEF Inv, SlotTypes, RunPoints
      <4>2. QED
        BY <3>1, <4>1 DEF Goes, RunPoints
    <3>3. RunReport(m.slot, slot[m.slot].id, "failed") \in Reports
      BY <2>1, <3>1, ReportType DEF Terminal
    <3>4. Sayable(RunReport(m.slot, slot[m.slot].id, "failed"))
      BY <3>1 DEF Sayable, RunReport
    <3>5. \A l \in late : Sayable(l)
      BY <2>2 DEF Sayable
    <3>6. QED
      BY <2>2, <2>5, <3>2, <3>3, <3>4, <3>5 DEF Effect
  <2>6. CASE /\ slot[m.slot].at = "ack" /\ MoveTo(m.slot, "nack")
             /\ net' = late \cup {Ack(m.slot, slot[m.slot].id, "failed")}
    <3>1. slot[m.slot].at \in DeployPoints /\ slot[m.slot].id \in Deployments
      BY <2>1, <2>6, TaskType DEF DeployPoints, Inv
    <3>2. SlotTypes' /\ \A t \in Slots : Goes(t)
      <4>1. /\ SlotTypes'
            /\ slot'[m.slot].at = "nack" /\ slot'[m.slot].id = slot[m.slot].id
            /\ \A t \in Slots : t # m.slot => slot'[t] = slot[t]
        BY <2>1, <2>6, <3>1, MoveType DEF Inv, SlotTypes, DeployPoints
      <4>2. QED
        BY <3>1, <4>1 DEF Goes, DeployPoints
    <3>3. Ack(m.slot, slot[m.slot].id, "failed") \in Reports
      BY <2>1, <3>1, ReportType
    <3>4. Sayable(Ack(m.slot, slot[m.slot].id, "failed"))
      BY DEF Sayable, Ack
    <3>5. \A l \in late : Sayable(l)
      BY <2>2 DEF Sayable
    <3>6. QED
      BY <2>2, <2>6, <3>2, <3>3, <3>4, <3>5 DEF Effect
  <2>7. QED
    BY <2>3, <2>4, <2>5, <2>6
<1>5. QED
  BY <1>2, <1>3, <1>4

LEMMA CrashEffect == ASSUME Inv, Crash PROVE Effect
<1>1. /\ slot' = [s \in Slots |-> Free]
      /\ net' = {[m EXCEPT !.slot = None] : m \in net} /\ net \subseteq Reports
  BY DEF Crash, Inv, TypeOK
<1>2. SlotTypes' /\ \A s \in Slots : Goes(s)
  BY <1>1, FreeTyped DEF SlotTypes, Goes
<1>3. /\ net' \subseteq Reports
      /\ \A m \in net' : \E n \in net : n.of = m.of /\ n.id = m.id /\ n.status = m.status
  <2>1. ASSUME NEW m \in net'
        PROVE  m \in Reports /\ \E n \in net : n.of = m.of /\ n.id = m.id /\ n.status = m.status
    <3>1. PICK n \in net : m = [n EXCEPT !.slot = None]
      BY <1>1
    <3>2. n \in Reports
      BY <1>1
    <3>3. QED
      BY <3>1, <3>2, ReportType
  <2>2. QED
    BY <2>1
<1>4. QED
  BY <1>2, <1>3, Unsaid DEF Effect

(* The steps that are neither polls nor the start of a task. *)
Other ==
    \/ \E r \in Runs, p \in Procs : RunProcess(r, p)
    \/ \E d \in Deployments, p \in Procs : DeployProcess(d, p)
    \/ \E p \in Procs : DeleteProcess(p)
    \/ \E r \in Runs : StopSelect(r) \/ ChildExits(r)
    \/ StopCommit \/ StopRollback \/ PollLost \/ Crash
    \/ \E s \in Slots : Prepare(s) \/ Spawn(s) \/ BuildFails(s) \/ StreamEnds(s)
                         \/ StreamBreaks(s) \/ Kill(s) \/ StopReturns(s)
    \/ \E m \in net : Answered(m) \/ Refused(m) \/ GivesUp(m) \/ ArrivesLate(m) \/ NeverArrives(m)

LEMMA Steps == Next => Other \/ Poll \/ \E s \in Slots : StartDeploy(s) \/ StartRun(s) \/ StartStop(s)
BY DEF Next, Other, Task

LEMMA OtherEffect == ASSUME Inv, Other PROVE Effect /\ (inbox' = inbox \/ inbox' = <<>>)
<1>1. CASE \/ \E r \in Runs, p \in Procs : RunProcess(r, p)
           \/ \E d \in Deployments, p \in Procs : DeployProcess(d, p)
           \/ \E p \in Procs : DeleteProcess(p)
           \/ \E r \in Runs : StopSelect(r) \/ ChildExits(r)
           \/ StopCommit \/ StopRollback \/ PollLost
  <2>1. UNCHANGED <<agentVars, net>>
    BY <1>1 DEF RunProcess, DeployProcess, DeleteProcess, StopSelect, ChildExits, StopCommit,
                StopRollback, PollLost
  <2>2. QED
    BY <2>1, UntouchedTasks DEF agentVars
<1>2. CASE Crash
  BY <1>2, CrashEffect DEF Crash
<1>3. CASE \E s \in Slots : Prepare(s) \/ Spawn(s) \/ BuildFails(s) \/ StreamEnds(s)
                         \/ StreamBreaks(s) \/ Kill(s) \/ StopReturns(s)
  <2>1. inbox' = inbox
    BY <1>3 DEF Prepare, Spawn, BuildFails, StreamEnds, StreamBreaks, Kill, StopReturns, agentVars
  <2>2. QED
    BY <1>3, <2>1, WorkEffect
<1>4. CASE \E m \in net : Answered(m) \/ Refused(m) \/ GivesUp(m) \/ ArrivesLate(m) \/ NeverArrives(m)
  <2>1. inbox' = inbox
    BY <1>4 DEF Answered, Refused, GivesUp, ArrivesLate, NeverArrives, agentVars
  <2>2. QED
    BY <1>4, <2>1, ReplyEffect
<1>5. QED
  BY <1>1, <1>2, <1>3, <1>4 DEF Other

-----------------------------------------------------------------------------
(* The start of a task: the head of the queue becomes the task of a slot that was free. *)
Begins(s) ==
    /\ slot[s] = Free
    /\ inbox # <<>> /\ inbox' = Tail(inbox)
    /\ slot'[s].id = Head(inbox).id
    /\ \/ Head(inbox).cmd = "run" /\ slot'[s].at = "running"
       \/ Head(inbox).cmd = "stop" /\ slot'[s].at \in StopPoints
       \/ Head(inbox).cmd = "deploy" /\ slot'[s].at = "prepare"
    /\ \A t \in Slots : t # s => slot'[t] = slot[t]

QueueFacts ==
    /\ Len(inbox) \in Nat
    /\ \A k \in 1..Len(inbox) : inbox[k] \in Commands
    /\ inbox # <<>> =>
          /\ 1 \in 1..Len(inbox) /\ Head(inbox) = inbox[1]
          /\ Tail(inbox) \in Seq(Commands) /\ Len(Tail(inbox)) = Len(inbox) - 1
          /\ \A k \in 1..Len(Tail(inbox)) : Tail(inbox)[k] = inbox[k + 1] /\ k + 1 \in 1..Len(inbox)

LEMMA QueueHolds == ASSUME TypeOK PROVE QueueFacts
<1>1. inbox \in Seq(Commands)
  BY DEF TypeOK
<1>2. QED
  BY <1>1 DEF QueueFacts

LEMMA HeadFacts ==
    ASSUME Inv, inbox # <<>>
    PROVE  /\ Head(inbox) \in Commands
           /\ Head(inbox).cmd \in {"run", "stop"} => Head(inbox).id \in Runs /\ Known(Head(inbox).id)
           /\ Head(inbox).cmd = "deploy" => Head(inbox).id \in Deployments
<1>1. QueueFacts
  BY QueueHolds DEF Inv
<1>2. Head(inbox) \in Commands /\ Head(inbox) = inbox[1] /\ 1 \in 1..Len(inbox)
  BY <1>1 DEF QueueFacts
<1>3. /\ Head(inbox).cmd \in {"run", "stop"} => Head(inbox).id \in Runs
      /\ Head(inbox).cmd = "deploy" => Head(inbox).id \in Deployments
      /\ Head(inbox).cmd = "run" => Head(inbox) = Job(Head(inbox).id)
  BY <1>2 DEF Commands, Job
<1>4. CASE Head(inbox).cmd = "run"
  <2>1. Head(inbox) \in Jobs /\ Queued(Head(inbox), 1)
    BY <1>2, <1>3, <1>4 DEF Job, Jobs, Queued
  <2>2. ~Unissued(Head(inbox))
    BY <2>1 DEF Inv, Once
  <2>3. QED
    BY <1>2, <1>3, <1>4, <2>2 DEF Unissued, Status, Known
<1>5. CASE Head(inbox).cmd = "stop"
  BY <1>2, <1>3, <1>5 DEF Inv, Named
<1>6. QED
  BY <1>2, <1>3, <1>4, <1>5

LEMMA StartEffect ==
    ASSUME Inv
    PROVE  \A s \in Slots : StartDeploy(s) \/ StartRun(s) \/ StartStop(s) =>
              /\ SlotTypes' /\ net' \subseteq Reports /\ inbox' \in Seq(Commands)
              /\ Begins(s)
              /\ \A m \in net' : Sayable(m)
<1>1. TypeOK /\ QueueFacts
  BY QueueHolds DEF Inv
<1> DEFINE h == Head(inbox)
<1>2. ASSUME NEW s \in Slots, NEW task, NEW cmd, Start(s, cmd, task), task \in Tasks
      PROVE  /\ SlotTypes' /\ slot'[s] = task /\ slot[s] = Free
             /\ \A t \in Slots : t # s => slot'[t] = slot[t]
             /\ inbox' \in Seq(Commands) /\ inbox # <<>> /\ inbox' = Tail(inbox) /\ h.cmd = cmd
  BY <1>1, <1>2 DEF Start, TypeOK, SlotTypes, QueueFacts
<1>3. net \subseteq Reports /\ \A m \in net : Sayable(m)
  BY <1>1 DEF TypeOK, Sayable
<1>4. ASSUME NEW s \in Slots, StartDeploy(s)
      PROVE  /\ SlotTypes' /\ net' = net /\ inbox' \in Seq(Commands) /\ Begins(s)
  <2> DEFINE task == [at |-> "prepare", id |-> h.id, victim |-> None]
  <2>1. Start(s, "deploy", task) /\ net' = net
    BY <1>4 DEF StartDeploy
  <2>2. inbox # <<>> /\ h.cmd = "deploy"
    BY <2>1 DEF Start
  <2>3. task \in Tasks /\ task.id = h.id /\ task.at = "prepare"
    BY <2>2, HeadFacts DEF Tasks, DeployPoints
  <2> HIDE DEF task
  <2>4. QED
    BY <1>2, <2>1, <2>2, <2>3 DEF Begins
<1>5. ASSUME NEW s \in Slots, StartRun(s)
      PROVE  /\ SlotTypes' /\ inbox' \in Seq(Commands) /\ Begins(s)
             /\ net' = net \cup {RunReport(s, h.id, "running")} /\ h.id \in Runs /\ Known(h.id)
  <2> DEFINE task == [at |-> "running", id |-> h.id, victim |-> None]
  <2>1. Start(s, "run", task) /\ net' = net \cup {RunReport(s, h.id, "running")}
    BY <1>5 DEF StartRun
  <2>2. inbox # <<>> /\ h.cmd = "run"
    BY <2>1 DEF Start
  <2>3. task \in Tasks /\ task.id = h.id /\ task.at = "running"
    BY <2>2, HeadFacts DEF Tasks, RunPoints
  <2> HIDE DEF task
  <2>4. h.id \in Runs /\ Known(h.id)
    BY <2>2, HeadFacts
  <2>5. QED
    BY <1>2, <2>1, <2>2, <2>3, <2>4 DEF Begins
<1>6. ASSUME NEW s \in Slots, StartStop(s)
      PROVE  /\ SlotTypes' /\ inbox' \in Seq(Commands) /\ Begins(s)
             /\ net' = net \/ net' = net \cup {RunReport(s, h.id, "stopped")}
             /\ h.id \in Runs /\ Known(h.id)
  <2>1. PICK at \in StopPoints, victim \in {None, handle[run[h.id].proc]} :
           /\ Start(s, "stop", [at |-> at, id |-> h.id, victim |-> victim])
           /\ net' = net \/ net' = net \cup {RunReport(s, h.id, "stopped")}
    BY <1>6 DEF StartStop, StopPoints
  <2> DEFINE task == [at |-> at, id |-> h.id, victim |-> victim]
  <2>2. inbox # <<>> /\ h.cmd = "stop"
    BY <2>1 DEF Start
  <2>3. h.id \in Runs /\ Known(h.id)
    BY <2>2, HeadFacts
  <2>4. run[h.id].proc \in Procs
    BY <2>3 DEF Inv, Named
  <2>5. victim \in Runs \cup {None}
    BY <1>1, <2>4 DEF TypeOK
  <2>6. task \in Tasks /\ task.id = h.id /\ task.at \in StopPoints
    BY <2>3, <2>5 DEF Tasks
  <2> HIDE DEF task
  <2>7. Start(s, "stop", task)
    BY <2>1 DEF task
  <2>8. QED
    BY <1>2, <2>1, <2>2, <2>3, <2>6, <2>7 DEF Begins
<1>7. ASSUME NEW s \in Slots, h.id \in Runs, Known(h.id), NEW status \in {"running", "stopped"}
      PROVE  RunReport(s, h.id, status) \in Reports /\ Sayable(RunReport(s, h.id, status))
  <2>1. RunReport(s, h.id, status) \in Reports
    BY <1>7, ReportType DEF Terminal
  <2>2. QED
    BY <1>7, <2>1 DEF Sayable, RunReport
<1>8. QED
  BY <1>3, <1>4, <1>5, <1>6, <1>7

-----------------------------------------------------------------------------
(* Children.  A child that is started was never started before. *)
ChildMoves(r) ==
    \/ child'[r] = child[r]
    \/ child[r] = "none" /\ child'[r] = "alive" /\ \E s \in Slots : Spawn(s) /\ slot[s].id = r
    \/ child[r] = "alive" /\ child'[r] \in {"ok", "bad", "killed"}

LEMMA ChildStep ==
    ASSUME Inv, Next
    PROVE  /\ child' \in [Runs -> {"none", "alive", "ok", "bad", "killed"}]
           /\ \A r \in Runs : ChildMoves(r)
<1>1. TypeOK /\ child \in [Runs -> {"none", "alive", "ok", "bad", "killed"}]
  BY DEF Inv, TypeOK
<1>2. ASSUME child' = child PROVE /\ child' \in [Runs -> {"none", "alive", "ok", "bad", "killed"}]
                                  /\ \A r \in Runs : ChildMoves(r)
  BY <1>1, <1>2 DEF ChildMoves
<1>3. CASE Other
  <2>1. ASSUME NEW s \in Slots, Spawn(s)
        PROVE  /\ child' \in [Runs -> {"none", "alive", "ok", "bad", "killed"}]
               /\ \A r \in Runs : ChildMoves(r)
    <3>1. slot[s].at = "build" /\ child' = [child EXCEPT ![slot[s].id] = "alive"]
      BY <2>1 DEF Spawn
    <3>2. slot[s].id \in Runs /\ child[slot[s].id] = "none"
      <4>1. slot[s].id \in Runs
        BY <3>1, WorkerKnown DEF RunPoints
      <4>2. Ahead(slot[s].id)
        BY <3>1 DEF Ahead
      <4>3. QED
        BY <4>1, <4>2 DEF Inv
    <3>3. QED
      BY <1>1, <2>1, <3>1, <3>2 DEF ChildMoves
  <2>2. ASSUME NEW s \in Slots, Kill(s)
        PROVE  /\ child' \in [Runs -> {"none", "alive", "ok", "bad", "killed"}]
               /\ \A r \in Runs : ChildMoves(r)
    BY <1>1, <2>2 DEF Kill, ChildMoves
  <2>3. ASSUME NEW q \in Runs, ChildExits(q)
        PROVE  /\ child' \in [Runs -> {"none", "alive", "ok", "bad", "killed"}]
               /\ \A r \in Runs : ChildMoves(r)
    BY <1>1, <2>3 DEF ChildExits, ChildMoves
  <2>4. CASE \/ \E s \in Slots : Prepare(s) \/ BuildFails(s) \/ StreamEnds(s)
                                  \/ StreamBreaks(s) \/ StopReturns(s)
             \/ \E m \in net : Answered(m) \/ Refused(m) \/ GivesUp(m) \/ ArrivesLate(m)
                               \/ NeverArrives(m)
    <3>1. child' = child
      BY <2>4 DEF Prepare, BuildFails, StreamEnds, StreamBreaks, StopReturns, Answered, Refused, GivesUp,
                  ArrivesLate, NeverArrives
    <3>2. QED
      BY <1>2, <3>1
  <2>5. CASE \/ \E r \in Runs, p \in Procs : RunProcess(r, p)
             \/ \E d \in Deployments, p \in Procs : DeployProcess(d, p)
             \/ \E p \in Procs : DeleteProcess(p)
             \/ \E r \in Runs : StopSelect(r)
             \/ StopCommit \/ StopRollback \/ PollLost \/ Crash
    <3>1. child' = child
      BY <2>5 DEF RunProcess, DeployProcess, DeleteProcess, StopSelect, StopCommit, StopRollback,
                  PollLost, Crash
    <3>2. QED
      BY <1>2, <3>1
  <2>6. QED
    BY <1>3, <2>1, <2>2, <2>3, <2>4, <2>5 DEF Other
<1>4. CASE Poll
  BY <1>2, <1>4 DEF Poll
<1>5. CASE \E s \in Slots : StartDeploy(s) \/ StartRun(s) \/ StartStop(s)
  <2>1. child' = child
    BY <1>5 DEF StartDeploy, StartRun, StartStop, Start
  <2>2. QED
    BY <1>2, <2>1
<1>6. QED
  BY <1>3, <1>4, <1>5, Steps

(* Handles. *)
Working == {"stream", "report", "except"}

LEMMA HandleKept ==
    ASSUME Inv, RowsMove, handle' \in [Procs -> Runs \cup {None}],
           \A p \in Procs : handle'[p] # None =>
              /\ handle'[p] = handle[p]
              /\ \E s \in Slots : slot'[s].id = handle[p] /\ slot'[s].at \in Working
    PROVE  handle' \in [Procs -> Runs \cup {None}] /\ HandlesOK'
<1>1. ASSUME NEW p \in Procs, handle'[p] # None PROVE run'[handle'[p]].proc = p
  <2>1. handle'[p] = handle[p] /\ handle[p] \in Runs
    BY <1>1
  <2>2. run[handle[p]].proc = p /\ \E s \in Slots : slot[s].id = handle[p] /\ slot[s].at \in Working
    BY <1>1, <2>1 DEF Inv, HandlesOK, HandleHasTask, Working
  <2>3. Known(handle[p])
    BY <2>2, WorkerKnown DEF Working, RunPoints
  <2>4. QED
    BY <2>1, <2>2, <2>3 DEF RowsMove
<1>2. HandleHasTask'
  BY DEF HandleHasTask, Working
<1>3. QED
  BY <1>1, <1>2 DEF HandlesOK

(* A handle stays, or is dropped, while the task that registered it goes on. *)
LEMMA HandleDropped ==
    ASSUME Inv, RowsMove,
           handle' \in [Procs -> Runs \cup {None}],
           \A p \in Procs : handle'[p] = handle[p] \/ handle'[p] = None,
           \A s \in Slots : slot[s].at \in Working =>
              \/ slot'[s].id = slot[s].id /\ slot'[s].at \in Working
              \/ \A p \in Procs : run[slot[s].id].proc = p => handle'[p] = None
    PROVE  handle' \in [Procs -> Runs \cup {None}] /\ HandlesOK'
<1>1. ASSUME NEW p \in Procs, handle'[p] # None
      PROVE  /\ handle'[p] = handle[p]
             /\ \E s \in Slots : slot'[s].id = handle[p] /\ slot'[s].at \in Working
  <2>1. handle'[p] = handle[p]
    BY <1>1
  <2>2. run[handle[p]].proc = p
    BY <1>1, <2>1 DEF Inv, HandlesOK
  <2>3. PICK s \in Slots : slot[s].id = handle[p] /\ slot[s].at \in Working
    BY <1>1, <2>1 DEF Inv, HandlesOK, HandleHasTask, Working
  <2>4. QED
    BY <1>1, <2>1, <2>2, <2>3
<1>2. QED
  BY <1>1, HandleKept

LEMMA GoesOn ==
    ASSUME NEW s \in Slots, Goes(s), slot[s].at \in Working, slot'[s] # Free
    PROVE  slot'[s].id = slot[s].id /\ slot'[s].at \in Working
BY DEF Goes, Working, RunPoints, StopPoints, DeployPoints

LEMMA HandleStep == ASSUME Inv, Next PROVE handle' \in [Procs -> Runs \cup {None}] /\ HandlesOK'
<1>1. RowsMove /\ TypeOK /\ handle \in [Procs -> Runs \cup {None}]
  BY RowStep DEF Inv, TypeOK
<1>2. ASSUME handle' = handle,
             \A s \in Slots : slot[s].at \in Working =>
                                 slot'[s].id = slot[s].id /\ slot'[s].at \in Working
      PROVE  handle' \in [Procs -> Runs \cup {None}] /\ HandlesOK'
  BY <1>1, <1>2, HandleDropped
<1>3. CASE Other
  <2>1. \A s \in Slots : Goes(s)
    BY <1>3, OtherEffect DEF Effect
  <2>2. CASE \E s \in Slots : Prepare(s) \/ BuildFails(s) \/ StreamEnds(s) \/ StreamBreaks(s) \/ Kill(s)
    <3>1. handle' = handle
      BY <2>2 DEF Prepare, BuildFails, StreamEnds, StreamBreaks, Kill, agentVars
    <3>2. PICK s \in Slots : (\E at \in RunPoints \cup DeployPoints : MoveTo(s, at)) \/ slot' = slot
      BY <2>2 DEF Prepare, BuildFails, StreamEnds, StreamBreaks, Kill, agentVars, PostStatus, PostAck,
                  RunPoints, DeployPoints
    <3>3. ASSUME NEW t \in Slots, slot[t].at \in Working PROVE slot'[t].at # "free"
      <4>1. slot \in [Slots -> Tasks \cup {Free}] /\ slot[t].at # "free"
        BY <1>1, <3>3 DEF TypeOK, Working
      <4>2. CASE slot'[t] = slot[t]
        BY <4>1, <4>2
      <4>3. ASSUME NEW at \in RunPoints \cup DeployPoints, MoveTo(t, at) PROVE slot'[t].at # "free"
        <5>1. slot[t] \in Tasks /\ slot'[t] = [slot[t] EXCEPT !.at = at]
          BY <4>1, <4>3 DEF MoveTo, Free
        <5>2. slot'[t].at = at
          BY <5>1 DEF Tasks
        <5>3. QED
          BY <5>2 DEF RunPoints, DeployPoints
      <4>4. slot'[t] = slot[t] \/ \E at \in RunPoints \cup DeployPoints : MoveTo(t, at)
        BY <3>2, <4>1 DEF MoveTo
      <4>5. QED
        BY <4>2, <4>3, <4>4
    <3>4. QED
      BY <1>2, <2>1, <3>1, <3>3, GoesOn DEF Free
  <2>3. CASE \/ \E r \in Runs, p \in Procs : RunProcess(r, p)
             \/ \E d \in Deployments, p \in Procs : DeployProcess(d, p)
             \/ \E p \in Procs : DeleteProcess(p)
             \/ \E r \in Runs : StopSelect(r) \/ ChildExits(r)
             \/ StopCommit \/ StopRollback \/ PollLost
             \/ \E m \in net : ArrivesLate(m) \/ NeverArrives(m)
    <3>1. handle' = handle /\ slot' = slot
      BY <2>3 DEF RunProcess, DeployProcess, DeleteProcess, StopSelect, ChildExits, StopCommit,
                  StopRollback, PollLost, ArrivesLate, NeverArrives, agentVars
    <3>2. QED
      BY <1>2, <3>1
  <2>4. CASE Crash
    <3>1. handle' = [p \in Procs |-> None]
      BY <2>4 DEF Crash
    <3>2. QED
      BY <1>1, <3>1, HandleKept
  <2>5. CASE \E s \in Slots : StopReturns(s)
    <3>1. PICK s \in Slots : /\ slot[s].at = "kill" /\ MoveTo(s, "stopped")
                             /\ handle' = Forget(run[slot[s].id].proc)
      BY <2>5 DEF StopReturns, PostStatus
    <3>2. /\ handle' \in [Procs -> Runs \cup {None}]
          /\ \A p \in Procs : handle'[p] = handle[p] \/ handle'[p] = None
      BY <1>1, <3>1 DEF Forget
    <3>3. \A t \in Slots : slot[t].at \in Working => slot'[t] = slot[t]
      BY <1>1, <3>1 DEF MoveTo, TypeOK, Working
    <3>4. QED
      BY <1>1, <3>2, <3>3, HandleDropped
  <2>6. CASE \E s \in Slots : Spawn(s)
    <3>1. PICK s \in Slots : /\ slot[s].at = "build" /\ MoveTo(s, "stream")
                             /\ handle' = [handle EXCEPT ![run[slot[s].id].proc] = slot[s].id]
                             /\ run' = run
      BY <2>6 DEF Spawn, serverVars
    <3>2. slot[s].id \in Runs
      BY <3>1, WorkerKnown DEF RunPoints
    <3>3. /\ slot'[s].at = "stream" /\ slot'[s].id = slot[s].id
          /\ \A t \in Slots : t # s => slot'[t] = slot[t]
      BY <1>1, <3>1, MoveType DEF RunPoints
    <3>4. handle' \in [Procs -> Runs \cup {None}]
      BY <1>1, <3>1, <3>2
    <3>5. ASSUME NEW p \in Procs, handle'[p] # None
          PROVE  /\ run'[handle'[p]].proc = p
                 /\ \E t \in Slots : slot'[t].id = handle'[p] /\ slot'[t].at \in Working
      <4>1. CASE p = run[slot[s].id].proc
        <5>1. handle'[p] = slot[s].id
          BY <1>1, <3>1, <4>1
        <5>2. QED
          BY <3>1, <3>3, <4>1, <5>1 DEF Working
      <4>2. CASE p # run[slot[s].id].proc
        <5>1. handle'[p] = handle[p]
          BY <1>1, <3>1, <4>2
        <5>2. /\ run[handle[p]].proc = p
              /\ \E t \in Slots : slot[t].id = handle[p] /\ slot[t].at \in Working
          BY <3>5, <5>1 DEF Inv, HandlesOK, HandleHasTask, Working
        <5>3. QED
          BY <3>1, <3>3, <5>1, <5>2 DEF Working
      <4>3. QED
        BY <4>1, <4>2
    <3>6. QED
      BY <3>4, <3>5 DEF HandlesOK, HandleHasTask, Working
  <2>7. CASE \E m \in net : Answered(m) \/ Refused(m) \/ GivesUp(m)
    <3>1. PICK m \in net : Answered(m) \/ Refused(m) \/ GivesUp(m)
      BY <2>7
    <3>2. m.slot \in Slots
      BY <1>1, <3>1, ReportFacts DEF Answered, Refused, GivesUp, TypeOK
    <3>3. \/ handle' = handle /\ MoveTo(m.slot, "build") /\ slot[m.slot].at = "running"
          \/ handle' = handle /\ MoveTo(m.slot, "except") /\ slot[m.slot].at \in {"running", "report"}
          \/ handle' = handle /\ MoveTo(m.slot, "nack") /\ slot[m.slot].at = "ack"
          \/ Finish(m.slot)
          \/ handle' = handle /\ slot' = [slot EXCEPT ![m.slot] = Free] /\ slot[m.slot].at = "stopped"
      BY <3>1 DEF Answered, Refused, GivesUp, Resume
    <3>4. CASE \/ handle' = handle /\ MoveTo(m.slot, "build") /\ slot[m.slot].at = "running"
               \/ handle' = handle /\ MoveTo(m.slot, "except") /\ slot[m.slot].at \in {"running", "report"}
               \/ handle' = handle /\ MoveTo(m.slot, "nack") /\ slot[m.slot].at = "ack"
      <4>1. \A t \in Slots : slot[t].at \in Working => slot'[t] # Free
        <5>1. slot'[m.slot].at \in {"build", "except", "nack"} /\ \A t \in Slots : t # m.slot => slot'[t] = slot[t]
          BY <1>1, <3>2, <3>4, MoveType DEF RunPoints, DeployPoints
        <5>2. QED
          BY <5>1 DEF Free, Working
      <4>2. QED
        BY <1>2, <2>1, <3>4, <4>1, GoesOn
    <3>5. CASE handle' = handle /\ slot' = [slot EXCEPT ![m.slot] = Free] /\ slot[m.slot].at = "stopped"
      <4>1. \A t \in Slots : slot[t].at \in Working => slot'[t] = slot[t]
        BY <1>1, <3>2, <3>5 DEF TypeOK, Working
      <4>2. QED
        BY <1>2, <3>5, <4>1
    <3>6. CASE Finish(m.slot)
      <4>1. \A t \in Slots : t # m.slot => slot'[t] = slot[t]
        BY <1>1, <3>6 DEF Finish, TypeOK
      <4>2. /\ handle' \in [Procs -> Runs \cup {None}]
            /\ \A p \in Procs : handle'[p] = handle[p] \/ handle'[p] = None
        BY <1>1, <3>6 DEF Finish, Forget
      <4>3. slot[m.slot].at \in Working =>
               \A p \in Procs : run[slot[m.slot].id].proc = p => handle'[p] = None
        BY <1>1, <3>6 DEF Finish, Forget, Working, DeployPoints
      <4>4. QED
        BY <1>1, <4>1, <4>2, <4>3, HandleDropped
    <3>7. QED
      BY <3>3, <3>4, <3>5, <3>6
  <2>8. QED
    BY <1>3, <2>2, <2>3, <2>4, <2>5, <2>6, <2>7 DEF Other
<1>4. CASE Poll
  BY <1>2, <1>4 DEF Poll
<1>5. CASE \E s \in Slots : StartDeploy(s) \/ StartRun(s) \/ StartStop(s)
  <2>1. PICK s \in Slots : Begins(s)
    BY <1>5, StartEffect
  <2>2. handle' = handle
    BY <1>5 DEF StartDeploy, StartRun, StartStop, Start
  <2>3. \A t \in Slots : slot[t].at \in Working => slot'[t] = slot[t]
    BY <2>1 DEF Begins, Free, Working
  <2>4. QED
    BY <1>2, <2>2, <2>3
<1>6. QED
  BY <1>3, <1>4, <1>5, Steps

-----------------------------------------------------------------------------
(* The types are kept. *)
LEMMA QueueAfter == ASSUME Inv, Next PROVE inbox' \in Seq(Commands)
<1>1. inbox \in Seq(Commands) /\ <<>> \in Seq(Commands) /\ TypeOK
  BY DEF Inv, TypeOK
<1>2. CASE Other
  BY <1>1, <1>2, OtherEffect
<1>3. CASE Poll
  BY <1>1, <1>3, PolledQueue
<1>4. CASE \E s \in Slots : StartDeploy(s) \/ StartRun(s) \/ StartStop(s)
  BY <1>4, StartEffect
<1>5. QED
  BY <1>2, <1>3, <1>4, Steps

LEMMA TasksAfter == ASSUME Inv, Next PROVE SlotTypes' /\ net' \subseteq Reports /\ \A m \in net' : Sayable(m)
<1>1. CASE Other
  BY <1>1, OtherEffect DEF Effect
<1>2. CASE Poll
  BY <1>2, UntouchedTasks DEF Poll, Effect
<1>3. CASE \E s \in Slots : StartDeploy(s) \/ StartRun(s) \/ StartStop(s)
  BY <1>3, StartEffect
<1>4. QED
  BY <1>1, <1>2, <1>3, Steps

(* A stop request selects a run that exists; the counters count. *)
LEMMA CountersStep ==
    ASSUME Inv, Next
    PROVE  /\ stopping' \in Runs \cup {None} /\ stops' \in Nat /\ faults' \in Nat
           /\ stopping' # None => stopping' = stopping \/ Known(stopping')
<1>1. stopping \in Runs \cup {None} /\ stops \in Nat /\ faults \in Nat
  BY DEF Inv, TypeOK
<1>2. ASSUME NEW r \in Runs, StopSelect(r)
      PROVE  /\ stopping' \in Runs \cup {None} /\ stops' \in Nat /\ faults' \in Nat
             /\ stopping' # None => stopping' = stopping \/ Known(stopping')
  BY <1>1, <1>2 DEF StopSelect, Known
<1>3. CASE StopCommit \/ StopRollback
  BY <1>1, <1>3 DEF StopCommit, StopRollback, Fault, bounds
<1>4. CASE \/ \E r \in Runs, p \in Procs : RunProcess(r, p)
           \/ \E d \in Deployments, p \in Procs : DeployProcess(d, p)
           \/ \E p \in Procs : DeleteProcess(p)
           \/ \E r \in Runs : ChildExits(r)
           \/ Poll \/ PollLost \/ Crash
  BY <1>1, <1>4 DEF RunProcess, DeployProcess, DeleteProcess, ChildExits, Poll, PollLost, Crash, Fault,
                    bounds, serverVars
<1>5. CASE \E s \in Slots : Task(s) \/ StreamBreaks(s)
  BY <1>1, <1>5 DEF Task, StartDeploy, StartRun, StartStop, Start, Prepare, Spawn, BuildFails,
                    StreamEnds, StreamBreaks, Kill, StopReturns, serverVars, bounds, Fault
<1>6. CASE \E m \in net : Answered(m) \/ Refused(m) \/ GivesUp(m) \/ ArrivesLate(m) \/ NeverArrives(m)
  BY <1>1, <1>6 DEF Answered, Refused, GivesUp, ArrivesLate, NeverArrives, serverVars, bounds, Fault
<1>7. QED
  BY <1>2, <1>3, <1>4, <1>5, <1>6 DEF Next

LEMMA TypeStep == ASSUME Inv, Next PROVE TypeOK'
<1>1. RowTypes' /\ SlotTypes'
  BY RowStep, TasksAfter
<1>2. OtherTypes'
  BY QueueAfter, TasksAfter, ChildStep, HandleStep, CountersStep DEF OtherTypes
<1>3. QED
  BY <1>1, <1>2 DEF TypeOK, RowTypes, SlotTypes, OtherTypes

(* What speaks of a run speaks of one that exists. *)
LEMMA NamedStep == ASSUME Inv, Next PROVE Named'
<1>1. RowsMove /\ TypeOK'
  BY RowStep, TypeStep
<1>2. \A r \in Runs : /\ Known(r) => run'[r].status # "absent"
                      /\ run'[r].status # "absent" => run'[r].proc \in Procs
  BY <1>1 DEF RowsMove, Known
<1>3. stopping' # None => run'[stopping'].status # "absent"
  <2>1. stopping' \in Runs \cup {None} /\ (stopping' # None => stopping' = stopping \/ Known(stopping'))
    BY CountersStep
  <2>2. stopping # None => Known(stopping)
    BY DEF Inv, Named
  <2>3. QED
    BY <1>2, <2>1, <2>2 DEF Known
<1>4. \A m \in net' : m.of = "run" => run'[m.id].status # "absent"
  <2>1. ASSUME NEW m \in net', m.of = "run" PROVE run'[m.id].status # "absent"
    <3>1. Sayable(m) /\ m \in Reports
      BY TasksAfter
    <3>2. m.id \in Runs
      BY <2>1, <3>1, ReportFacts
    <3>3. Known(m.id)
      BY <2>1, <3>1 DEF Sayable, Inv, Named
    <3>4. QED
      BY <1>2, <3>2, <3>3 DEF Known
  <2>2. QED
    BY <2>1
<1>5. /\ \A k \in 1..Len(inbox) : inbox[k].cmd = "stop" => inbox[k].id \in Runs /\ Known(inbox[k].id)
      /\ \A s \in Slots : slot[s].at \in StopPoints => slot[s].id \in Runs /\ Known(slot[s].id)
  <2>1. ASSUME NEW k \in 1..Len(inbox), inbox[k].cmd = "stop" PROVE inbox[k].id \in Runs
    <3>1. inbox[k] \in Commands
      BY QueueHolds DEF Inv, QueueFacts
    <3>2. QED
      BY <2>1, <3>1 DEF Commands
  <2>2. \A s \in Slots : slot[s].at \in StopPoints => slot[s].id \in Runs /\ Known(slot[s].id)
    BY WorkerKnown
  <2>3. QED
    BY <2>1, <2>2 DEF Inv, Named
<1>6. /\ \A k \in 1..Len(inbox') : inbox'[k].cmd = "stop" => run'[inbox'[k].id].status # "absent"
      /\ \A s \in Slots : slot'[s].at \in StopPoints => run'[slot'[s].id].status # "absent"
  <2>1. CASE Other
    <3>1. \A s \in Slots : Goes(s)
      BY <2>1, OtherEffect DEF Effect
    <3>2. ASSUME NEW s \in Slots, slot'[s].at \in StopPoints
          PROVE  slot[s].at \in StopPoints /\ slot'[s].id = slot[s].id
      BY <3>1, <3>2 DEF Goes, Free, RunPoints, StopPoints, DeployPoints
    <3>3. \A s \in Slots : slot'[s].at \in StopPoints => run'[slot'[s].id].status # "absent"
      BY <1>2, <1>5, <3>2 DEF Known
    <3>4. inbox' = inbox \/ inbox' = <<>>
      BY <2>1, OtherEffect
    <3>5. \A k \in 1..Len(inbox') : inbox'[k].cmd = "stop" => run'[inbox'[k].id].status # "absent"
      BY <1>2, <1>5, <3>4 DEF Known
    <3>6. QED
      BY <3>3, <3>5
  <2>2. CASE Poll
    <3>1. slot' = slot
      BY <2>2 DEF Poll
    <3>2. ASSUME NEW k \in 1..Len(inbox'), inbox'[k].cmd = "stop" PROVE run'[inbox'[k].id].status # "absent"
      <4>1. (k \in 1..Len(inbox) /\ inbox'[k] = inbox[k]) \/ New(inbox'[k])
        BY <2>2, PolledQueue DEF Inv
      <4>2. CASE k \in 1..Len(inbox) /\ inbox'[k] = inbox[k]
        BY <1>2, <1>5, <3>2, <4>2 DEF Known
      <4>3. CASE New(inbox'[k])
        <5>1. inbox'[k].id \in Due(run, "stopping")
          BY <3>2, <4>3 DEF New
        <5>2. inbox'[k].id \in Runs /\ Known(inbox'[k].id)
          BY <5>1 DEF Due, Known, Inv, TypeOK
        <5>3. QED
          BY <1>2, <5>2 DEF Known
      <4>4. QED
        BY <4>1, <4>2, <4>3
    <3>3. QED
      BY <1>2, <1>5, <3>1, <3>2 DEF Known
  <2>3. CASE \E s \in Slots : StartDeploy(s) \/ StartRun(s) \/ StartStop(s)
    <3>1. PICK s \in Slots : Begins(s)
      BY <2>3, StartEffect
    <3>2. QueueFacts
      BY QueueHolds DEF Inv
    <3>3. ASSUME NEW k \in 1..Len(inbox'), inbox'[k].cmd = "stop" PROVE run'[inbox'[k].id].status # "absent"
      <4>1. inbox'[k] = inbox[k + 1] /\ k + 1 \in 1..Len(inbox)
        BY <3>1, <3>2 DEF Begins, QueueFacts
      <4>2. QED
        BY <1>2, <1>5, <3>3, <4>1 DEF Known
    <3>4. ASSUME NEW t \in Slots, slot'[t].at \in StopPoints PROVE run'[slot'[t].id].status # "absent"
      <4>1. CASE t = s
        <5>1. Head(inbox).cmd = "stop" /\ slot'[t].id = Head(inbox).id
          BY <3>1, <3>4, <4>1 DEF Begins, StopPoints
        <5>2. Head(inbox).id \in Runs /\ Known(Head(inbox).id)
          BY <3>1, <5>1, HeadFacts DEF Begins
        <5>3. QED
          BY <1>2, <5>1, <5>2 DEF Known
      <4>2. CASE t # s
        BY <1>2, <1>5, <3>1, <3>4, <4>2 DEF Begins, Known
      <4>3. QED
        BY <4>1, <4>2
    <3>5. QED
      BY <3>3, <3>4
  <2>4. QED
    BY <2>1, <2>2, <2>3, Steps
<1>7. QED
  BY <1>2, <1>3, <1>4, <1>6 DEF Named, Known

-----------------------------------------------------------------------------
(* No work is doubled.  First, what the three kinds of steps do to one piece of it. *)
LEMMA OtherWork ==
    ASSUME Inv, Other
    PROVE  \A c \in Jobs : /\ \A k \in Nat : Queued(c, k)' => Queued(c, k)
                           /\ \A s \in Slots : Does(s, c)' => Does(s, c)
<1>1. /\ inbox' = inbox \/ inbox' = <<>>
      /\ \A s \in Slots : Goes(s)
  BY OtherEffect DEF Effect
<1>2. ASSUME NEW c \in Jobs, NEW k \in Nat, Queued(c, k)' PROVE Queued(c, k)
  BY <1>1, <1>2 DEF Queued
<1>3. ASSUME NEW c \in Jobs, NEW s \in Slots, Does(s, c)' PROVE Does(s, c)
  BY <1>1, <1>3 DEF Does, Goes, Free, RunPoints, StopPoints, DeployPoints
<1>4. QED
  BY <1>2, <1>3

LEMMA StartWork ==
    ASSUME Inv, NEW s \in Slots, Begins(s)
    PROVE  \A c \in Jobs : /\ \A k \in Nat : Queued(c, k)' => k > 0 /\ k + 1 \in Nat /\ Queued(c, k + 1)
                           /\ Does(s, c)' => Queued(c, 1)
                           /\ \A t \in Slots : t # s => (Does(t, c)' <=> Does(t, c))
<1>1. QueueFacts
  BY QueueHolds DEF Inv
<1>2. ASSUME NEW c \in Jobs, NEW k \in Nat, Queued(c, k)'
      PROVE  k > 0 /\ k + 1 \in Nat /\ Queued(c, k + 1)
  BY <1>1, <1>2 DEF Queued, Begins, QueueFacts
<1>3. ASSUME NEW c \in Jobs, Does(s, c)' PROVE Queued(c, 1)
  <2>1. Head(inbox).id = c.id /\ Head(inbox).cmd = c.cmd /\ Head(inbox) \in Commands
    BY <1>3, HeadFacts DEF Begins, Does, RunPoints, StopPoints, DeployPoints, Jobs
  <2>2. Head(inbox) = c
    BY <2>1 DEF Commands, Jobs
  <2>3. QED
    BY <1>1, <2>2 DEF Begins, QueueFacts, Queued
<1>4. \A c \in Jobs, t \in Slots : t # s => (Does(t, c)' <=> Does(t, c))
  BY DEF Begins, Does
<1>5. QED
  BY <1>2, <1>3, <1>4

LEMMA PollWork ==
    ASSUME Inv, Poll
    PROVE  \A c \in Jobs : /\ \A k \in Nat : Queued(c, k)' => Queued(c, k) \/ New(c)
                           /\ \A k \in Nat : Queued(c, k) => Queued(c, k)'
                           /\ \A j, k \in Nat : Queued(c, j)' /\ Queued(c, k)' /\ j # k
                                                  => \E l \in {j, k} : Queued(c, l)
                           /\ New(c) => Unissued(c) /\ ~Unissued(c)'
                           /\ \A s \in Slots : Does(s, c)' <=> Does(s, c)
<1>1. /\ \A k \in 1..Len(inbox') :
            (k \in 1..Len(inbox) /\ inbox'[k] = inbox[k]) \/ New(inbox'[k])
      /\ \A j, k \in 1..Len(inbox') :
            inbox'[j] = inbox'[k] /\ j # k => \E l \in {j, k} : l \in 1..Len(inbox)
      /\ \A k \in 1..Len(inbox) : k \in 1..Len(inbox') /\ inbox'[k] = inbox[k]
  BY PolledQueue DEF Inv
<1>2. ASSUME NEW c \in Jobs, NEW k \in Nat, Queued(c, k)' PROVE Queued(c, k) \/ New(c)
  BY <1>1, <1>2 DEF Queued
<1>3. \A c \in Jobs, k \in Nat : Queued(c, k) => Queued(c, k)'
  BY <1>1 DEF Queued
<1>4. ASSUME NEW c \in Jobs, NEW j \in Nat, NEW k \in Nat, Queued(c, j)', Queued(c, k)', j # k
      PROVE  \E l \in {j, k} : Queued(c, l)
  BY <1>1, <1>4 DEF Queued
<1>5. ASSUME NEW c \in Jobs, New(c) PROVE Unissued(c) /\ ~Unissued(c)'
  <2>1. /\ \A r \in Runs : run[r].status = "pending" => ~Unissued(Job(r))'
        /\ \A d \in Deployments : dep[d].status = "deploying" => dep'[d].status = "dispatched"
    BY PolledRows DEF Poll, Inv, TypeOK, RowTypes, Named
  <2>2. CASE c.cmd = "run"
    <3>1. c.id \in Runs /\ c = Job(c.id) /\ run[c.id].status = "pending"
      BY <1>5, <2>2 DEF Jobs, Job, New, Due, Inv, TypeOK
    <3>2. QED
      BY <2>1, <2>2, <3>1 DEF Unissued, Status
  <2>3. CASE c.cmd # "run"
    <3>1. c.id \in Deployments /\ c.cmd = "deploy" /\ dep[c.id].status = "deploying"
      BY <1>5, <2>3 DEF Jobs, New, Due, Inv, TypeOK
    <3>2. QED
      BY <2>1, <3>1 DEF Unissued, Status
  <2>4. QED
    BY <2>2, <2>3
<1>6. \A c \in Jobs, s \in Slots : Does(s, c)' <=> Does(s, c)
  BY DEF Poll, Does
<1>7. QED
  BY <1>2, <1>3, <1>4, <1>5, <1>6

LEMMA OnceStep == ASSUME Inv, Next PROVE \A c \in Jobs : Once(c)'
<1>1. SUFFICES ASSUME NEW c \in Jobs PROVE Once(c)'
  OBVIOUS
<1>2. (Unissued(c)' => Unissued(c)) /\ Once(c)
  BY RowStep DEF RowsMove, Inv
<1>3. CASE Other
  BY <1>2, <1>3, OtherWork DEF Once
<1>4. CASE Poll
  <2>1. /\ \A k \in Nat : Queued(c, k)' => Queued(c, k) \/ New(c)
        /\ \A j, k \in Nat : Queued(c, j)' /\ Queued(c, k)' /\ j # k => \E l \in {j, k} : Queued(c, l)
        /\ New(c) => Unissued(c) /\ ~Unissued(c)'
        /\ \A s \in Slots : Does(s, c)' <=> Does(s, c)
    BY <1>4, PollWork
  <2>2. QED
    BY <1>2, <2>1 DEF Once
<1>5. CASE \E s \in Slots : StartDeploy(s) \/ StartRun(s) \/ StartStop(s)
  <2>1. PICK s \in Slots : Begins(s)
    BY <1>5, StartEffect
  <2>2. /\ \A k \in Nat : Queued(c, k)' => k > 0 /\ k + 1 \in Nat /\ Queued(c, k + 1)
        /\ Does(s, c)' => Queued(c, 1)
        /\ \A t \in Slots : t # s => (Does(t, c)' <=> Does(t, c))
    BY <2>1, StartWork
  <2>3. ASSUME NEW j \in Nat, NEW k \in Nat, Queued(c, j)', Queued(c, k)' PROVE j = k
    BY <1>2, <2>2, <2>3 DEF Once
  <2>4. ASSUME NEW t \in Slots, NEW u \in Slots, Does(t, c)', Does(u, c)' PROVE t = u
    BY <1>2, <2>2, <2>4 DEF Once
  <2>5. ASSUME NEW k \in Nat, NEW t \in Slots, Queued(c, k)', Does(t, c)' PROVE FALSE
    BY <1>2, <2>2, <2>5 DEF Once
  <2>6. ASSUME Unissued(c)' PROVE (\A k \in Nat : ~Queued(c, k)') /\ (\A t \in Slots : ~Does(t, c)')
    BY <1>2, <2>2, <2>6 DEF Once
  <2>7. QED
    BY <2>3, <2>4, <2>5, <2>6 DEF Once
<1>6. QED
  BY <1>3, <1>4, <1>5, Steps

(* A run whose child is still to be started was such a run before. *)
LEMMA AheadBefore == ASSUME Inv, Next, NEW r \in Runs, Ahead(r)' PROVE Ahead(r)
<1>1. Job(r) \in Jobs /\ (Unissued(Job(r))' => Unissued(Job(r)))
  <2>1. Job(r) \in Jobs
    BY DEF Job, Jobs
  <2>2. QED
    BY <2>1, RowStep DEF RowsMove, Job
<1>2. CASE Unissued(Job(r))'
  BY <1>1, <1>2 DEF Ahead
<1>3. CASE \E k \in Nat : Queued(Job(r), k)'
  <2>1. PICK k \in Nat : Queued(Job(r), k)'
    BY <1>3
  <2>2. \E j \in Nat : Queued(Job(r), j) \/ Unissued(Job(r))
    <3>1. CASE Other
      BY <1>1, <2>1, <3>1, OtherWork DEF Job
    <3>2. CASE Poll
      BY <1>1, <2>1, <3>2, PollWork DEF Job
    <3>3. CASE \E s \in Slots : StartDeploy(s) \/ StartRun(s) \/ StartStop(s)
      <4>1. PICK s \in Slots : Begins(s)
        BY <3>3, StartEffect
      <4>2. k + 1 \in Nat /\ Queued(Job(r), k + 1)
        BY <1>1, <2>1, <4>1, StartWork DEF Job
      <4>3. QED
        BY <4>2
    <3>4. QED
      BY <3>1, <3>2, <3>3, Steps
  <2>3. QED
    BY <2>2 DEF Ahead
<1>4. CASE \E s \in Slots : slot'[s].id = r /\ slot'[s].at \in {"running", "build"}
  <2>1. PICK s \in Slots : slot'[s].id = r /\ slot'[s].at \in {"running", "build"}
    BY <1>4
  <2>2. CASE Other
    <3>1. Goes(s)
      BY <2>2, OtherEffect DEF Effect
    <3>2. slot[s].id = r /\ slot[s].at \in {"running", "build"}
      BY <2>1, <3>1 DEF Goes, Free, RunPoints, StopPoints, DeployPoints
    <3>3. QED
      BY <3>2 DEF Ahead
  <2>3. CASE Poll
    BY <2>1, <2>3 DEF Poll, Ahead
  <2>4. CASE \E t \in Slots : StartDeploy(t) \/ StartRun(t) \/ StartStop(t)
    <3>1. PICK t \in Slots : Begins(t)
      BY <2>4, StartEffect
    <3>2. CASE t = s
      <4>1. Does(t, Job(r))'
        BY <2>1, <3>2 DEF Does, Job, RunPoints
      <4>2. Queued(Job(r), 1)
        BY <1>1, <3>1, <4>1, StartWork DEF Job
      <4>3. QED
        BY <4>2 DEF Ahead
    <3>3. CASE t # s
      BY <2>1, <3>1, <3>3 DEF Begins, Ahead
    <3>4. QED
      BY <3>2, <3>3
  <2>5. QED
    BY <2>2, <2>3, <2>4, Steps
<1>5. QED
  BY <1>2, <1>3, <1>4 DEF Ahead, Job

LEMMA AheadStep == ASSUME Inv, Next PROVE \A r \in Runs : Ahead(r)' => child'[r] = "none"
<1>1. SUFFICES ASSUME NEW r \in Runs, Ahead(r)' PROVE child'[r] = "none"
  OBVIOUS
<1>2. child[r] = "none" /\ ChildMoves(r)
  BY <1>1, AheadBefore, ChildStep DEF Inv
<1>3. ASSUME NEW s \in Slots, Spawn(s), slot[s].id = r PROVE FALSE
  <2>1. slot[s].at = "build" /\ MoveTo(s, "stream")
    BY <1>3 DEF Spawn
  <2>2. slot'[s].at = "stream" /\ slot'[s].id = r
    BY <1>3, <2>1, MoveType DEF Inv, RunPoints
  <2>3. Job(r) \in Jobs /\ Job(r).cmd = "run" /\ Job(r).id = r
    BY DEF Job, Jobs
  <2>4. Once(Job(r))'
    BY <2>3, OnceStep DEF Job
  <2>5. Does(s, Job(r))'
    BY <2>2, <2>3 DEF Does, RunPoints, Job
  <2>6. /\ ~Unissued(Job(r))'
        /\ \A k \in Nat : ~Queued(Job(r), k)'
        /\ \A t \in Slots : Does(t, Job(r))' => t = s
    BY <2>4, <2>5 DEF Once, Job
  <2>7. \A t \in Slots : slot'[t].id = r /\ slot'[t].at \in {"running", "build"} => Does(t, Job(r))'
    BY <2>3 DEF Does, RunPoints, Job
  <2>8. QED
    BY <1>1, <2>2, <2>6, <2>7 DEF Ahead, Job
<1>4. QED
  BY <1>2, <1>3 DEF ChildMoves

(* What is said of a run, and stored, is true. *)
LEMMA TruthfulStep == ASSUME Inv, Next PROVE Truthful'
<1>1. \A r \in Runs : child[r] = "ok" => child'[r] = "ok"
  BY ChildStep DEF ChildMoves
<1>2. ASSUME NEW r \in Runs, run'[r].status = "completed" PROVE child'[r] = "ok"
  <2>1. \/ run[r].status = "completed"
        \/ \E m \in net : m.of = "run" /\ m.id = r /\ m.status = "completed"
    BY <1>2, RowStep DEF RowsMove
  <2>2. child[r] = "ok"
    BY <2>1 DEF Inv, Truthful, CompletedMeansExitZero
  <2>3. QED
    BY <1>1, <2>2
<1>3. ASSUME NEW m \in net', m.of = "run", m.status = "completed" PROVE child'[m.id] = "ok"
  <2>1. Sayable(m) /\ m \in Reports
    BY TasksAfter
  <2>2. m.id \in Runs
    BY <1>3, <2>1, ReportFacts
  <2>3. child[m.id] = "ok"
    BY <1>3, <2>1 DEF Sayable, Inv, Truthful
  <2>4. QED
    BY <1>1, <2>2, <2>3
<1>4. QED
  BY <1>2, <1>3 DEF Truthful, CompletedMeansExitZero

-----------------------------------------------------------------------------
(* Nothing is issued before anything is created. *)
LEMMA InitInv == Init => Inv
<1> SUFFICES ASSUME Init PROVE Inv
  OBVIOUS
<1>1. TypeOK
  BY FreeTyped DEF Init, TypeOK, RunStatuses, DeploymentStatuses
<1>2. /\ \A r \in Runs : ~Known(r) /\ child[r] = "none"
      /\ stopping = None /\ Len(inbox) = 0 /\ net = {}
      /\ \A s \in Slots : slot[s] = Free
      /\ \A p \in Procs : handle[p] = None
  BY DEF Init, Known
<1>3. Named
  BY <1>2 DEF Named, Free, StopPoints
<1>4. \A c \in Jobs : Once(c)
  BY <1>2 DEF Once, Queued, Does, Free, RunPoints, DeployPoints
<1>5. Truthful
  BY <1>2 DEF Truthful, CompletedMeansExitZero, Known, Init
<1>6. HandlesOK
  BY <1>2 DEF HandlesOK, HandleHasTask
<1>7. QED
  BY <1>1, <1>2, <1>3, <1>4, <1>5, <1>6 DEF Inv

LEMMA NextInv == Inv /\ [Next]_vars => Inv'
<1> SUFFICES ASSUME Inv, [Next]_vars PROVE Inv'
  OBVIOUS
<1>1. CASE Next
  BY <1>1, TypeStep, NamedStep, OnceStep, AheadStep, TruthfulStep, HandleStep DEF Inv
<1>2. CASE UNCHANGED vars
  BY <1>2 DEF vars, serverVars, agentVars, bounds, Inv, TypeOK, Named, Known, Once, Queued, Does,
              Unissued, Status, Ahead, Job, Truthful, CompletedMeansExitZero, HandlesOK, HandleHasTask
<1>3. QED
  BY <1>1, <1>2

LEMMA Invariance == Spec => []Inv
  BY InitInv, NextInv, PTL DEF Spec

-----------------------------------------------------------------------------
(* Sets with one element at most are counted, and counted together. *)
LEMMA AtMostOne ==
    ASSUME NEW S, IsFiniteSet(S), \A x, y \in S : x = y
    PROVE  Cardinality(S) = 0 \/ Cardinality(S) = 1
<1>1. CASE S = {}
  BY <1>1, FS_EmptySet
<1>2. CASE S # {}
  <2>1. PICK x \in S : TRUE
    BY <1>2
  <2>2. S = {x}
    BY <2>1
  <2>3. QED
    BY <2>2, FS_Singleton
<1>3. QED
  BY <1>1, <1>2

LEMMA OneOfTwo ==
    ASSUME NEW S, NEW T, IsFiniteSet(S), IsFiniteSet(T),
           \A x, y \in S : x = y, \A x, y \in T : x = y, S = {} \/ T = {}
    PROVE  Cardinality(S) + Cardinality(T) <= 1
<1>1. Cardinality(S) \in {0, 1} /\ Cardinality(T) \in {0, 1}
  BY AtMostOne
<1>2. Cardinality(S) = 0 \/ Cardinality(T) = 0
  BY FS_EmptySet
<1>3. QED
  BY <1>1, <1>2

LEMMA CountedOnce ==
    ASSUME TypeOK, NEW cmd, NEW points, NEW i, Once([cmd |-> cmd, id |-> i]),
           \/ cmd = "run" /\ points = RunPoints
           \/ cmd = "deploy" /\ points = DeployPoints
    PROVE  Copies(cmd, points, i) <= 1
<1> DEFINE c == [cmd |-> cmd, id |-> i]
           Q == {k \in 1..Len(inbox) : inbox[k] = c}
           W == {s \in Slots : slot[s].at \in points /\ slot[s].id = i}
<1>1. Len(inbox) \in Nat /\ Permits \in Nat
  BY PermitsAssumption DEF TypeOK
<1>2. IsFiniteSet(1..Len(inbox)) /\ IsFiniteSet(Slots)
  BY <1>1, FS_Interval DEF Slots
<1>3. IsFiniteSet(Q) /\ IsFiniteSet(W)
  BY <1>2, FS_Subset
<1>4. \A k \in Q : k \in Nat /\ Queued(c, k)
  BY <1>1 DEF Queued
<1>5. \A s \in W : s \in Slots /\ Does(s, c)
  BY DEF Does
<1>6. Once(c)
  OBVIOUS
<1>7. \A j, k \in Q : j = k
  BY <1>4, <1>6 DEF Once
<1>8. \A s, t \in W : s = t
  BY <1>5, <1>6 DEF Once
<1>9. Q = {} \/ W = {}
  BY <1>4, <1>5, <1>6 DEF Once
<1>10. Copies(cmd, points, i) = Cardinality(Q) + Cardinality(W)
  BY DEF Copies
<1>11. Cardinality(Q) + Cardinality(W) <= 1
  <2> HIDE DEF Q, W
  <2>1. QED
    BY <1>3, <1>7, <1>8, <1>9, OneOfTwo
<1>12. QED
  BY <1>10, <1>11

-----------------------------------------------------------------------------
(* Rows, tasks, reports and handles are of their types: no report carries a status that the  *)
(* columns do not have, and every task is suspended at a point of its own kind.              *)
THEOREM TypeCorrect == Spec => []TypeOK
<1>1. Inv => TypeOK
  BY DEF Inv
<1>2. QED
  BY <1>1, Invariance, PTL

(* The orchestrator calls a run completed only when its subprocess ended with code 0,        *)
(* whatever reports are lost, late or doubled and however often the agent crashes.           *)
THEOREM CompletedIsTrue == Spec => []CompletedMeansExitZero
<1>1. Inv => CompletedMeansExitZero
  BY DEF Inv, Truthful
<1>2. QED
  BY <1>1, Invariance, PTL

(* Every handle in the table of the agent belongs to a run that one of its tasks still       *)
(* executes or reports on.                                                                   *)
THEOREM HandlesHaveTasks == Spec => []HandleHasTask
<1>1. Inv => HandleHasTask
  BY DEF Inv, HandlesOK
<1>2. QED
  BY <1>1, Invariance, PTL

(* However often the agent polls, one copy of a run or a deployment at most is queued or at  *)
(* work: the status that a poll leaves behind excludes a second one.                         *)
THEOREM IssuedOnce == Spec => []WorkIsIssuedOnce
<1>1. Inv => WorkIsIssuedOnce
  <2> SUFFICES ASSUME Inv PROVE WorkIsIssuedOnce
    OBVIOUS
  <2>1. ASSUME NEW r \in Runs PROVE Copies("run", RunPoints, r) <= 1
    <3>1. TypeOK /\ Once([cmd |-> "run", id |-> r])
      BY DEF Inv, Jobs
    <3>2. QED
      BY <3>1, CountedOnce
  <2>2. ASSUME NEW d \in Deployments PROVE Copies("deploy", DeployPoints, d) <= 1
    <3>1. TypeOK /\ Once([cmd |-> "deploy", id |-> d])
      BY DEF Inv, Jobs
    <3>2. QED
      BY <3>1, CountedOnce
  <2>3. QED
    BY <2>1, <2>2 DEF WorkIsIssuedOnce
<1>2. QED
  BY <1>1, Invariance, PTL

(* No poll, lost response or restart of the agent starts the script of a run a second time.  *)
THEOREM ExecutedOnce == Spec => ExecutedAtMostOnce
<1> DEFINE Executed == \A r \in Runs : child[r] # "none" /\ child'[r] = "alive" => child[r] = "alive"
<1>1. Inv /\ [Next]_vars => [Executed]_vars
  <2> SUFFICES ASSUME Inv, Next PROVE Executed
    OBVIOUS
  <2>1. \A r \in Runs : ChildMoves(r)
    BY ChildStep
  <2>2. QED
    BY <2>1 DEF ChildMoves
<1>2. QED
  BY <1>1, Invariance, PTL DEF Spec, ExecutedAtMostOnce

-----------------------------------------------------------------------------
(* The ledger of runs.  Its proof needs two more facts: what is not created yet belongs to no  *)
(* process, and no two reports await their replies at one task.                               *)

(* Blank rows have no process. *)
BlankOK == \A r \in Runs : ~Known(r) => run[r].proc = None

ReplyPoints == {"running", "report", "except", "stopped", "ack", "nack"}

(* A task awaits one reply at a time, and only where it is suspended for it. *)
AwaitsOK ==
    /\ \A m \in net : m.slot # None => slot[m.slot].at \in ReplyPoints
    /\ \A m, n \in net : m.slot # None /\ m.slot = n.slot => m = n

LInv == Inv /\ BlankOK /\ AwaitsOK

(* One slot changes, and at most one report comes in its name. *)
LEMMA AwaitsMove ==
    ASSUME TypeOK, AwaitsOK, NEW s \in Slots,
           \A t \in Slots : t # s => slot'[t].at = slot[t].at,
           NEW new,
           \A m \in net' : m.slot # None =>
              \/ m \in net /\ m.slot # s
              \/ m = new /\ m.slot = s /\ slot'[s].at \in ReplyPoints
    PROVE  AwaitsOK'
<1>1. \A m \in net : m.slot \in Slots \cup {None}
  BY ReportFacts DEF TypeOK
<1>2. \A m \in net' : m.slot # None => slot'[m.slot].at \in ReplyPoints
  BY <1>1 DEF AwaitsOK
<1>3. \A m, n \in net' : m.slot # None /\ m.slot = n.slot => m = n
  BY DEF AwaitsOK
<1>4. QED
  BY <1>2, <1>3 DEF AwaitsOK

(* The tasks stay where they are. *)
LEMMA AwaitsKept ==
    ASSUME AwaitsOK, UNCHANGED slot, net' \subseteq net
    PROVE  AwaitsOK'
BY DEF AwaitsOK

(* A task begins, goes on without a report, or posts one at the point it goes on to. *)
LEMMA AwaitsTask ==
    ASSUME LInv, NEW s \in Slots,
           \/ StartDeploy(s) \/ StartRun(s) \/ StartStop(s) \/ Prepare(s) \/ Spawn(s)
           \/ BuildFails(s) \/ StreamEnds(s) \/ StreamBreaks(s) \/ StopReturns(s)
    PROVE  AwaitsOK'
<1>1. TypeOK /\ AwaitsOK /\ slot \in [Slots -> Tasks \cup {Free}]
  BY DEF LInv, Inv, TypeOK
<1>2. \A m \in net : m.slot # s \/ slot[s].at \in ReplyPoints
  BY <1>1, NoneAssumption DEF AwaitsOK, Slots
<1>3. ASSUME slot[s].at \notin ReplyPoints,
             \A t \in Slots : t # s => slot'[t].at = slot[t].at,
             \/ net' = net
             \/ \E m : net' = net \cup {m} /\ m.slot = s /\ slot'[s].at \in ReplyPoints
      PROVE  AwaitsOK'
  <2>1. PICK new : \A m \in net' : m.slot # None =>
              \/ m \in net /\ m.slot # s
              \/ m = new /\ m.slot = s /\ slot'[s].at \in ReplyPoints
    BY <1>2, <1>3
  <2>2. QED
    BY <1>1, <1>3, <2>1, AwaitsMove
<1>4. \A r, status : RunReport(s, r, status).slot = s /\ Ack(s, r, status).slot = s
  BY DEF RunReport, Ack
<1>5. ASSUME NEW cmd, NEW task, Start(s, cmd, task)
      PROVE  /\ slot[s].at = "free" /\ slot'[s] = task
             /\ \A t \in Slots : t # s => slot'[t].at = slot[t].at
  BY <1>1, <1>5 DEF Start, Free
<1>6. ASSUME NEW point, MoveTo(s, point), slot[s].at \in RunPoints \cup StopPoints \cup DeployPoints
      PROVE  /\ slot'[s].at = point
             /\ \A t \in Slots : t # s => slot'[t].at = slot[t].at
  <2>1. slot[s] \in Tasks
    BY <1>1, <1>6 DEF Free, RunPoints, StopPoints, DeployPoints
  <2>2. [slot[s] EXCEPT !.at = point].at = point
    BY <2>1 DEF Tasks
  <2>3. QED
    BY <1>1, <1>6, <2>2 DEF MoveTo
<1>7. CASE StartDeploy(s) \/ StartRun(s) \/ StartStop(s)
  <2>1. PICK cmd, task : /\ Start(s, cmd, task)
                         /\ \/ net' = net
                            \/ \E r, status : /\ net' = net \cup {RunReport(s, r, status)}
                                              /\ task.at \in ReplyPoints
    BY <1>7 DEF StartDeploy, StartRun, StartStop, ReplyPoints
  <2>2. QED
    BY <1>3, <1>4, <1>5, <2>1 DEF ReplyPoints
<1>8. CASE Prepare(s)
  BY <1>3, <1>4, <1>6, <1>8 DEF Prepare, PostAck, DeployPoints, ReplyPoints
<1>9. CASE Spawn(s)
  BY <1>3, <1>6, <1>9 DEF Spawn, RunPoints, ReplyPoints
<1>10. CASE BuildFails(s) \/ StreamEnds(s) \/ StreamBreaks(s) \/ StopReturns(s)
  BY <1>3, <1>4, <1>6, <1>10
  DEF BuildFails, StreamEnds, StreamBreaks, StopReturns, PostStatus, RunPoints, StopPoints, ReplyPoints
<1>11. QED
  BY <1>7, <1>8, <1>9, <1>10

(* A task gets its reply, or gives up waiting for it. *)
LEMMA AwaitsReply ==
    ASSUME LInv, NEW m \in net, Answered(m) \/ Refused(m) \/ GivesUp(m)
    PROVE  AwaitsOK'
<1> DEFINE s == m.slot
<1>1. TypeOK /\ AwaitsOK /\ slot \in [Slots -> Tasks \cup {Free}] /\ m \in Reports
  BY DEF LInv, Inv, TypeOK
<1>2. s \in Slots /\ s # None
  BY <1>1, ReportFacts DEF Answered, Refused, GivesUp
<1>3. \A n \in net : n # m => n.slot # s
  BY <1>2, <1>1 DEF AwaitsOK
<1>4. /\ \A t \in Slots : t # s => slot'[t].at = slot[t].at
      /\ \A point : MoveTo(s, point) => slot'[s].at = point
  <2>1. slot[s] \in Tasks
    BY <1>1, <1>2 DEF AwaitsOK, ReplyPoints, Free
  <2>2. \A point : [slot[s] EXCEPT !.at = point].at = point
    BY <2>1 DEF Tasks
  <2>3. \/ \E point : slot' = [slot EXCEPT ![s].at = point]
        \/ slot' = [slot EXCEPT ![s] = Free]
    BY DEF Answered, Refused, GivesUp, Resume, Finish, MoveTo
  <2>4. QED
    BY <1>1, <1>2, <2>2, <2>3 DEF MoveTo
<1>5. CASE Answered(m) \/ Refused(m)
  <2>1. net' = net \ {m}
    BY <1>5 DEF Answered, Refused
  <2>2. QED
    BY <1>1, <1>2, <1>3, <1>4, <2>1, AwaitsMove
<1>6. CASE GivesUp(m)
  <2> DEFINE late == (net \ {m}) \cup {[m EXCEPT !.slot = None]}
  <2>1. \A n \in late : n.slot # None => n \in net /\ n.slot # s
    BY <1>1, <1>3 DEF Reports
  <2>2. PICK new : /\ net' = late \/ net' = late \cup {new}
                   /\ new.slot = s /\ (net' = late \/ slot'[s].at \in ReplyPoints)
    BY <1>4, <1>6 DEF GivesUp, RunReport, Ack, ReplyPoints
  <2> HIDE DEF late
  <2>3. QED
    BY <1>1, <1>2, <1>4, <2>1, <2>2, AwaitsMove
<1>7. QED
  BY <1>5, <1>6

LEMMA AwaitsStep == ASSUME LInv, Next PROVE AwaitsOK'
<1>1. AwaitsOK /\ net \subseteq Reports
  BY DEF LInv, Inv, TypeOK
<1>2. CASE Crash
  <2>1. \A m \in net' : m.slot = None
    BY <1>1, <1>2 DEF Crash, Reports
  <2>2. QED
    BY <2>1 DEF AwaitsOK
<1>3. CASE \/ \E r \in Runs, p \in Procs : RunProcess(r, p)
           \/ \E d \in Deployments, p \in Procs : DeployProcess(d, p)
           \/ \E p \in Procs : DeleteProcess(p)
           \/ \E r \in Runs : StopSelect(r) \/ ChildExits(r)
           \/ StopCommit \/ StopRollback \/ Poll \/ PollLost
           \/ \E s \in Slots : Kill(s)
           \/ \E m \in net : ArrivesLate(m) \/ NeverArrives(m)
  <2>1. UNCHANGED slot /\ net' \subseteq net
    BY <1>3 DEF RunProcess, DeployProcess, DeleteProcess, StopSelect, ChildExits, StopCommit,
                StopRollback, Poll, PollLost, Kill, ArrivesLate, NeverArrives, agentVars
  <2>2. QED
    BY <1>1, <2>1, AwaitsKept
<1>4. CASE \E s \in Slots : \/ StartDeploy(s) \/ StartRun(s) \/ StartStop(s) \/ Prepare(s) \/ Spawn(s)
                            \/ BuildFails(s) \/ StreamEnds(s) \/ StreamBreaks(s) \/ StopReturns(s)
  BY <1>4, AwaitsTask
<1>5. CASE \E m \in net : Answered(m) \/ Refused(m) \/ GivesUp(m)
  BY <1>5, AwaitsReply
<1>6. QED
  BY <1>2, <1>3, <1>4, <1>5 DEF Next, Task

(* Rows appear one by one, and nothing is completed but by the report that says so. *)
Tells(m, r) ==
    /\ Answered(m) \/ ArrivesLate(m)
    /\ m.of = "run" /\ m.id = r /\ m.status = "completed"

RowMoves(r) ==
    /\ ~Known(r) => run'[r] = run[r] \/ \E p \in Procs : RunProcess(r, p)
    /\ run'[r].status = "completed" => run[r].status = "completed" \/ \E m \in net : Tells(m, r)

LEMMA RowsMoved == ASSUME LInv, Next PROVE \A r \in Runs : RowMoves(r)
<1>1. /\ run \in [Runs -> [status : RunStatuses, proc : Procs \cup {None}]]
      /\ net \subseteq Reports /\ Named /\ BlankOK
  BY DEF LInv, Inv, TypeOK
<1>2. ASSUME NEW r \in Runs, NEW p \in Procs, RunProcess(r, p) PROVE \A q \in Runs : RowMoves(q)
  <2>1. run'[r].status = "pending" /\ \A q \in Runs : q # r => run'[q] = run[q]
    BY <1>1, <1>2 DEF RunProcess
  <2>2. QED
    BY <1>2, <2>1 DEF RowMoves
<1>3. ASSUME NEW p \in Procs, DeleteProcess(p) PROVE \A q \in Runs : RowMoves(q)
  <2>1. \A q \in Runs : run'[q] = run[q] \/ (run[q].proc = p /\ run'[q].status = "gone")
    BY <1>1, <1>3 DEF DeleteProcess
  <2>2. \A q \in Runs : ~Known(q) => run[q].proc # p
    BY <1>1, NoneAssumption DEF BlankOK
  <2>3. QED
    BY <2>1, <2>2 DEF RowMoves
<1>4. ASSUME NEW r \in Runs, Known(r), NEW status, run' = SetStatus(run, r, status),
             status = "completed" => \E m \in net : Tells(m, r)
      PROVE  \A q \in Runs : RowMoves(q)
  <2>1. \A q \in Runs : run'[q] = run[q] \/ (q = r /\ run'[q].status = status)
    BY <1>1, <1>4 DEF SetStatus
  <2>2. QED
    BY <1>4, <2>1 DEF RowMoves
<1>5. CASE StopCommit
  <2>1. stopping \in Runs /\ Known(stopping) /\ run' = SetStatus(run, stopping, "stopping")
    BY <1>1, <1>5 DEF StopCommit, Named, LInv, Inv, TypeOK
  <2>2. QED
    BY <1>4, <2>1
<1>6. CASE Poll \/ PollLost
  <2>1. run' = Marked(run, "pending")
    BY <1>6 DEF Poll, PollLost
  <2>2. \A q \in Runs : run'[q] = run[q] \/ (run[q].status = "pending" /\ run'[q].status = "dispatched")
    BY <1>1, <2>1 DEF Marked
  <2>3. QED
    BY <2>2 DEF RowMoves, Known
<1>7. ASSUME run' = run PROVE \A q \in Runs : RowMoves(q)
  BY <1>7 DEF RowMoves
<1>8. CASE \E m \in net : Answered(m) \/ ArrivesLate(m)
  <2>1. PICK m \in net : Answered(m) \/ ArrivesLate(m)
    BY <1>8
  <2>2. CASE m.of = "run"
    <3>1. m.id \in Runs /\ Known(m.id)
      BY <1>1, <2>2, ReportFacts DEF Named
    <3>2. run' = SetStatus(run, m.id, m.status)
      BY <2>1, <2>2 DEF Answered, ArrivesLate, Apply
    <3>3. m.status = "completed" => Tells(m, m.id)
      BY <2>1, <2>2 DEF Tells
    <3>4. QED
      BY <1>4, <3>1, <3>2, <3>3
  <2>3. CASE m.of # "run"
    BY <1>7, <2>1, <2>3 DEF Answered, ArrivesLate, Apply
  <2>4. QED
    BY <2>2, <2>3
<1>9. CASE \/ \E d \in Deployments, p \in Procs : DeployProcess(d, p)
           \/ \E r \in Runs : StopSelect(r) \/ ChildExits(r)
           \/ StopRollback \/ Crash
           \/ \E s \in Slots : Task(s) \/ StreamBreaks(s)
           \/ \E m \in net : Refused(m) \/ GivesUp(m) \/ NeverArrives(m)
  <2>1. run' = run
    <3>1. CASE \/ \E d \in Deployments, p \in Procs : DeployProcess(d, p)
               \/ \E r \in Runs : StopSelect(r) \/ ChildExits(r)
               \/ StopRollback \/ Crash
      BY <3>1 DEF DeployProcess, StopSelect, ChildExits, StopRollback, Crash, serverVars
    <3>2. CASE \E s \in Slots : Task(s) \/ StreamBreaks(s)
      BY <3>2 DEF Task, StartDeploy, StartRun, StartStop, Start, Prepare, Spawn, BuildFails,
                  StreamEnds, StreamBreaks, Kill, StopReturns, serverVars
    <3>3. CASE \E m \in net : Refused(m) \/ GivesUp(m) \/ NeverArrives(m)
      BY <3>3 DEF Refused, GivesUp, NeverArrives, serverVars
    <3>4. QED
      BY <1>9, <3>1, <3>2, <3>3
  <2>2. QED
    BY <1>7, <2>1
<1>10. QED
  BY <1>2, <1>3, <1>5, <1>6, <1>8, <1>9 DEF Next

LEMMA BlankStep == ASSUME LInv, Next PROVE BlankOK'
<1>1. ASSUME NEW r \in Runs, ~Known(r)' PROVE run'[r].proc = None
  <2>1. RowsMove /\ RowMoves(r)
    BY RowStep, RowsMoved DEF LInv
  <2>2. ~Known(r) /\ run[r].proc = None
    BY <1>1, <2>1 DEF RowsMove, LInv, BlankOK
  <2>3. \A p \in Procs : RunProcess(r, p) => Known(r)'
    BY DEF RunProcess, Known, LInv, Inv, TypeOK
  <2>4. QED
    BY <1>1, <2>1, <2>2, <2>3 DEF RowMoves
<1>2. QED
  BY <1>1 DEF BlankOK

LEMMA InitLInv == Init => LInv
<1>1. Init => BlankOK
  BY DEF Init, BlankOK
<1>2. Init => AwaitsOK
  BY DEF Init, AwaitsOK
<1>3. QED
  BY <1>1, <1>2, InitInv DEF LInv

LEMMA NextLInv == LInv /\ [Next]_vars => LInv'
<1> SUFFICES ASSUME LInv, [Next]_vars PROVE LInv'
  OBVIOUS
<1>1. Inv'
  BY NextInv DEF LInv
<1>2. CASE Next
  BY <1>1, <1>2, BlankStep, AwaitsStep DEF LInv
<1>3. CASE UNCHANGED vars
  BY <1>1, <1>3 DEF vars, serverVars, agentVars, LInv, BlankOK, Known, AwaitsOK
<1>4. QED
  BY <1>2, <1>3

LEMMA LInvariance == Spec => []LInv
  BY InitLInv, NextLInv, PTL DEF Spec

-----------------------------------------------------------------------------
(* The life of a run, case by case. *)
LifeIs == \A r \in Runs :
    /\ child[r] = "alive" => Life(r) = "executing"
    /\ child[r] = "ok" => Life(r) = "succeeded"
    /\ child[r] \in {"bad", "killed"} => Life(r) = "over"
    /\ child[r] = "none" =>
          /\ ~Known(r) => Life(r) = "absent"
          /\ run[r].status = "pending" => Life(r) = "pending"
          /\ Known(r) /\ run[r].status # "pending" =>
                Life(r) = IF OnItsWay(r) THEN "issued" ELSE "over"

LEMMA LifeHolds == LInv => LifeIs
<1>1. ASSUME LInv, NEW r \in Runs
      PROVE  /\ child[r] = "alive" => Life(r) = "executing"
             /\ child[r] = "ok" => Life(r) = "succeeded"
             /\ child[r] \in {"bad", "killed"} => Life(r) = "over"
             /\ child[r] = "none" =>
                   /\ run[r].status \in {"absent", "pending"} => Life(r) = run[r].status
                   /\ run[r].status \notin {"absent", "pending"} =>
                         Life(r) = IF OnItsWay(r) THEN "issued" ELSE "over"
  BY DEF Life
<1>2. QED
  BY <1>1 DEF LifeIs, Known

LEMMA LifeAfter == LInv' => LifeIs'
  BY LifeHolds, PTL

(* A run is on its way by a job that is queued or at work. *)
LEMMA WayIs ==
    LInv => \A r \in Runs :
        OnItsWay(r) <=> \/ \E k \in Nat : Queued(Job(r), k)
                        \/ \E s \in Slots : slot[s].id = r /\ slot[s].at \in {"running", "build"}
<1> SUFFICES ASSUME LInv, NEW r \in Runs
             PROVE  OnItsWay(r) <=>
                       \/ \E k \in Nat : Queued(Job(r), k)
                       \/ \E s \in Slots : slot[s].id = r /\ slot[s].at \in {"running", "build"}
  OBVIOUS
<1>1. Len(inbox) \in Nat
  BY DEF LInv, Inv, TypeOK
<1>2. (\E k \in 1..Len(inbox) : inbox[k] = [cmd |-> "run", id |-> r])
         <=> \E k \in Nat : Queued(Job(r), k)
  BY <1>1 DEF Queued, Job
<1>3. QED
  BY <1>2 DEF OnItsWay

LEMMA WayIsAfter ==
    LInv' => \A r \in Runs :
        OnItsWay(r)' <=> \/ \E k \in Nat : Queued(Job(r), k)'
                         \/ \E s \in Slots : slot'[s].id = r /\ slot'[s].at \in {"running", "build"}
<1> SUFFICES ASSUME LInv', NEW r \in Runs
             PROVE  OnItsWay(r)' <=>
                       \/ \E k \in Nat : Queued(Job(r), k)'
                       \/ \E s \in Slots : slot'[s].id = r /\ slot'[s].at \in {"running", "build"}
  OBVIOUS
<1>1. Len(inbox') \in Nat
  BY DEF LInv, Inv, TypeOK
<1>2. (\E k \in 1..Len(inbox') : inbox'[k] = [cmd |-> "run", id |-> r])
         <=> \E k \in Nat : Queued(Job(r), k)'
  BY <1>1 DEF Queued, Job
<1>3. QED
  BY <1>2 DEF OnItsWay

(* It was issued, and its child is still to be started. *)
LEMMA WayFacts ==
    ASSUME LInv, NEW r \in Runs, OnItsWay(r)
    PROVE  Known(r) /\ run[r].status # "pending" /\ child[r] = "none"
<1>1. Job(r) \in Jobs /\ Ahead(r)
  BY WayIs DEF Job, Jobs, Ahead
<1>2. Once(Job(r)) /\ child[r] = "none"
  BY <1>1 DEF LInv, Inv, Job
<1>3. ~Unissued(Job(r))
  <2>1. (\E k \in Nat : Queued(Job(r), k)) \/ \E s \in Slots : Does(s, Job(r))
    BY WayIs DEF Does, Job, RunPoints
  <2>2. QED
    BY <1>2, <2>1 DEF Once, Job
<1>4. QED
  BY <1>2, <1>3 DEF Unissued, Status, Job, Known

(* It is so by a poll only. *)
LEMMA WayBefore ==
    ASSUME LInv, LInv', Next, ~Poll, NEW r \in Runs, OnItsWay(r)'
    PROVE  OnItsWay(r)
<1>1. Job(r) \in Jobs /\ Inv
  BY DEF Job, Jobs, LInv
<1>2. CASE \E k \in Nat : Queued(Job(r), k)'
  <2>1. PICK k \in Nat : Queued(Job(r), k)'
    BY <1>2
  <2>2. CASE Other
    <3>1. Queued(Job(r), k)
      BY <1>1, <2>1, <2>2, OtherWork DEF Job
    <3>2. QED
      BY <3>1, WayIs
  <2>3. CASE \E s \in Slots : StartDeploy(s) \/ StartRun(s) \/ StartStop(s)
    <3>1. PICK s \in Slots : Begins(s)
      BY <1>1, <2>3, StartEffect
    <3>2. k + 1 \in Nat /\ Queued(Job(r), k + 1)
      BY <1>1, <2>1, <3>1, StartWork DEF Job
    <3>3. QED
      BY <3>2, WayIs
  <2>4. QED
    BY <2>2, <2>3, Steps
<1>3. CASE \E s \in Slots : slot'[s].id = r /\ slot'[s].at \in {"running", "build"}
  <2>1. PICK s \in Slots : slot'[s].id = r /\ slot'[s].at \in {"running", "build"}
    BY <1>3
  <2>2. CASE Other
    <3>1. Goes(s)
      BY <1>1, <2>2, OtherEffect DEF Effect
    <3>2. slot[s].id = r /\ slot[s].at \in {"running", "build"}
      BY <2>1, <3>1 DEF Goes, Free, RunPoints, StopPoints, DeployPoints
    <3>3. QED
      BY <3>2, WayIs
  <2>3. CASE \E t \in Slots : StartDeploy(t) \/ StartRun(t) \/ StartStop(t)
    <3>1. PICK t \in Slots : Begins(t)
      BY <1>1, <2>3, StartEffect
    <3>2. CASE t = s
      <4>1. Does(t, Job(r))'
        BY <2>1, <3>2 DEF Does, Job, RunPoints
      <4>2. Queued(Job(r), 1)
        BY <1>1, <3>1, <4>1, StartWork DEF Job
      <4>3. QED
        BY <4>2, WayIs
    <3>3. CASE t # s
      <4>1. slot[s].id = r /\ slot[s].at \in {"running", "build"}
        BY <2>1, <3>1, <3>3 DEF Begins
      <4>2. QED
        BY <4>1, WayIs
    <3>4. QED
      BY <3>2, <3>3
  <2>4. QED
    BY <2>2, <2>3, Steps
<1>4. QED
  BY <1>2, <1>3, WayIsAfter

-----------------------------------------------------------------------------
(* The steps of the ledger. *)
Given == {r \in Runs : run[r].status = "completed"}

LEMMA LedgerDrop ==
    ASSUME \A r \in Runs : \/ Life(r)' = Life(r)
                           \/ Life(r) \in {"pending", "issued"} /\ Life(r)' = "over",
           Given' \subseteq Given
    PROVE  Ledger!Next
<1> DEFINE these == {r \in Runs : Life(r)' # Life(r)}
<1>1. these \in SUBSET {r \in Runs : [q \in Runs |-> Life(q)][r] \in {"pending", "issued"}}
  OBVIOUS
<1>2. [r \in Runs |-> Life(r)]' =
         [r \in Runs |-> IF r \in these THEN "over" ELSE [q \in Runs |-> Life(q)][r]]
  OBVIOUS
<1>3. {r \in Runs : run[r].status = "completed"}' \in SUBSET {r \in Runs : run[r].status = "completed"}
  BY DEF Given
<1> HIDE DEF these
<1>4. Ledger!Drop
  BY <1>1, <1>2, <1>3 DEF Ledger!Drop, Ledger!In, Ledger!Moved
<1>5. QED
  BY <1>4 DEF Ledger!Next

LEMMA LedgerIssue ==
    ASSUME \A r \in Runs : \/ Life(r)' = Life(r)
                           \/ Life(r) = "pending" /\ Life(r)' = "issued",
           Given' = Given
    PROVE  Ledger!Next
<1> DEFINE these == {r \in Runs : Life(r)' # Life(r)}
<1>1. these \in SUBSET {r \in Runs : [q \in Runs |-> Life(q)][r] \in {"pending"}}
  OBVIOUS
<1>2. [r \in Runs |-> Life(r)]' =
         [r \in Runs |-> IF r \in these THEN "issued" ELSE [q \in Runs |-> Life(q)][r]]
  OBVIOUS
<1>3. {r \in Runs : run[r].status = "completed"}' = {r \in Runs : run[r].status = "completed"}
  BY DEF Given
<1> HIDE DEF these
<1>4. Ledger!Issue
  BY <1>1, <1>2, <1>3 DEF Ledger!Issue, Ledger!In, Ledger!Moved
<1>5. QED
  BY <1>4 DEF Ledger!Next

(* One run moves, and nothing is said. *)
LEMMA LedgerMove ==
    ASSUME NEW r \in Runs, \A q \in Runs : q # r => Life(q)' = Life(q), Given' = Given,
           \/ Life(r) = "absent" /\ Life(r)' = "pending"
           \/ Life(r) = "issued" /\ Life(r)' = "executing"
           \/ Life(r) = "executing" /\ Life(r)' \in {"succeeded", "over"}
    PROVE  Ledger!Next
<1> DEFINE stage == Life(r)'
<1>1. [q \in Runs |-> Life(q)][r] = Life(r)
  OBVIOUS
<1>2. [q \in Runs |-> Life(q)]' =
         [q \in Runs |-> IF q \in {r} THEN stage ELSE [p \in Runs |-> Life(p)][q]]
  OBVIOUS
<1>3. {q \in Runs : run[q].status = "completed"}' = {q \in Runs : run[q].status = "completed"}
  BY DEF Given
<1>4. \/ Life(r) = "absent" /\ stage = "pending"
      \/ Life(r) = "issued" /\ stage = "executing"
      \/ Life(r) = "executing" /\ stage \in {"succeeded", "over"}
  OBVIOUS
<1> HIDE DEF stage
<1>5. Ledger!Create(r) \/ Ledger!Start(r) \/ Ledger!End(r)
  BY <1>1, <1>2, <1>3, <1>4 DEF Ledger!Create, Ledger!Start, Ledger!End, Ledger!Moved
<1>6. QED
  BY <1>5 DEF Ledger!Next

LEMMA LedgerTell ==
    ASSUME NEW r \in Runs, Life(r) = "succeeded", \A q \in Runs : Life(q)' = Life(q),
           Given' = Given \cup {r}
    PROVE  Ledger!Next
<1>1. [q \in Runs |-> Life(q)][r] = "succeeded"
  OBVIOUS
<1>2. [q \in Runs |-> Life(q)]' = [q \in Runs |-> Life(q)]
  OBVIOUS
<1>3. {q \in Runs : run[q].status = "completed"}' = {q \in Runs : run[q].status = "completed"} \cup {r}
  BY DEF Given
<1>4. Ledger!Tell(r)
  BY <1>1, <1>2, <1>3 DEF Ledger!Tell
<1>5. QED
  BY <1>4 DEF Ledger!Next

-----------------------------------------------------------------------------
(* A poll leaves out no run that is due. *)
LEMMA OrderHasAll ==
    ASSUME NEW ids, IsFiniteSet(ids), NEW cmd, NEW q \in Orders(cmd, ids), NEW i \in ids
    PROVE  Len(q) \in Nat /\ \E k \in 1..Len(q) : q[k] = [cmd |-> cmd, id |-> i]
<1> DEFINE S == {[cmd |-> cmd, id |-> j] : j \in ids}
           n == Cardinality(S)
<1>1. IsFiniteSet(S)
  <2> DEFINE f == [j \in ids |-> [cmd |-> cmd, id |-> j]]
  <2>1. f \in Surjection(ids, S)
    BY DEF Surjection
  <2>2. QED
    BY <2>1, FS_Surjection
<1>2. n \in Nat
  BY <1>1, FS_CardinalityType
<1>3. q \in [1..n -> S] /\ \A j, k \in 1..n : j # k => q[j] # q[k]
  BY DEF Orders, SetToSeqs
<1>4. [cmd |-> cmd, id |-> i] \in S /\ Len(q) = n
  BY <1>2, <1>3
<1> HIDE DEF S, n
<1>5. q \in Injection(1..n, S)
  BY <1>3 DEF Injection, IsInjective
<1>6. IsFiniteSet(1..n) /\ Cardinality(1..n) = n
  BY <1>2, FS_Interval
<1>7. q \in Surjection(1..n, S)
  <2>1. Cardinality(1..n) = Cardinality(S)
    BY <1>6 DEF n
  <2>2. QED
    BY <1>1, <1>5, <2>1, FS_Injection
<1>8. \E k \in 1..n : q[k] = [cmd |-> cmd, id |-> i]
  BY <1>4, <1>7 DEF Surjection
<1>9. QED
  BY <1>2, <1>4, <1>8

LEMMA OrderTyped ==
    ASSUME NEW ids, IsFiniteSet(ids), NEW cmd, NEW q \in Orders(cmd, ids),
           {[cmd |-> cmd, id |-> i] : i \in ids} \subseteq Commands
    PROVE  q \in Seq(Commands)
<1> DEFINE S == {[cmd |-> cmd, id |-> i] : i \in ids}
<1>1. q \in Seq(S) /\ S \subseteq Commands
  BY OrderFacts
<1> HIDE DEF S
<1>2. QED
  BY <1>1, SeqMonotonic

LEMMA PolledRuns ==
    ASSUME TypeOK, Poll, NEW r \in Runs, run[r].status = "pending"
    PROVE  OnItsWay(r)'
<1>1. Due(run, "pending") \subseteq Runs /\ r \in Due(run, "pending")
  BY DEF Due, TypeOK
<1>2. IsFiniteSet(Due(run, "pending"))
  <2>1. IsFiniteSet(1..MaxRuns)
    BY RunsAssumption, FS_Interval
  <2>2. QED
    BY <1>1, <2>1, FS_Subset DEF Runs
<1>3. PICK a \in Orders("deploy", Due(dep, "deploying")), b \in Orders("run", Due(run, "pending")),
           c \in Orders("stop", Due(run, "stopping")) : inbox' = inbox \o a \o b \o c
  BY DEF Poll
<1>4. PICK k \in 1..Len(b) : b[k] = [cmd |-> "run", id |-> r]
  BY <1>1, <1>2, <1>3, OrderHasAll
<1>5. inbox \in Seq(Commands) /\ a \in Seq(Commands) /\ b \in Seq(Commands) /\ c \in Seq(Commands)
  <2>1. /\ IsFiniteSet(Due(dep, "deploying")) /\ Due(dep, "deploying") \subseteq Deployments
        /\ IsFiniteSet(Due(run, "stopping")) /\ Due(run, "stopping") \subseteq Runs
    <3>1. Due(dep, "deploying") \subseteq 1..MaxDeploys /\ Due(run, "stopping") \subseteq 1..MaxRuns
      BY DEF Due, TypeOK, Deployments, Runs
    <3>2. IsFiniteSet(1..MaxRuns) /\ IsFiniteSet(1..MaxDeploys)
      <4>1. MaxRuns \in Int /\ MaxDeploys \in Int
        BY RunsAssumption, BoundsAssumption
      <4>2. QED
        BY <4>1, FS_Interval
    <3>3. QED
      BY <3>1, <3>2, FS_Subset DEF Deployments, Runs
  <2>2. /\ {[cmd |-> "deploy", id |-> i] : i \in Due(dep, "deploying")} \subseteq Commands
        /\ {[cmd |-> "run", id |-> i] : i \in Due(run, "pending")} \subseteq Commands
        /\ {[cmd |-> "stop", id |-> i] : i \in Due(run, "stopping")} \subseteq Commands
    BY <1>1, <2>1 DEF Commands
  <2>3. QED
    BY <1>2, <1>3, <2>1, <2>2, OrderTyped DEF TypeOK
<1>6. /\ Len(inbox) + Len(a) + k \in 1..Len(inbox')
      /\ inbox'[Len(inbox) + Len(a) + k] = b[k]
  BY <1>3, <1>5
<1>7. QED
  BY <1>4, <1>6 DEF OnItsWay

-----------------------------------------------------------------------------
(* Every step is one of the ledger. *)
LEMMA KnownMoves ==
    ASSUME LInv, Next, NEW r \in Runs, \A p \in Procs : ~RunProcess(r, p)
    PROVE  /\ Known(r)' <=> Known(r)
           /\ run'[r].status = "pending" => run[r].status = "pending"
<1>1. RowsMove /\ RowMoves(r)
  BY RowStep, RowsMoved DEF LInv
<1>2. Known(r)' <=> Known(r)
  BY <1>1 DEF RowsMove, RowMoves, Known
<1>3. ASSUME run'[r].status = "pending" PROVE run[r].status = "pending"
  <2>1. Job(r) \in Jobs /\ Unissued(Job(r))'
    BY <1>3 DEF Job, Jobs, Unissued, Status
  <2>2. Unissued(Job(r))
    BY <1>1, <2>1 DEF RowsMove, Job
  <2>3. run[r].status \in {"absent", "pending", "deploying"}
    BY <2>2 DEF Unissued, Status, Job
  <2>4. Known(r)
    BY <1>2, <1>3 DEF Known
  <2>5. run[r].status \in RunStatuses
    BY DEF LInv, Inv, TypeOK
  <2>6. QED
    BY <2>3, <2>4, <2>5 DEF Known, RunStatuses, Terminal
<1>4. QED
  BY <1>2, <1>3

(* A run whose child is left alone, and which no poll finds, stays where it is or is given up. *)
LEMMA LifeKept ==
    ASSUME LInv, LInv', Next, ~Poll, NEW r \in Runs, \A p \in Procs : ~RunProcess(r, p),
           child'[r] = child[r]
    PROVE  /\ \/ Life(r)' = Life(r)
              \/ Life(r) \in {"pending", "issued"} /\ Life(r)' = "over"
           /\ OnItsWay(r)' = OnItsWay(r) /\ run'[r].status = run[r].status => Life(r)' = Life(r)
<1>1. /\ Known(r)' <=> Known(r)
      /\ run'[r].status = "pending" => run[r].status = "pending"
  BY KnownMoves
<1>2. OnItsWay(r)' => OnItsWay(r)
  BY WayBefore
<1>3. OnItsWay(r) => Known(r) /\ run[r].status # "pending" /\ child[r] = "none"
  BY WayFacts
<1>4. LifeIs /\ LifeIs'
  BY LifeHolds, LifeAfter
<1>5. child[r] \in {"none", "alive", "ok", "bad", "killed"} /\ (run[r].status = "pending" => Known(r))
  BY DEF LInv, Inv, TypeOK, Known
<1>6. CASE child[r] = "none"
  <2>1. CASE ~Known(r)
    BY <1>1, <1>4, <1>6, <2>1 DEF LifeIs
  <2>2. CASE run[r].status = "pending"
    <3>1. ~OnItsWay(r)' /\ Known(r)' /\ Life(r) = "pending"
      BY <1>1, <1>2, <1>3, <1>4, <1>5, <1>6, <2>2 DEF LifeIs
    <3>2. run'[r].status = "pending" => Life(r)' = "pending"
      BY <1>4, <1>6 DEF LifeIs
    <3>3. run'[r].status # "pending" => Life(r)' = "over"
      BY <1>4, <1>6, <3>1 DEF LifeIs
    <3>4. QED
      BY <2>2, <3>1, <3>2, <3>3
  <2>3. CASE Known(r) /\ run[r].status # "pending"
    <3>1. Known(r)' /\ run'[r].status # "pending"
      BY <1>1, <2>3
    <3>2. Life(r) = IF OnItsWay(r) THEN "issued" ELSE "over"
      BY <1>4, <1>6, <2>3 DEF LifeIs
    <3>3. Life(r)' = IF OnItsWay(r)' THEN "issued" ELSE "over"
      BY <1>4, <1>6, <3>1 DEF LifeIs
    <3>4. QED
      BY <1>2, <3>2, <3>3
  <2>4. QED
    BY <2>1, <2>2, <2>3
<1>7. CASE child[r] # "none"
  <2>1. Life(r)' = Life(r)
    BY <1>4, <1>5, <1>7 DEF LifeIs
  <2>2. QED
    BY <2>1
<1>8. QED
  BY <1>6, <1>7

(* Runs whose rows, children and ways are left alone. *)
LEMMA LifeSame ==
    ASSUME LInv, LInv', Next, ~Poll, NEW r \in Runs, run'[r] = run[r], child'[r] = child[r],
           OnItsWay(r)' = OnItsWay(r)
    PROVE  Life(r)' = Life(r)
<1>1. \A p \in Procs : ~RunProcess(r, p)
  BY DEF RunProcess, IsNext, LInv, Inv, TypeOK
<1>2. QED
  BY <1>1, LifeKept

LEMMA BlankLife ==
    ASSUME LInv, NEW r \in Runs, run[r].status \in {"absent", "pending"}
    PROVE  child[r] = "none" /\ Life(r) = run[r].status
<1>1. Ahead(r)
  BY DEF Ahead, Unissued, Status, Job
<1>2. child[r] = "none"
  BY <1>1 DEF LInv, Inv
<1>3. QED
  BY <1>2, LifeHolds DEF LifeIs, Known

LEMMA CreateImplements ==
    ASSUME LInv, LInv', Next, NEW r \in Runs, NEW p \in Procs, RunProcess(r, p)
    PROVE  Ledger!Next
<1>1. /\ run[r].status = "absent" /\ run'[r].status = "pending"
      /\ \A q \in Runs : q # r => run'[q] = run[q]
      /\ child' = child /\ slot' = slot /\ inbox' = inbox /\ net' = net
  BY DEF RunProcess, IsNext, agentVars, LInv, Inv, TypeOK
<1>2. ~Poll
  BY <1>1 DEF Poll, Marked, LInv, Inv, TypeOK
<1>3. \A q \in Runs : OnItsWay(q)' = OnItsWay(q)
  BY <1>1 DEF OnItsWay
<1>4. \A q \in Runs : q # r => Life(q)' = Life(q)
  BY <1>1, <1>2, <1>3, LifeSame
<1>5. Life(r) = "absent" /\ child[r] = "none"
  BY <1>1, BlankLife
<1>6. Life(r)' = "pending"
  BY <1>1, <1>5, LifeAfter DEF LifeIs
<1>7. Given' = Given
  BY <1>1 DEF Given
<1>8. QED
  BY <1>4, <1>5, <1>6, <1>7, LedgerMove

LEMMA PollImplements == ASSUME LInv, LInv', Poll PROVE Ledger!Next
<1>1. /\ child' = child /\ slot' = slot /\ Inv
      /\ \A r \in Runs : /\ run[r].status = "pending" => run'[r].status = "dispatched"
                         /\ run[r].status # "pending" => run'[r].status = run[r].status
  BY MarkedRows DEF Poll, LInv, Inv, TypeOK, RowTypes
<1>2. ASSUME NEW r \in Runs, run[r].status = "pending"
      PROVE  Life(r) = "pending" /\ Life(r)' = "issued"
  <2>1. child[r] = "none" /\ Life(r) = "pending"
    BY <1>2, BlankLife
  <2>2. OnItsWay(r)'
    BY <1>1, <1>2, PolledRuns DEF Inv
  <2>3. Known(r)' /\ run'[r].status # "pending"
    BY <1>1, <1>2 DEF Known
  <2>4. QED
    BY <1>1, <2>1, <2>2, <2>3, LifeAfter DEF LifeIs
<1>3. ASSUME NEW r \in Runs, run[r].status # "pending" PROVE Life(r)' = Life(r)
  <2>1. Job(r) \in Jobs /\ ~New(Job(r))
    BY <1>3 DEF Job, Jobs, New, Due
  <2>2. \A k \in Nat : Queued(Job(r), k)' <=> Queued(Job(r), k)
    BY <1>1, <2>1, PollWork DEF Job
  <2>3. OnItsWay(r)' <=> OnItsWay(r)
    BY <1>1, <2>2, WayIs, WayIsAfter
  <2>4. /\ Known(r)' <=> Known(r)
        /\ run'[r].status # "pending" /\ child'[r] = child[r]
        /\ child[r] \in {"none", "alive", "ok", "bad", "killed"}
    BY <1>1, <1>3 DEF Known, Inv, TypeOK
  <2>5. LifeIs /\ LifeIs'
    BY LifeHolds, LifeAfter
  <2>6. CASE child[r] = "none" /\ Known(r)
    <3>1. Life(r) = IF OnItsWay(r) THEN "issued" ELSE "over"
      BY <1>3, <2>5, <2>6 DEF LifeIs
    <3>2. Life(r)' = IF OnItsWay(r)' THEN "issued" ELSE "over"
      BY <2>4, <2>5, <2>6 DEF LifeIs
    <3>3. QED
      BY <2>3, <3>1, <3>2
  <2>7. CASE ~(child[r] = "none" /\ Known(r))
    BY <2>4, <2>5, <2>7 DEF LifeIs
  <2>8. QED
    BY <2>6, <2>7
<1>4. Given' = Given
  BY <1>1 DEF Given
<1>5. QED
  BY <1>2, <1>3, <1>4, LedgerIssue

LEMMA SpawnImplements ==
    ASSUME LInv, LInv', Next, NEW s \in Slots, Spawn(s)
    PROVE  Ledger!Next
<1>1. PICK r \in Runs : slot[s].id = r
  BY WorkerKnown DEF Spawn, LInv, RunPoints
<1>2. /\ slot[s].at = "build" /\ MoveTo(s, "stream") /\ child' = [child EXCEPT ![r] = "alive"]
      /\ run' = run /\ inbox' = inbox
      /\ child \in [Runs -> {"none", "alive", "ok", "bad", "killed"}]
  BY <1>1 DEF Spawn, serverVars, LInv, Inv, TypeOK
<1>3. /\ slot'[s].at = "stream" /\ slot'[s].id = r
      /\ \A t \in Slots : t # s => slot'[t] = slot[t]
  BY <1>1, <1>2, MoveType DEF LInv, Inv, RunPoints
<1>4. ~Poll
  BY <1>2, <1>3 DEF Poll
<1>5. \A q \in Runs : q # r => OnItsWay(q)' = OnItsWay(q)
  <2>1. ASSUME NEW q \in Runs, q # r
        PROVE  \A t \in Slots : slot'[t].id = q /\ slot'[t].at \in {"running", "build"}
                                   <=> slot[t].id = q /\ slot[t].at \in {"running", "build"}
    BY <1>1, <1>3, <2>1
  <2>2. QED
    BY <1>2, <2>1 DEF OnItsWay
<1>6. \A q \in Runs : q # r => Life(q)' = Life(q)
  BY <1>2, <1>4, <1>5, LifeSame
<1>7. OnItsWay(r)
  BY <1>1, <1>2 DEF OnItsWay
<1>8. Life(r) = "issued" /\ Life(r)' = "executing"
  <2>1. Life(r) = "issued"
    BY <1>7, WayFacts, LifeHolds DEF LifeIs
  <2>2. child'[r] = "alive"
    BY <1>2
  <2>3. QED
    BY <2>1, <2>2, LifeAfter DEF LifeIs
<1>9. Given' = Given
  BY <1>2 DEF Given
<1>10. QED
  BY <1>6, <1>8, <1>9, LedgerMove

(* A child ends by itself, or by a stop. *)
LEMMA EndImplements ==
    ASSUME LInv, LInv', Next,
           (\E r \in Runs : ChildExits(r)) \/ (\E s \in Slots : Kill(s)), child' # child
    PROVE  Ledger!Next
<1>1. child \in [Runs -> {"none", "alive", "ok", "bad", "killed"}] /\ TypeOK
  BY DEF LInv, Inv, TypeOK
<1>2. run' = run /\ slot' = slot /\ inbox' = inbox
  BY DEF ChildExits, Kill, serverVars, agentVars
<1>3. PICK r \in Runs, end \in {"ok", "bad", "killed"} :
         child[r] = "alive" /\ child' = [child EXCEPT ![r] = end]
  <2>1. CASE \E r \in Runs : ChildExits(r)
    BY <2>1 DEF ChildExits
  <2>2. ASSUME NEW s \in Slots, Kill(s)
        PROVE  \E r \in Runs, end \in {"ok", "bad", "killed"} :
                  child[r] = "alive" /\ child' = [child EXCEPT ![r] = end]
    <3>1. /\ child[slot[s].victim] = "alive"
          /\ child' = [child EXCEPT ![slot[s].victim] = "killed"]
      BY <2>2 DEF Kill
    <3>2. slot[s].victim \in Runs
      <4>1. slot[s].victim \notin Runs => child' = child
        BY <1>1, <3>1
      <4>2. QED
        BY <4>1
    <3>3. QED
      BY <3>1, <3>2
  <2>3. QED
    BY <2>1, <2>2
<1>4. /\ child'[r] = end /\ \A q \in Runs : q # r => child'[q] = child[q]
  BY <1>1, <1>3
<1>5. ~Poll
  BY <1>1, <1>3, <1>4 DEF Poll
<1>6. \A q \in Runs : OnItsWay(q)' = OnItsWay(q)
  BY <1>2 DEF OnItsWay
<1>7. \A q \in Runs : q # r => Life(q)' = Life(q)
  BY <1>2, <1>4, <1>5, <1>6, LifeSame
<1>8. Life(r) = "executing" /\ Life(r)' \in {"succeeded", "over"}
  BY <1>3, <1>4, LifeHolds, LifeAfter DEF LifeIs
<1>9. Given' = Given
  BY <1>2 DEF Given
<1>10. QED
  BY <1>7, <1>8, <1>9, LedgerMove

(* A reply sends its task on, or ends one that is past its way. *)
LEMMA ReplyKeepsWay ==
    ASSUME LInv, NEW m \in net, Answered(m) \/ ArrivesLate(m), NEW r \in Runs
    PROVE  OnItsWay(r)' = OnItsWay(r)
<1>1. TypeOK /\ AwaitsOK /\ slot \in [Slots -> Tasks \cup {Free}] /\ inbox' = inbox
  BY DEF LInv, Inv, TypeOK, Answered, ArrivesLate, agentVars
<1>2. \A s \in Slots : slot'[s].id = r /\ slot'[s].at \in {"running", "build"}
                          <=> slot[s].id = r /\ slot[s].at \in {"running", "build"}
  <2>1. CASE ArrivesLate(m)
    BY <2>1 DEF ArrivesLate, agentVars
  <2>2. CASE Answered(m)
    <3>1. m.slot \in Slots /\ slot[m.slot].at \in ReplyPoints /\ Resume(m.slot)
      BY <1>1, <2>2, ReportFacts DEF Answered, AwaitsOK, TypeOK
    <3>2. CASE slot[m.slot].at = "running" /\ MoveTo(m.slot, "build")
      <4>1. /\ slot'[m.slot].at = "build" /\ slot'[m.slot].id = slot[m.slot].id
            /\ \A t \in Slots : t # m.slot => slot'[t] = slot[t]
        BY <1>1, <3>1, <3>2, MoveType DEF RunPoints
      <4>2. QED
        BY <3>2, <4>1
    <3>3. CASE slot[m.slot].at # "running" /\ slot' = [slot EXCEPT ![m.slot] = Free]
      <4>1. slot[m.slot].at \notin {"running", "build"} /\ slot'[m.slot].at = "free"
        BY <1>1, <3>1, <3>3 DEF ReplyPoints, Free
      <4>2. \A t \in Slots : t # m.slot => slot'[t] = slot[t]
        BY <1>1, <3>3
      <4>3. QED
        BY <4>1, <4>2
    <3>4. QED
      BY <3>1, <3>2, <3>3 DEF Resume, Finish
  <2>3. QED
    BY <2>1, <2>2
<1>3. QED
  BY <1>1, <1>2 DEF OnItsWay

LEMMA TellImplements ==
    ASSUME LInv, LInv', Next, NEW m \in net, NEW r \in Runs, Tells(m, r)
    PROVE  Ledger!Next
<1>1. /\ Answered(m) \/ ArrivesLate(m)
      /\ run' = SetStatus(run, r, "completed") /\ child' = child /\ net' = net \ {m}
      /\ run \in [Runs -> [status : RunStatuses, proc : Procs \cup {None}]]
  BY DEF Tells, Answered, ArrivesLate, Apply, LInv, Inv, TypeOK
<1>2. child[r] = "ok"
  BY DEF Tells, LInv, Inv, Truthful
<1>3. /\ \A q \in Runs : q # r => run'[q] = run[q]
      /\ Given' = Given \/ Given' = Given \cup {r}
  BY <1>1 DEF SetStatus, Given
<1>4. ~Poll
  BY <1>1 DEF Poll
<1>5. \A q \in Runs : q # r => Life(q)' = Life(q)
  BY <1>1, <1>3, <1>4, ReplyKeepsWay, LifeSame
<1>6. Life(r) = "succeeded" /\ Life(r)' = "succeeded"
  BY <1>1, <1>2, LifeHolds, LifeAfter DEF LifeIs
<1>7. CASE Given' = Given
  BY <1>5, <1>6, <1>7, LedgerDrop
<1>8. CASE Given' = Given \cup {r}
  BY <1>5, <1>6, <1>8, LedgerTell
<1>9. QED
  BY <1>3, <1>7, <1>8

(* All other steps give runs up, or leave them alone. *)
LEMMA OthersImplement ==
    ASSUME LInv, LInv', Next, ~Poll, child' = child,
           \A r \in Runs, p \in Procs : ~RunProcess(r, p),
           \A r \in Runs, m \in net : ~Tells(m, r)
    PROVE  Ledger!Next
<1>1. \A r \in Runs : \/ Life(r)' = Life(r)
                      \/ Life(r) \in {"pending", "issued"} /\ Life(r)' = "over"
  BY LifeKept
<1>2. Given' \subseteq Given
  BY RowsMoved DEF RowMoves, Given
<1>3. QED
  BY <1>1, <1>2, LedgerDrop

LEMMA ChildrenMoved ==
    ASSUME Next, child' # child
    PROVE  \/ \E s \in Slots : Spawn(s) \/ Kill(s)
           \/ \E r \in Runs : ChildExits(r)
<1>1. CASE \E s \in Slots : Task(s) \/ StreamBreaks(s)
  BY <1>1 DEF Task, StartDeploy, StartRun, StartStop, Start, Prepare, BuildFails, StreamEnds,
              StreamBreaks, StopReturns
<1>2. CASE \E m \in net : Answered(m) \/ Refused(m) \/ GivesUp(m) \/ ArrivesLate(m) \/ NeverArrives(m)
  BY <1>2 DEF Answered, Refused, GivesUp, ArrivesLate, NeverArrives
<1>3. CASE \/ \E r \in Runs, p \in Procs : RunProcess(r, p)
           \/ \E d \in Deployments, p \in Procs : DeployProcess(d, p)
           \/ \E p \in Procs : DeleteProcess(p)
           \/ \E r \in Runs : StopSelect(r)
           \/ StopCommit \/ StopRollback \/ Poll \/ PollLost \/ Crash
  BY <1>3 DEF RunProcess, DeployProcess, DeleteProcess, StopSelect, StopCommit, StopRollback, Poll,
              PollLost, Crash
<1>4. CASE \E r \in Runs : ChildExits(r)
  BY <1>4
<1>5. QED
  BY <1>1, <1>2, <1>3, <1>4 DEF Next

(* The detailed specification implements the ledger of runs: whatever rows say, reports are    *)
(* lost and tasks die, a run is started once at most, after a poll that issued it, and never   *)
(* once it was given up; and it is called completed after its script has succeeded.            *)
THEOREM RunRefinement == Spec => ImplementsRunLedger
<1>1. Init => Ledger!Init
  <2> SUFFICES ASSUME Init PROVE Ledger!Init
    OBVIOUS
  <2>1. \A r \in Runs : Life(r) = "absent" /\ run[r].status = "absent"
    <3>1. LInv /\ \A r \in Runs : run[r].status = "absent"
      BY InitLInv DEF Init
    <3>2. QED
      BY <3>1, BlankLife
  <2>2. QED
    BY <2>1 DEF Ledger!Init
<1>2. LInv /\ LInv' /\ [Next]_vars => [Ledger!Next]_(Ledger!vars)
  <2>1. ASSUME LInv, LInv', Next PROVE Ledger!Next
    <3>1. CASE \E r \in Runs, p \in Procs : RunProcess(r, p)
      BY <2>1, <3>1, CreateImplements
    <3>2. CASE Poll
      BY <2>1, <3>2, PollImplements
    <3>3. CASE child' # child
      BY <2>1, <3>3, ChildrenMoved, SpawnImplements, EndImplements
    <3>4. CASE \E r \in Runs, m \in net : Tells(m, r)
      BY <2>1, <3>4, TellImplements
    <3>5. QED
      BY <2>1, <3>1, <3>2, <3>3, <3>4, OthersImplement
  <2>2. ASSUME UNCHANGED vars PROVE UNCHANGED Ledger!vars
    BY <2>2 DEF vars, serverVars, agentVars, Ledger!vars, Life, OnItsWay
  <2>3. QED
    BY <2>1, <2>2
<1>3. QED
  BY <1>1, <1>2, LInvariance, PTL DEF Spec, ImplementsRunLedger, Ledger!Spec
=============================================================================
