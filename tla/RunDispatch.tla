---------------------------- MODULE RunDispatch ----------------------------
(***************************************************************************)
(* How runs and deployments travel from the orchestrator to one agent and  *)
(* back.                                                                   *)
(*                                                                         *)
(* The orchestrator keeps their rows (process_runs, process_deployments)   *)
(* and changes the status in independent requests: run, deploy, stop,      *)
(* delete, poll, status and ack.  The agent turns every polled command     *)
(* into an asyncio task; tasks take turns at a semaphore, POST reports,    *)
(* and share one table of subprocess handles that is keyed by PROCESS.     *)
(*                                                                         *)
(* A step is the code between two awaits of the agent, or one transaction  *)
(* of the orchestrator.  A report and the agent's reading of its reply are *)
(* one step (Answered), unless the agent gives up waiting first.           *)
(***************************************************************************)
EXTENDS Integers, FiniteSets, Sequences, SequencesExt

CONSTANTS
    MaxRuns,     \* runs are numbered in created_at order
    MaxDeploys,  \* deployments are numbered likewise
    Procs,       \* rows of processes
    Permits,     \* of the agent's semaphore: _MAX_CONCURRENT_RUNS
    MaxStops,    \* bound on the stop requests of users
    Deletable,   \* the processes that users may delete
    MaxFaults,   \* bound on lost replies, server errors, broken streams, agent crashes
    MaxBacklog,  \* bound on the commands that wait for a permit
    None         \* an absent process, run or slot

ASSUME RunsAssumption == MaxRuns \in Nat \ {0}
ASSUME PermitsAssumption == Permits \in Nat \ {0}
ASSUME NoneAssumption == None \notin Procs \cup Nat
ASSUME BoundsAssumption == {MaxDeploys, MaxStops, MaxFaults, MaxBacklog} \subseteq Nat

VARIABLES
    procs,     \* the processes that exist
    run,       \* process_runs: status and process of every run
    dep,       \* process_deployments: status and process of every deployment
    stopping,  \* the run that a stop request has selected and not yet written
    inbox,     \* the agent's tasks that wait for the semaphore, in order
    slot,      \* the agent's tasks that hold a permit
    net,       \* reports and acks sent and not yet handled by the orchestrator
    handle,    \* ProcessExecutor._processes: process -> the run whose child it is
    child,     \* the operating system's view of the subprocess of each run
    stops,     \* stop requests made so far
    faults     \* faults so far

serverVars == <<procs, run, dep, stopping>>
agentVars == <<inbox, slot, handle>>
bounds == <<stops, faults>>
vars == <<serverVars, agentVars, net, child, bounds>>

-----------------------------------------------------------------------------
Runs == 1..MaxRuns
Deployments == 1..MaxDeploys
Slots == 1..Permits

\* "absent": not created yet; "gone": deleted together with its process.
Terminal == {"completed", "failed", "stopped"}
RunStatuses == {"absent", "pending", "dispatched", "running", "stopping", "gone"} \cup Terminal
DeploymentStatuses == {"absent", "deploying", "dispatched", "deployed", "failed", "gone"}

Commands == [cmd : {"run", "stop"}, id : Runs] \cup [cmd : {"deploy"}, id : Deployments]

\* Where a task is suspended.
\*   run:    running  awaits the reply to "running"
\*           build    awaits the virtual environment, then the start of the child
\*           stream   awaits the output and the end of the child
\*           report   awaits the reply to the final status
\*           except   awaits the reply to "failed" inside the except clause
\*   stop:   kill     awaits executor.stop on the child of run victim
\*           stopped  awaits the reply to "stopped"
\*   deploy: prepare  awaits executor.deploy
\*           ack      awaits the reply to "deployed"
\*           nack     awaits the reply to "failed" inside the except clause
RunPoints == {"running", "build", "stream", "report", "except"}
StopPoints == {"kill", "stopped"}
DeployPoints == {"prepare", "ack", "nack"}

Free == [at |-> "free", id |-> None, victim |-> None]
Tasks == [at : RunPoints \cup StopPoints, id : Runs, victim : Runs \cup {None}]
           \cup [at : DeployPoints, id : Deployments, victim : {None}]

\* slot: the task that awaits the reply, None when it gave up or died.
Reports == [of : {"run"}, id : Runs, status : {"running"} \cup Terminal, slot : Slots \cup {None}]
    \cup [of : {"deployment"}, id : Deployments, status : {"deployed", "failed"},
          slot : Slots \cup {None}]

TypeOK ==
    /\ procs \subseteq Procs
    /\ run \in [Runs -> [status : RunStatuses, proc : Procs \cup {None}]]
    /\ dep \in [Deployments -> [status : DeploymentStatuses, proc : Procs \cup {None}]]
    /\ stopping \in Runs \cup {None}
    /\ inbox \in Seq(Commands)
    /\ slot \in [Slots -> Tasks \cup {Free}]
    /\ net \subseteq Reports
    /\ handle \in [Procs -> Runs \cup {None}]
    /\ child \in [Runs -> {"none", "alive", "ok", "bad", "killed"}]
    /\ stops \in Nat
    /\ faults \in Nat

Init ==
    /\ procs = Procs
    /\ run = [r \in Runs |-> [status |-> "absent", proc |-> None]]
    /\ dep = [d \in Deployments |-> [status |-> "absent", proc |-> None]]
    /\ stopping = None
    /\ inbox = <<>>
    /\ slot = [s \in Slots |-> Free]
    /\ net = {}
    /\ handle = [p \in Procs |-> None]
    /\ child = [r \in Runs |-> "none"]
    /\ stops = 0
    /\ faults = 0

Fault ==
    /\ faults < MaxFaults
    /\ faults' = faults + 1
    /\ UNCHANGED stops

-----------------------------------------------------------------------------
(* The orchestrator *)

\* Rows get numbers in the order of their creation.
IsNext(table, i) ==
    /\ table[i].status = "absent"
    /\ \A j \in DOMAIN table : j < i => table[j].status # "absent"

\* POST /processes/{id}/run; fire_due_triggers inserts the same row.
RunProcess(r, p) ==
    /\ IsNext(run, r)
    /\ p \in procs
    /\ run' = [run EXCEPT ![r] = [status |-> "pending", proc |-> p]]
    /\ UNCHANGED <<procs, dep, stopping, agentVars, net, child, bounds>>

\* POST /processes/{id}/deploy
DeployProcess(d, p) ==
    /\ IsNext(dep, d)
    /\ p \in procs
    /\ dep' = [dep EXCEPT ![d] = [status |-> "deploying", proc |-> p]]
    /\ UNCHANGED <<procs, run, stopping, agentVars, net, child, bounds>>

\* DELETE /processes/{id}: the rows cascade; the agent is not told.
DeleteProcess(p) ==
    /\ p \in procs \cap Deletable
    /\ procs' = procs \ {p}
    /\ run' = [r \in Runs |-> IF run[r].proc = p THEN [run[r] EXCEPT !.status = "gone"] ELSE run[r]]
    /\ dep' = [d \in Deployments |->
                 IF dep[d].proc = p THEN [dep[d] EXCEPT !.status = "gone"] ELSE dep[d]]
    /\ UNCHANGED <<stopping, agentVars, net, child, bounds>>

\* POST /processes/{id}/stop selects the newest active run of the process ...
StopSelect(r) ==
    /\ stopping = None
    /\ stops < MaxStops
    /\ run[r].status \in {"running", "dispatched"}
    /\ \A q \in Runs : /\ run[q].status \in {"running", "dispatched"}
                       /\ run[q].proc = run[r].proc
                       => q <= r
    /\ stopping' = r
    /\ stops' = stops + 1
    /\ UNCHANGED <<procs, run, dep, agentVars, net, child, faults>>

\* An UPDATE by primary key: nothing of a deleted row is left to change.
SetStatus(table, i, status) ==
    IF table[i].status = "gone" THEN table ELSE [table EXCEPT ![i].status = status]

\* ... and writes its status by primary key, whatever it has become meanwhile.
StopCommit ==
    /\ stopping # None
    /\ run' = SetStatus(run, stopping, "stopping")
    /\ stopping' = None
    /\ UNCHANGED <<procs, dep, agentVars, net, child, bounds>>

\* The request ends without a commit: a lost connection, a crash of the orchestrator.
StopRollback ==
    /\ Fault
    /\ stopping # None
    /\ stopping' = None
    /\ UNCHANGED <<procs, run, dep, agentVars, net, child>>

\* GET /agents/{id}/poll: the commands that are due, and the statuses it leaves behind.

\* Mutant of Due: a run that was issued is handed out again until it is reported on.
DueAgain(table, status) ==
    {i \in DOMAIN table : \/ table[i].status = status
                          \/ status = "pending" /\ table[i].status = "dispatched"}

Due(table, status) == {i \in DOMAIN table : table[i].status = status}

\* Mutant of Marked: an issued command is not marked.
MarkedNothing(table, status) == table

Marked(table, status) ==
    [i \in DOMAIN table |-> IF table[i].status = status
                            THEN [table[i] EXCEPT !.status = "dispatched"] ELSE table[i]]

\* The SELECTs have no ORDER BY.
Orders(cmd, ids) == SetToSeqs({[cmd |-> cmd, id |-> i] : i \in ids})

Poll ==
    /\ LET deploys == Due(dep, "deploying")
           pending == Due(run, "pending")
           stop == Due(run, "stopping")
       IN /\ deploys \cup pending \cup stop # {}
          /\ Len(inbox) + Cardinality(deploys) + Cardinality(pending) + Cardinality(stop)
                <= MaxBacklog
          /\ \E a \in Orders("deploy", deploys), b \in Orders("run", pending),
                c \in Orders("stop", stop) : inbox' = inbox \o a \o b \o c
    /\ dep' = Marked(dep, "deploying")
    /\ run' = Marked(run, "pending")
    /\ UNCHANGED <<procs, stopping, slot, handle, net, child, bounds>>

\* The transaction commits and the agent never sees the response.
PollLost ==
    /\ Fault
    /\ Due(dep, "deploying") \cup Due(run, "pending") # {}
    /\ dep' = Marked(dep, "deploying")
    /\ run' = Marked(run, "pending")
    /\ UNCHANGED <<procs, stopping, agentVars, net, child>>

\* Mutant of Apply: reports on a run that is being stopped are ignored.
ApplyUnlessStopping(m) ==
    IF m.of = "run"
    THEN /\ run' = IF run[m.id].status = "stopping" THEN run ELSE SetStatus(run, m.id, m.status)
         /\ UNCHANGED dep
    ELSE dep' = SetStatus(dep, m.id, m.status) /\ UNCHANGED run

\* POST /agents/{id}/status and .../deployments/{id}/ack overwrite the status, whatever it is.
Apply(m) ==
    IF m.of = "run"
    THEN run' = SetStatus(run, m.id, m.status) /\ UNCHANGED dep
    ELSE dep' = SetStatus(dep, m.id, m.status) /\ UNCHANGED run

-----------------------------------------------------------------------------
(* The agent: taking a command *)

RunReport(s, r, status) == [of |-> "run", id |-> r, status |-> status, slot |-> s]
Ack(s, d, status) == [of |-> "deployment", id |-> d, status |-> status, slot |-> s]

\* Mutant of IsRunning: the test of the return code is inverted.
IsRunningInverted(p) == handle[p] # None /\ child[handle[p]] # "alive"

IsRunning(p) == handle[p] # None /\ child[handle[p]] = "alive"

\* Mutant of Forget: the handle of a finished child stays in the table.
ForgetNothing(p) == handle

Forget(p) == [handle EXCEPT ![p] = None]

\* The task at the head of the queue gets a permit and runs to its first await.  Permits are
\* alike: it is the first one that is free.
Start(s, cmd, task) ==
    /\ slot[s] = Free
    /\ \A t \in Slots : t < s => slot[t] # Free
    /\ inbox # <<>> /\ Head(inbox).cmd = cmd
    /\ slot' = [slot EXCEPT ![s] = task]
    /\ inbox' = Tail(inbox)
    /\ UNCHANGED <<serverVars, handle, child, bounds>>

StartDeploy(s) ==
    /\ Start(s, "deploy", [at |-> "prepare", id |-> Head(inbox).id, victim |-> None])
    /\ UNCHANGED net

StartRun(s) ==
    /\ Start(s, "run", [at |-> "running", id |-> Head(inbox).id, victim |-> None])
    /\ net' = net \cup {RunReport(s, Head(inbox).id, "running")}

\* The target is the process of the run: _run_to_process has no other value for it.
StartStop(s) ==
    LET r == Head(inbox).id
        p == run[r].proc
    IN \/ /\ Start(s, "stop", [at |-> "kill", id |-> r, victim |-> handle[p]])
          /\ IsRunning(p)
          /\ UNCHANGED net
       \/ /\ Start(s, "stop", [at |-> "stopped", id |-> r, victim |-> None])
          /\ ~IsRunning(p)
          /\ net' = net \cup {RunReport(s, r, "stopped")}

-----------------------------------------------------------------------------
(* The agent: working on it *)

MoveTo(s, point) == slot' = [slot EXCEPT ![s].at = point]

\* The task of a run POSTs a status and waits for the reply at the given point.
PostStatus(s, point, status) ==
    /\ MoveTo(s, point)
    /\ net' = net \cup {RunReport(s, slot[s].id, status)}

PostAck(s, point, status) ==
    /\ MoveTo(s, point)
    /\ net' = net \cup {Ack(s, slot[s].id, status)}

Prepare(s) ==
    /\ slot[s].at = "prepare"
    /\ PostAck(s, "ack", "deployed") \/ PostAck(s, "nack", "failed")
    /\ UNCHANGED <<serverVars, inbox, handle, child, bounds>>

Spawn(s) ==
    /\ slot[s].at = "build"
    /\ MoveTo(s, "stream")
    /\ child' = [child EXCEPT ![slot[s].id] = "alive"]
    /\ handle' = [handle EXCEPT ![run[slot[s].id].proc] = slot[s].id]
    /\ UNCHANGED <<serverVars, inbox, net, bounds>>

BuildFails(s) ==
    /\ slot[s].at = "build"
    /\ PostStatus(s, "except", "failed")
    /\ UNCHANGED <<serverVars, inbox, handle, child, bounds>>

\* Mutants of FinalStatus: only a killed child counts as failed; a killed child is reported
\* with the status that asked for its end.
FinalStatusUnlessKilled(r) == IF child[r] # "killed" THEN "completed" ELSE "failed"
FinalStatusEchoesStop(r) ==
    IF child[r] = "killed" THEN "stopping" ELSE IF child[r] = "ok" THEN "completed" ELSE "failed"

FinalStatus(r) == IF child[r] = "ok" THEN "completed" ELSE "failed"

StreamEnds(s) ==
    /\ slot[s].at = "stream"
    /\ child[slot[s].id] # "alive"
    /\ PostStatus(s, "report", FinalStatus(slot[s].id))
    /\ UNCHANGED <<serverVars, inbox, handle, child, bounds>>

\* readline() raises on an overlong line; the child goes on.
StreamBreaks(s) ==
    /\ Fault
    /\ slot[s].at = "stream"
    /\ PostStatus(s, "except", "failed")
    /\ UNCHANGED <<serverVars, inbox, handle, child>>

\* terminate(), or kill() when the child has not ended after ten seconds.
Kill(s) ==
    /\ slot[s].at = "kill"
    /\ child[slot[s].victim] = "alive"
    /\ child' = [child EXCEPT ![slot[s].victim] = "killed"]
    /\ UNCHANGED <<serverVars, agentVars, net, bounds>>

\* executor.stop returns, dropping whatever handle the process has by now.
StopReturns(s) ==
    /\ slot[s].at = "kill"
    /\ child[slot[s].victim] # "alive"
    /\ handle' = Forget(run[slot[s].id].proc)
    /\ PostStatus(s, "stopped", "stopped")
    /\ UNCHANGED <<serverVars, inbox, child, bounds>>

-----------------------------------------------------------------------------
(* The agent: the reply to a report, or its absence *)

\* The task ends; run and stop tasks drop the handle of their process.
Finish(s) ==
    /\ slot' = [slot EXCEPT ![s] = Free]
    /\ handle' = IF slot[s].at \in DeployPoints THEN handle ELSE Forget(run[slot[s].id].proc)

\* What the task does when the POST returns; a response with an error status is no exception.
Resume(s) ==
    \/ slot[s].at = "running" /\ MoveTo(s, "build") /\ UNCHANGED handle
    \/ slot[s].at # "running" /\ Finish(s)

Answered(m) ==
    /\ m.slot # None
    /\ Apply(m)
    /\ net' = net \ {m}
    /\ Resume(m.slot)
    /\ UNCHANGED <<procs, stopping, inbox, child, bounds>>

\* The orchestrator answers with a server error: nothing is written.
Refused(m) ==
    /\ Fault
    /\ m.slot # None
    /\ net' = net \ {m}
    /\ Resume(m.slot)
    /\ UNCHANGED <<serverVars, inbox, child>>

\* The agent gives up waiting, or loses the connection; the report may still arrive.
GivesUp(m) ==
    /\ Fault
    /\ m.slot # None
    /\ LET s == m.slot
           late == (net \ {m}) \cup {[m EXCEPT !.slot = None]}
       IN \/ /\ slot[s].at \in {"running", "report"}     \* raises into the except clause
             /\ MoveTo(s, "except")
             /\ net' = late \cup {RunReport(s, slot[s].id, "failed")}
             /\ UNCHANGED handle
          \/ /\ slot[s].at = "ack"
             /\ MoveTo(s, "nack")
             /\ net' = late \cup {Ack(s, slot[s].id, "failed")}
             /\ UNCHANGED handle
          \/ /\ slot[s].at \in {"except", "nack"}         \* the finally clause; or logged
             /\ Finish(s)
             /\ net' = late
          \/ /\ slot[s].at = "stopped"                    \* nothing is forgotten
             /\ slot' = [slot EXCEPT ![s] = Free]
             /\ net' = late
             /\ UNCHANGED handle
    /\ UNCHANGED <<serverVars, inbox, child>>

ArrivesLate(m) ==
    /\ m.slot = None
    /\ Apply(m)
    /\ net' = net \ {m}
    /\ UNCHANGED <<procs, stopping, agentVars, child, bounds>>

NeverArrives(m) ==
    /\ m.slot = None
    /\ net' = net \ {m}
    /\ UNCHANGED <<serverVars, agentVars, child, bounds>>

-----------------------------------------------------------------------------
(* The machine of the agent *)

ChildExits(r) ==
    /\ child[r] = "alive"
    /\ \E code \in {"ok", "bad"} : child' = [child EXCEPT ![r] = code]
    /\ UNCHANGED <<serverVars, agentVars, net, bounds>>

\* The agent process dies and is started again: its tasks, its handles and its interest in
\* replies are gone, its children are not.
Crash ==
    /\ Fault
    /\ inbox' = <<>>
    /\ slot' = [s \in Slots |-> Free]
    /\ net' = {[m EXCEPT !.slot = None] : m \in net}
    /\ handle' = [p \in Procs |-> None]
    /\ UNCHANGED <<serverVars, child>>

-----------------------------------------------------------------------------
Task(s) ==
    \/ StartDeploy(s) \/ StartRun(s) \/ StartStop(s)
    \/ Prepare(s)
    \/ Spawn(s) \/ BuildFails(s)
    \/ StreamEnds(s)
    \/ Kill(s) \/ StopReturns(s)

Next ==
    \/ \E r \in Runs, p \in Procs : RunProcess(r, p)
    \/ \E d \in Deployments, p \in Procs : DeployProcess(d, p)
    \/ \E p \in Procs : DeleteProcess(p)
    \/ \E r \in Runs : StopSelect(r)
    \/ StopCommit
    \/ StopRollback
    \/ Poll
    \/ PollLost
    \/ \E s \in Slots : Task(s) \/ StreamBreaks(s)
    \/ \E m \in net : Answered(m) \/ Refused(m) \/ GivesUp(m) \/ ArrivesLate(m) \/ NeverArrives(m)
    \/ \E r \in Runs : ChildExits(r)
    \/ Crash

Spec == Init /\ [][Next]_vars

\* The event loops of both programs keep running: the agent polls, its tasks are resumed, and
\* a request that was sent is handled.  Nothing is assumed of users or of the children.
Progress ==
    /\ WF_vars(Poll)
    /\ WF_vars(StopCommit)
    /\ \A s \in Slots : /\ WF_vars(Task(s))
                        /\ WF_vars(\E m \in net : m.slot = s /\ Answered(m))

LiveSpec == Spec /\ Progress

-----------------------------------------------------------------------------
(* What the two programs promise together *)

\* The tasks of the agent that were made from one command.
Copies(cmd, points, i) ==
    Cardinality({k \in 1..Len(inbox) : inbox[k] = [cmd |-> cmd, id |-> i]})
  + Cardinality({s \in Slots : slot[s].at \in points /\ slot[s].id = i})

\* The orchestrator calls a run completed only when its subprocess has ended with code 0,
\* whatever reports are lost, late or sent twice, and whoever stops or restarts what.
CompletedMeansExitZero ==
    \A r \in Runs : run[r].status = "completed" => child[r] = "ok"

\* A run is executed at most once: no poll, lost response or restart starts it again.
ExecutedAtMostOnce ==
    [][\A r \in Runs : child[r] # "none" /\ child'[r] = "alive" => child[r] = "alive"]_vars

\* A handle never outlives the task that registered it, so no stop can find the handle of a
\* run that is over.
HandleHasTask ==
    \A p \in Procs : handle[p] # None =>
        \E s \in Slots : slot[s].id = handle[p] /\ slot[s].at \in {"stream", "report", "except"}

\* No poll hands the agent a second copy of a run or a deployment that it still works on.
WorkIsIssuedOnce ==
    /\ \A r \in Runs : Copies("run", RunPoints, r) <= 1
    /\ \A d \in Deployments : Copies("deploy", DeployPoints, d) <= 1

\* Without faults, and when every script ends by itself, every run that was created settles
\* for good, however stop requests, deletions and other runs race with its progress.
WorkSettles ==
    (\A r \in Runs : WF_vars(ChildExits(r))) =>
        \A r \in Runs : run[r].status # "absent" ~> [](run[r].status \in Terminal \cup {"gone"})

\* Another run of the same process is being executed.
IsShared(r) ==
    \E s \in Slots : /\ slot[s].at \in RunPoints /\ slot[s].id # r
                     /\ run[slot[s].id].proc = run[r].proc

\* A stop of a run that is to be issued, of which no copy is at work yet.
FreshStop(r) == run[r].status = "stopping" /\ Copies("stop", StopPoints, r) = 0

\* Without faults, a stop that the orchestrator has recorded for a child that can be found in
\* the handle table ends that child, even a child that never ends by itself, when the agent
\* has a permit to spare; unless the process is deleted, or another run of it is executed at
\* the same time and drops or replaces the entry of the table.  (A stop that was issued before
\* the child was started drops its handle as well: see StoppedIsNotRunning.)
StopEndsChild ==
    \A r \in Runs, p \in Procs :
        (FreshStop(r) /\ handle[p] = r /\ child[r] = "alive")
            ~> (child[r] # "alive" \/ run[r].status = "gone" \/ IsShared(r))

\* A copy of the run is on its way to its subprocess.
OnItsWay(r) ==
    \/ \E k \in 1..Len(inbox) : inbox[k] = [cmd |-> "run", id |-> r]
    \/ \E s \in Slots : slot[s].id = r /\ slot[s].at \in {"running", "build"}

\* How far a run has got, whatever its row says once it has been polled.
Life(r) ==
    CASE child[r] = "alive" -> "executing"
      [] child[r] = "ok" -> "succeeded"
      [] child[r] \in {"bad", "killed"} -> "over"
      [] child[r] = "none" /\ run[r].status \in {"absent", "pending"} -> run[r].status
      [] child[r] = "none" /\ run[r].status \notin {"absent", "pending"} ->
            IF OnItsWay(r) THEN "issued" ELSE "over"

Ledger == INSTANCE RunLedger WITH life <- [r \in Runs |-> Life(r)],
                                  told <- {r \in Runs : run[r].status = "completed"}

\* The rows, the agent and its machine together keep a ledger of runs: a run that was deleted
\* before a poll, whose poll got lost or whose task died is never executed later, and none is
\* executed but after a poll and before the end of its life.
ImplementsRunLedger == Ledger!Spec

-----------------------------------------------------------------------------
(* What the documentation says and the code does not keep *)

\* "stop works"
StoppedIsNotRunning ==
    \A r \in Runs : run[r].status = "stopped" => child[r] # "alive"
=============================================================================
