-------------------------------- MODULE Logs --------------------------------
(***************************************************************************)
(* The output of one run on its way to the database and to the open pages: *)
(*   - the agent's LogStreamer (streamer.py): one reader task per stream,  *)
(*     one buffer for both, batches that are pushed with POST .../logs;    *)
(*   - the handler of that request (routes/agents.py): one transaction,    *)
(*     then one broadcast per line;                                        *)
(*   - the WebSocket handlers (main.py) and the list of the subscribers of *)
(*     the process (websocket.py).                                         *)
(*                                                                         *)
(* A step is the code between two awaits.  The lock of the list is never   *)
(* held across one, so a section under it is a step.                       *)
(***************************************************************************)
EXTENDS Integers, Sequences, FiniteSets, SequencesExt

CONSTANTS
    Sources,      \* "stdout" and "stderr"
    LinesOf,      \* how many lines each stream yields at most
    BatchSize,    \* _BATCH_SIZE
    MaxJoins,     \* WebSocket connections to the channel of the process, in their order
    Limit,        \* MAX_CONNECTIONS_PER_CHANNEL
    MaxFaults,    \* bound on failing pushes, breaking streams and subscribers that go away
    Main, None    \* the task that runs stream(); nobody

ASSUME SizesAssumption == {BatchSize, Limit} \subseteq Nat \ {0}
ASSUME BoundsAssumption == LinesOf \in [Sources -> Nat] /\ {MaxJoins, MaxFaults} \subseteq Nat
ASSUME TasksAssumption == Main # None /\ {Main, None} \cap Sources = {}

VARIABLES
    read,    \* how many lines of each stream have been read
    task,    \* where the reader of each stream, and Main, are suspended
    exited,  \* whether the subprocess has exited
    buffer,  \* LogStreamer._buffer
    pushes,  \* pushes under way
    stored,  \* how often each line is in process_logs
    unsent,  \* lines that were stored by a handler that failed before it broadcast any
    lost,    \* lines of pushes that did not reach the database
    list,    \* ConnectionManager._connections[process_id]; their order decides nothing
    ws,      \* where the handler of each subscriber is
    gone,    \* subscribers that have gone away
    due,     \* lines stored since each subscriber has joined that it has not been sent
    faults   \* faults so far

agentVars == <<read, task, buffer, exited>>
databaseVars == <<stored, unsent>>
channelVars == <<list, ws, gone>>
vars == <<agentVars, pushes, databaseVars, lost, channelVars, due, faults>>

-----------------------------------------------------------------------------
Lines == UNION {{s} \X (1..LinesOf[s]) : s \in Sources}
Subscribers == 1..MaxJoins
Tasks == Sources \cup {Main}
LinesRead == {l \in Lines : l[2] <= read[l[1]]}
InDatabase == {l \in Lines : stored[l] > 0}

\* by: the task that awaits the reply, None when it has given up.  next: the line to
\* broadcast; targets: who it goes to and has not got it; dead: who could not be sent it.
Push == [by : Tasks \cup {None}, at : {"sent", "stored", "sending"}, lines : Seq(Lines),
         next : Nat, targets : SUBSET Subscribers, dead : SUBSET Subscribers]

TypeOK ==
    /\ read \in [Sources -> Nat]
    /\ task \in [Tasks -> {"reading", "gather", "flushing", "waiting", "ended", "raised"}]
    /\ exited \in BOOLEAN
    /\ buffer \in Seq(Lines)
    /\ pushes \subseteq Push
    /\ stored \in [Lines -> Nat]
    /\ unsent \subseteq Lines
    /\ lost \subseteq Lines
    /\ list \subseteq Subscribers
    /\ ws \in [Subscribers -> {"outside", "joined", "left"}]
    /\ gone \subseteq Subscribers
    /\ due \in [Subscribers -> SUBSET Lines]
    /\ faults \in Nat

Init ==
    /\ read = [s \in Sources |-> 0]
    /\ task = [t \in Tasks |-> IF t = Main THEN "gather" ELSE "reading"]
    /\ exited = FALSE
    /\ buffer = <<>>
    /\ pushes = {}
    /\ stored = [l \in Lines |-> 0]
    /\ unsent = {}
    /\ lost = {}
    /\ list = {}
    /\ ws = [w \in Subscribers |-> "outside"]
    /\ gone = {}
    /\ due = [w \in Subscribers |-> {}]
    /\ faults = 0

Fault == faults < MaxFaults /\ faults' = faults + 1

-----------------------------------------------------------------------------
(* The agent *)

\* Mutant of Flush: the buffer is not cleared before the push is awaited.
FlushKeepsBuffer(t, all) ==
    /\ pushes' = pushes \cup {[by |-> t, at |-> "sent", lines |-> all, next |-> 1,
                               targets |-> {}, dead |-> {}]}
    /\ buffer' = all
    /\ task' = [task EXCEPT ![t] = "flushing"]

\* Between the copy of the buffer and its clearing nothing is awaited.
Flush(t, all) ==
    /\ pushes' = pushes \cup {[by |-> t, at |-> "sent", lines |-> all, next |-> 1,
                               targets |-> {}, dead |-> {}]}
    /\ buffer' = <<>>
    /\ task' = [task EXCEPT ![t] = "flushing"]

ReadLine(s) ==
    LET all == Append(buffer, <<s, read[s] + 1>>) IN
    /\ task[s] = "reading" /\ read[s] < LinesOf[s]
    /\ read' = [read EXCEPT ![s] = @ + 1]
    /\ IF Len(all) >= BatchSize THEN Flush(s, all)
       ELSE buffer' = all /\ UNCHANGED <<task, pushes>>
    /\ UNCHANGED <<exited, databaseVars, lost, channelVars, due, faults>>

EndOfStream(s) ==
    /\ task[s] = "reading"
    /\ task' = [task EXCEPT ![s] = "ended"]
    /\ UNCHANGED <<read, buffer, exited, pushes, databaseVars, lost, channelVars, due, faults>>

\* readline() raises on an overlong line.  gather() raises it at once; the other reader goes on.
StreamBreaks(s) ==
    /\ Fault
    /\ task[s] = "reading"
    /\ task' = [task EXCEPT ![s] = "raised", ![Main] = IF @ = "gather" THEN "raised" ELSE @]
    /\ UNCHANGED <<read, buffer, exited, pushes, databaseVars, lost, channelVars, due>>

\* Mutant of Gathered: the first stream that ends is enough.
GatheredAny == \E s \in Sources : task[s] = "ended"

Gathered == \A s \in Sources : task[s] = "ended"

FinalFlush ==
    /\ task[Main] = "gather" /\ Gathered
    /\ IF buffer # <<>> THEN Flush(Main, buffer)
       ELSE task' = [task EXCEPT ![Main] = "waiting"] /\ UNCHANGED <<buffer, pushes>>
    /\ UNCHANGED <<read, exited, databaseVars, lost, channelVars, due, faults>>

\* Mutant of Resume: the task is never resumed.
ResumeNever(t) == UNCHANGED task

\* The push returns or raises: it is all the same to the task that awaits it.
Resume(t) ==
    task' = IF t = None THEN task
            ELSE [task EXCEPT ![t] = IF t = Main THEN "waiting" ELSE "reading"]

\* The script may end before its output is read (what it has started may hold the streams
\* open), or close its output and go on.
ProcessExits ==
    /\ ~exited
    /\ exited' = TRUE
    /\ UNCHANGED <<read, task, buffer, pushes, databaseVars, lost, channelVars, due, faults>>

\* process.wait(): stream() returns.
WaitReturns ==
    /\ task[Main] = "waiting" /\ exited
    /\ task' = [task EXCEPT ![Main] = "ended"]
    /\ UNCHANGED <<read, buffer, exited, pushes, databaseVars, lost, channelVars, due, faults>>

\* Mutant of GiveUp: the batch is put back into the buffer, as one entry.
GiveUpPutsBack(p) ==
    /\ Fault
    /\ p.by # None
    /\ buffer' = Append(buffer, p.lines)
    /\ pushes' = (pushes \ {p}) \cup {[p EXCEPT !.by = None]}
    /\ Resume(p.by)
    /\ UNCHANGED <<read, exited, databaseVars, lost, channelVars, due>>

\* No reply in time: the batch is dropped.  The orchestrator goes on with it.
GiveUp(p) ==
    /\ Fault
    /\ p.by # None
    /\ pushes' = (pushes \ {p}) \cup {[p EXCEPT !.by = None]}
    /\ Resume(p.by)
    /\ UNCHANGED <<read, buffer, exited, databaseVars, lost, channelVars, due>>

-----------------------------------------------------------------------------
(* The orchestrator: POST /agents/{id}/logs *)

Becomes(p, q) == pushes' = (pushes \ {p}) \cup {q}

Store(p) ==
    /\ p.at = "sent"
    /\ stored' = [l \in Lines |-> stored[l] + (IF Contains(p.lines, l) THEN 1 ELSE 0)]
    /\ due' = [w \in Subscribers |->
                 IF ws[w] = "joined" /\ w \notin gone THEN due[w] \cup ToSet(p.lines) ELSE {}]
    /\ Becomes(p, [p EXCEPT !.at = "stored"])
    /\ UNCHANGED <<agentVars, unsent, lost, channelVars, faults>>

\* The rows are read again, one by one, before the first line is broadcast.  When that raises
\* (the run was deleted, the connection is lost) the lines are stored, nobody is sent one, and
\* the answer is an error status.
RefreshFails(p) ==
    /\ Fault
    /\ p.at = "stored" /\ p.next = 1
    /\ unsent' = unsent \cup ToSet(p.lines)
    /\ pushes' = pushes \ {p}
    /\ Resume(p.by)
    /\ UNCHANGED <<read, buffer, exited, stored, lost, channelVars, due>>

\* An error status, for whatever reason; or the request never arrives.
Refuse(p) ==
    /\ p.at = "sent"
    /\ p.by # None => Fault
    /\ p.by = None => UNCHANGED faults
    /\ lost' = lost \cup ToSet(p.lines)
    /\ pushes' = pushes \ {p}
    /\ Resume(p.by)
    /\ UNCHANGED <<read, buffer, exited, databaseVars, channelVars, due>>

\* The subscribers of the moment, copied under the lock.
Snapshot(p) ==
    /\ p.at = "stored" /\ p.next <= Len(p.lines)
    /\ Becomes(p, [p EXCEPT !.at = "sending", !.targets = list])
    /\ UNCHANGED <<agentVars, databaseVars, lost, channelVars, due, faults>>

\* Mutant of Sent: the first subscriber that has gone away ends the broadcast.
SentUntilDead(p, w) ==
    IF w \in gone THEN [p EXCEPT !.targets = {}, !.dead = @ \cup {w}]
                  ELSE [p EXCEPT !.targets = @ \ {w}]

Sent(p, w) == [p EXCEPT !.targets = @ \ {w}, !.dead = @ \cup ({w} \cap gone)]

Send(p) ==
    /\ p.at = "sending"
    /\ \E w \in p.targets :
         /\ Becomes(p, Sent(p, w))
         /\ due' = IF w \in gone THEN due ELSE [due EXCEPT ![w] = @ \ {p.lines[p.next]}]
    /\ UNCHANGED <<agentVars, databaseVars, lost, channelVars, faults>>

\* Those who could not be sent the line are removed from the list.
Broadcasted(p) ==
    /\ p.at = "sending" /\ p.targets = {}
    /\ Becomes(p, [p EXCEPT !.at = "stored", !.next = @ + 1, !.dead = {}])
    /\ list' = list \ p.dead
    /\ UNCHANGED <<agentVars, databaseVars, lost, ws, gone, due, faults>>

Reply(p) ==
    /\ p.at = "stored" /\ p.next > Len(p.lines)
    /\ pushes' = pushes \ {p}
    /\ Resume(p.by)
    /\ UNCHANGED <<read, buffer, exited, databaseVars, lost, channelVars, due, faults>>

Handle(p) == Store(p) \/ Snapshot(p) \/ Send(p) \/ Broadcasted(p) \/ Reply(p)

-----------------------------------------------------------------------------
(* The orchestrator: WS /ws/processes/{process_id} *)

\* ConnectionManager.connect.  A connection that breaks while accept() is awaited is never
\* in the list.
Join(w) ==
    /\ ws[w] = "outside"
    /\ \A v \in 1..w-1 : ws[v] # "outside"
    /\ IF Cardinality(list) >= Limit
       THEN ws' = [ws EXCEPT ![w] = "left"] /\ UNCHANGED list
       ELSE ws' = [ws EXCEPT ![w] = "joined"] /\ list' = list \cup {w}
    /\ UNCHANGED <<agentVars, pushes, databaseVars, lost, gone, due, faults>>

\* The page is closed, or its connection is lost.
GoAway(w) ==
    /\ Fault
    /\ ws[w] = "joined" /\ w \notin gone
    /\ gone' = gone \cup {w}
    /\ due' = [due EXCEPT ![w] = {}]
    /\ UNCHANGED <<agentVars, pushes, databaseVars, lost, list, ws>>

\* Mutant of Leave: nothing is removed when receive_text() raises.
LeaveSilently(w) ==
    /\ ws[w] = "joined" /\ w \in gone
    /\ ws' = [ws EXCEPT ![w] = "left"]
    /\ UNCHANGED <<agentVars, pushes, databaseVars, lost, list, gone, due, faults>>

\* receive_text() raises; the finally clause removes the entry, if it is still there.
Leave(w) ==
    /\ ws[w] = "joined" /\ w \in gone
    /\ ws' = [ws EXCEPT ![w] = "left"]
    /\ list' = list \ {w}
    /\ UNCHANGED <<agentVars, pushes, databaseVars, lost, gone, due, faults>>

-----------------------------------------------------------------------------
Next ==
    \/ \E s \in Sources : ReadLine(s) \/ EndOfStream(s) \/ StreamBreaks(s)
    \/ FinalFlush \/ ProcessExits \/ WaitReturns
    \/ \E p \in pushes : Handle(p) \/ RefreshFails(p) \/ Refuse(p) \/ GiveUp(p)
    \/ \E w \in Subscribers : Join(w) \/ GoAway(w) \/ Leave(w)

Spec == Init /\ [][Next]_vars

\* The event loops of both programs keep running: tasks that can be resumed are, requests are
\* handled to their end, and a subscriber that does not read is cut off in the end.
FairSpec ==
    /\ Spec
    /\ WF_vars(FinalFlush) /\ WF_vars(WaitReturns)
    /\ \A t \in Tasks : WF_vars(\E p \in pushes : p.by = t /\ Handle(p))
    /\ \A w \in Subscribers : WF_vars(Leave(w))

-----------------------------------------------------------------------------
(* Properties *)

Times(l) ==
    Cardinality({i \in 1..Len(buffer) : buffer[i] = l})
  + Cardinality({p \in pushes : p.at = "sent" /\ Contains(p.lines, l)})
  + stored[l] + (IF l \in lost THEN 1 ELSE 0)

\* Two readers that append to one buffer and flush it while the other goes on, pushes that are
\* given up and still arrive: a line that has been read is in one place, and never twice.
EveryLineOnce == \A l \in LinesRead : Times(l) = 1

\* The final status of the run is reported after its output: when stream() returns, nothing is
\* left in the buffer and no push is awaited, so what is not stored was lost on the way.
OutputComesFirst ==
    task[Main] = "ended" =>
        /\ \A p \in pushes : p.by = None
        /\ LinesRead \subseteq InDatabase \cup lost \cup UNION {ToSet(p.lines) : p \in pushes}

\* A subscriber that stays gets every line that is stored after it joined, whoever else
\* comes, leaves or dies during a broadcast - unless the handler failed between its commit and
\* its first broadcast: nothing makes up for those lines.
NothingIsMissed ==
    \A w \in Subscribers : \A l \in due[w] :
        l \in unsent \/ \E p \in pushes : \E k \in p.next..Len(p.lines) : p.lines[k] = l

\* Once nobody comes or goes any more, nobody who has gone is left in the list: its places are
\* not used up by ghosts.
NoGhosts == <>[](list \cap gone = {})

\* When both streams have ended and the process has exited, stream() returns: the end of the
\* run does not hang on its subscribers, or on pushes that fail.
StreamingEnds == Gathered /\ exited ~> task[Main] \in {"ended", "raised"}
=============================================================================
