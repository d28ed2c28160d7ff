# smithy-cloud in TLA+

A model of the orchestrator (`src/src/smithy_cloud`), of the agent that executes its
commands (`src/agent`), and of the contract between the two: TLA+ modules, TLC
configurations that check them on small instances, and TLAPS proofs for every size.

## The system

smithy-cloud runs Python scripts ("processes") on Windows servers.  A FastAPI
**orchestrator** keeps everything in PostgreSQL and changes it in short, independent HTTP
requests, each one READ COMMITTED transaction.  An **agent** per server polls the
orchestrator, executes what it is told in asyncio tasks, and reports back.  Scripts talk to
the orchestrator's **work queues** themselves.  Users reach the orchestrator through a web
frontend and a command-line client.

| Component | State | Operations | What makes it correct |
| --- | --- | --- | --- |
| Work queues (`routes/queues.py`) | `queues`, `queue_items`: status, owner run, lease, attempts | create, delete, add items, claim (sweeps lapsed leases, then takes one), heartbeat, complete | an item has one live holder; a lease is respected while it stands; no item is stranded; the retry budget is spent before an item fails |
| Queue intake (`create_queue`, `add_queue_items`) | unique names and idempotency keys | insert, or return the row that exists | a key never makes two rows; a batch commits as a whole; a batch that is repeated gets through |
| Dispatch (`routes/processes.py`, `routes/agents.py`) | status of `process_runs` and `process_deployments` | run, deploy, stop, delete, poll, status, ack | work is issued once; status reports tell the truth; runs settle; a stop stops |
| Agent execution (`agent/main.py`, `executor.py`, `client.py`) | tasks, a semaphore, a table of subprocess handles, subprocesses | deploy, run, stop, report | a permit and a handle are always given back; a stop finds the child it is meant for |
| Live logs (`agent/streamer.py`, log endpoints, `websocket.py`) | the agent's line buffer, `process_logs`, subscribers per channel | read, push, store, broadcast, connect, disconnect | a line is stored once at most; the output comes before the end; a subscriber that stays gets every line the server could send; places are given back |
| Triggers (`routes/triggers.py`, `scheduling.py`) | `triggers`: next time, enabled, fired | create, update, delete, fire what is due, reschedule | no occurrence is lost or doubled; the next time is the next one |
| Assets (`routes/assets.py`) | name, value, immutable | create, update, delete | an immutable asset does not change |
| Users and sessions (`routes/auth.py`, `frontend/src/lib/api.ts`, `cli/.../client.py`) | users, refresh tokens, the tokens that browsers and the credentials file keep | register, login, refresh, logout | somebody is admin; a session in use is not ended by its own clients; an ended one is dropped |
| Agent registry (`routes/agents.py`) | `agents`: secret, status, last heartbeat | register, remove, heartbeat, authenticate | not modelled, see below |
| Process directories (`agent/executor.py`) | files and virtual environment per process | deploy | not modelled, see below |
| Local backend, read-only queries, frontend pages, commands of the CLI, migrations | none that others share | | not modelled |

They interact through the rows: `run`, `deploy`, `stop` and the trigger poller write rows
that a poll turns into commands; the agent's reports overwrite the same rows; queue items
point at runs, which vanish when a process or an agent is deleted (`ON DELETE SET NULL`).

What is hard: handlers that load a row without a lock and write it back later; reports that
overwrite a status whatever it has become; responses that get lost after a commit; tasks of
the agent that interleave at every `await`; one handle per *process* where there may be
several runs; one semaphore for runs and for the stops that are to end them; two readers on
one buffer; a list of subscribers that changes while a line is sent to it; a refresh token
that several tabs present; agents and scripts that die without a word.

## Modules

| Module | Models | Proofs |
| --- | --- | --- |
| `WorkQueue` | one queue: its rows, the requests in flight, the clock | `WorkQueueProofs` |
| `WorkLedger` | what a queue promises to those who work on its items: the abstract specification that `WorkQueue` implements | `WorkQueueRefinement` |
| `RunDispatch` | runs and deployments from the orchestrator to one agent and back | `RunDispatchProofs` |
| `RunLedger` | what the dispatch of runs promises: the abstract specification that `RunDispatch` implements | `RunDispatchProofs` |
| `Scheduling` | the calendar arithmetic: when a trigger runs first, and next | `SchedulingProofs` |
| `Triggers` | the rows of `triggers`, the users who change them and the pollers that fire them | `TriggersProofs` |
| `Sessions` | refresh tokens, the handlers that rotate and revoke them, and two kinds of clients that share where they keep them | `SessionsProofs` |
| `NamedRows` | the tables with a unique name: users by e-mail, assets by name, items of a queue by idempotency key | `NamedRowsProofs` |
| `Logs` | the output of a run: agent buffer, pushes, database, subscribers of the process channel | `LogsProofs` |

`MCWorkQueue`, `MCRunDispatch`, `MCTriggers`, `MCSessions`, `MCNamedRows` and `MCLogs` are the
instances for TLC.  `Triggers` extends `Scheduling`; `WorkQueue` instantiates `WorkLedger`
and `RunDispatch` `RunLedger`.
The components meet in rows, and each module has the other side as an action of its
environment: a deleted run (`DeleteRun`) in `WorkQueue`, the commit of a batch (`AddItems`)
in `WorkQueue` and its statements in `NamedRows`, a run created by a trigger among the
`RunProcess` of `RunDispatch`, a registration in `NamedRows` and the session it begins (a
`Login`) in `Sessions`, the end of a child in `RunDispatch` and the end of its two streams in
`Logs`.

### WorkQueue

`item` holds the rows of `queue_items` in the order of `(created_at, id)`; `"absent"` rows
are not inserted yet, `"gone"` rows went with their queue.  `runs` are the rows of
`process_runs` that exist.  `req[h]` is what the request served by handler `h` remembers
between its steps.

* `ClaimBegin` is the part of `claim_queue_item` before its first write: the queue and the
  run exist, the clock is read.  `ClaimItem` and `ClaimNothing` are its transaction: the
  sweep (`Expired`, `Requeued`, `Swept`), the selection (`Candidates`), the update
  (`Claimed`), the commit.  One step is enough for the transaction, because it holds the
  locks of all rows it writes until it commits; what it read before (the clock, the
  existence of the run) may be stale by then, and the foreign key is checked again by the
  update.  `SKIP LOCKED` may pass over any row that another open transaction may have written
  (`MayBeLocked` is generous about that).
* `HeartbeatRead`/`HeartbeatCommit` and `CompleteRead`/`CompleteCommit` are two steps each:
  these handlers load the item without a lock, decide, and write *the changed columns* by
  primary key.  Any other commit may come in between; the write then lands on whatever the
  row has become.
* `Rollback` ends a request at any point: an error response, a lost connection, a crash of
  the orchestrator.  `DeleteRun` is the cascade of deleting a process or an agent.
* `AddItems` is the commit of `add_queue_items` as workers see it.
* Claimers are scripts; the agent has no queue client.  Nothing is assumed of them.

`WorkLedger` knows neither requests nor clocks: an item is absent, available, held, done or
gone, and counts how often it was handed out.  A taker gets an item that is free; items may be
taken back at any moment; whoever had an item once may settle it, even again.  The last clause
is as strong as the code allows, because a late completion overwrites what others have made
of the item meanwhile.  `ImplementsLedger` maps a row to the stage of its status (`Stage`) and
`attempts` to the count: it says that nothing *else* can happen to an item, whichever requests
overlap: no claim takes a held item without first taking it back, every hand-out counts, and
no completion moves an item that nobody ever had.

### RunDispatch

`run` and `dep` are the status columns, with the process of each row; `stopping` is the run
that `stop_process` has selected and not yet written.  `inbox` are the tasks of
`execute_command` that wait for the semaphore, `slot` the tasks that hold a permit and the
`await` at which each is suspended, `handle` the table `ProcessExecutor._processes`, `child`
the operating system's view of each run's subprocess, `net` the reports that are sent and not
yet handled.

* `Poll` is the whole of `agent_poll` with the tasks that `run_agent` makes of its answer;
  `PollLost` is the same commit when the answer never arrives.
* `StopSelect`/`StopCommit` split `stop_process` where a report may come in between.  The
  handlers of status and ack overwrite the row whatever it is, so the order of their writes
  is all that matters and each is one step (`Apply`).
* `StartDeploy`, `StartRun`, `StartStop`, `Prepare`, `Spawn`, `BuildFails`, `StreamEnds`,
  `StreamBreaks`, `Kill`, `StopReturns` are the code of `execute_command` between two awaits.
* A report is `Answered`; `Refused` (an error status, which `_post` only logs); or the agent
  `GivesUp` (timeout or lost connection, which raises into the except clause) and the report
  `ArrivesLate` or `NeverArrives`.
* `Crash` ends the agent process.  Its subprocesses live on; it starts again with empty
  tables.  `ChildExits` is the script ending by itself.

Left out of it: `_run_to_process` (its value for a run is always the process of the run's
own command), timestamps, error texts, log lines and broadcasts (no status depends on them),
the heartbeat loop, more than one agent (rows of different agents share nothing), and the
removal of agents.  Two equal late reports on the way at once are one element of `net`.

`RunLedger` knows neither rows nor commands, tasks, reports or stops: a run is absent, pending,
issued, executing, succeeded or over, in this order and never back, and some runs are said to
have succeeded.  What is pending or issued may be given up at any moment and is then never
started; what is said of a success is true, and may be withdrawn.  `ImplementsRunLedger` maps
a run to its child once it has one; before, to `issued` if a copy of its command is queued or
its task has not got as far as the spawn (`OnItsWay`), to `pending` if its row is, and else to
`over` (`Life`).  So it is a property of the three together, and says what no status says: a
run that is deleted before a poll, whose poll is lost, or whose task dies with the agent is
never executed later, by whatever poll or repeated command, and a run whose row reads
`stopping` or `failed` is executed only by the task of its one issue.

### Scheduling and Triggers

`Scheduling` has no state.  Instants are integers in UTC; a local day has `DayLen` of them, a
minute `MinuteLen` (so an instant may have seconds, which wall times lose), and the zone
changes its offset at most once, by the rules of `datetime(..., tzinfo=zone)` with `fold=0`.
`FirstRun` and `NextRun` are `first_run` and `next_run`, with one operator per helper.
`Unreachable`, a constant that is no instant, is the `AssertionError` at the end of the weekly
scan: a `Create` or a `PollCommit` that met it would fail.  `Occurrences` says independently
what a schedule means; the properties compare the two.

`trig` holds the rows that exist, `runs` counts the runs the poller has made for each id,
`poll[p]` is the clock a poller has read and the rows it has loaded and locked, `edit[e]` the
columns a PATCH is about to write.

* `PollBegin` is the `SELECT ... FOR UPDATE SKIP LOCKED` (rows another poller has locked are
  passed over, rows a PATCH is about to write may be), `PollCommit` the loop over them with
  `_reschedule` (`Rescheduled`) and the commit, `PollAbort` an exception or a crash.
* `EditRead` is `update_trigger` up to its commit: the row is loaded without a lock, the 400
  is decided, and the columns that differ from the loaded row are remembered.  `EditCommit`
  writes exactly those, once no poller holds the row; `EditFails` if it is gone, or for any
  other reason.  A PATCH sets `run_at` as given, on any day: only `create_trigger` normalises.
* `Delete` is `delete_trigger`, or the cascade from a process or an agent.  `Tick` lets the
  clock jump, so polls may be late by many occurrences.

Python's calendar ends with the year 9999, the model's does not: a `run_at` close to that end
could raise in every poll, and `DueTriggersFire` says nothing of such a row.  The order in which due rows are fired is left out (it shows nowhere but in `created_at`), and
so is what becomes of the runs: they enter `RunDispatch` as any pending run does.

### Sessions

`tok` are the rows of `refresh_tokens`, `store` the token in the browser's localStorage and
the one in the credentials file, `memory` the copy that an invocation of the command-line
client loaded when it was made (`OrchestratorClient.__init__`), `open` the tabs that show their
pages (the others show the login page), `req` the request of each client.  `kind` says which clients are tabs and which are invocations; `Init` has them all.

* `Login`, `Refresh` and `Logout` send; a tab reads its token when it needs it, a command
  presents its copy.  `Receive` is what a client does with the answer (`setTokens`,
  `clearTokens`, `_store_tokens`) and with its user (`Shown`); `GiveUp` what it does without an
  answer.  A login may come on top of tokens that are stored.  `LogoutLocally` is the logout of a
  client that holds no token: it clears the store all the same.
* `Reload` is a page that loads (`AuthProvider`).  If localStorage has an access token it asks
  for its user, and shows its pages if it gets one.  Access tokens are not modelled, so either
  may be the outcome; in neither are the stored tokens touched.
* `RefreshDecide`/`RefreshCommit` split `refresh` between the unlocked read and the write:
  two refreshes with one token may both pass.  `ReuseCommit` is the other branch, which
  revokes everything the user has.  `LoginCommit` and `LogoutCommit` are one step, because
  what they read never changes under them.
* `Load` is a new invocation.  `Expire` is the end of a token's seven days, `ServerError` a
  rollback.
* A token that nobody holds and no reply carries can never be presented again.  `Forget`
  drops such rows from the model, and their numbers stand for new tokens; that is what keeps
  the model finite under fairness without a bound on the length of a session.

### NamedRows

A behaviour is about one of three tables that do not refer to each other: what they have in
common is that a handler *looks* for a name and then *writes* under a unique constraint.

* `Register`/`Insert`: the count of users decides the role before the row is inserted.
* `CreateAsset`/`Insert`, `UpdateAsset`/`DeleteAsset`/`Change`: the row as it was loaded
  decides; what is written is the columns that differ from it, by primary key (`id` tells a
  row from a later one with the same name).
* A batch of items is a step per statement: `AddLook` (the SELECT for a key), `AddInsert`
  (its INSERT, which waits for another transaction that has inserted the same key),
  `AddCommit`.  `AddLost` is the insert that fails, `AddDeadlock` the database ending one of
  two batches that wait for each other, `DeleteQueue` the cascade.
* Items without a key cannot collide and are left out.

### Logs

`read`, `task` and `buffer` are the agent's `LogStreamer`: a reader per stream, and `Main`,
which waits for both and flushes what is left.  `pushes` are the requests under way with the
broadcast each handler is in, `stored` and `lost` what became of each line, `list` is the
`ConnectionManager`'s list of the process channel (a set: the order in which a broadcast
serves the subscribers decides nothing, and it is left open), `ws` the handler of each subscriber,
`gone` the subscribers that have left without a word, `exited` whether the child has exited.
`due` and `unsent` are observers: the lines that were stored since a subscriber joined and that
it has not been sent, and the lines of handlers that failed after they had stored them.

* `ReadLine` appends and, when the batch is full, copies and clears the buffer and begins the
  push: nothing is awaited in between.  `StreamBreaks` is an overlong line; `gather` raises at
  once and the other reader goes on.
* `FinalFlush` follows the end of both streams, and `WaitReturns` (`process.wait()`) the exit of
  the child, which may come earlier or later than that (`ProcessExits`).
* `Store` is the transaction of `agent_push_logs`; `Snapshot`, `Send`, `Broadcasted` are
  `broadcast` for each line, between its awaits.  `Refuse` is an error status or a request that
  never arrives, `GiveUp` the agent's timeout, after which the handler goes on.  `RefreshFails` is
  a `db.refresh` that raises between the commit and the first broadcast: the lines stay stored,
  no subscriber is sent them, and the agent takes the push for a failed one.
* `Join` is `connect` with its limit, `Leave` the `finally` clause of the WebSocket handler.

Left out: the run channel, which pushes of an agent do not feed; `internal.py`, which stores
and broadcasts single lines for the local backend.

## Runs

Every run checks every reachable state of its instance.

| Run | Instance | Shows |
| --- | --- | --- |
| `WorkQueue_one_item` | 2 runs, 2 requests at a time, 1 item, 2 attempts, clock to 3 | `TypeOK`, `InProgressHasLease`, `SystemFailedIsExhausted`, `OwnersExist`, `LeaseIsRespected`, `StrandedItemsComeBack`, and the refinement `ImplementsLedger` |
| `WorkQueue_terminal` | finds a violation | `SuccessIsTerminal` does not hold |
| `RunDispatch_runs` | 2 runs and 1 deployment of a process that may be deleted, 2 permits, 1 stop request, 1 fault | `TypeOK`, `CompletedMeansExitZero`, `ExecutedAtMostOnce`, `HandleHasTask`, `WorkIsIssuedOnce`, `ImplementsRunLedger` |
| `RunDispatch_liveness` | 2 runs of a process that may be deleted, 3 permits, 1 stop request, no fault | `WorkSettles`, `StopEndsChild` |
| `RunDispatch_stopped` | finds a violation | `StoppedIsNotRunning` does not hold |
| `Triggers_poll` | 2 triggers of 4 schedules, 2 fair pollers, 1 update, 1 failed poll, a clock that jumps past the start of summer time | `TypeOK`, `OneShotFiresOnce`, `FiresOnlyWhenDue`, `RescheduledToNext`, `CreatedAtFirst`, `DueTriggersFire` |
| `Triggers_skipped` | finds a violation | `RecurringNeverSkipped` does not hold |
| `Sessions_clients` | 1 user, 2 clients (two tabs, two commands, or one of each), 6 tokens, 1 mishap | `TypeOK`, `RotatedTokenIsReplaced`, `EndedSessionsAreDropped`, no deadlock |
| `Sessions_stale` | finds a violation | `StaleTokensAreCleared` does not hold |
| `NamedRows_clients` | 2 clients, 2 names, 2 values, 4 batches (one empty), 1 lost transaction | `TypeOK`, `SomeoneIsAdmin`, `LockIsForGood`, `SealedForGood`, `BatchesAreAtomic`, `BatchesGetThrough` |
| `NamedRows_duplicates` | finds a violation | `DuplicatesAreReturned` does not hold |
| `Logs_channel` | 2 streams of 2 lines, batches of 2, 3 subscribers for 2 places, 2 faults | `TypeOK`, `EveryLineOnce`, `OutputComesFirst`, `NothingIsMissed`, `NoGhosts`, `StreamingEnds` |

**Bounds.**

* `WorkQueue`: `MaxTime` is two ticks past the shortest lease, so leases lapse, are extended,
  and lapse again.  Two requests at a time are what a lost update needs; two attempts let an
  item fail, come back and fail for good.  Items meet only in `SKIP LOCKED` and in the sweep
  of several rows; for more than one item, the safety properties and the refinement are
  proved.
* `RunDispatch`: two runs of one process are what sharing a handle needs; the deployment and
  the deletion race with both.  `MaxFaults` counts lost responses, refused reports, agents
  that give up, broken streams, crashes and lost stop requests together; for more of
  everything the safety properties are proved.  `MaxBacklog` bounds the queue at the
  semaphore; in the run with fairness it is large enough for everything that can be due at
  once, so it never keeps the agent from polling for ever.
* `Triggers`: two triggers are what one transaction over several rows needs, two pollers what
  a row lock needs, and one update races with both; more updates, weekly triggers of several
  days and other zones are left to the proofs.  A day of six instants
  with minutes of two tells apart every order of wall times and seconds, and the last instant
  of the clock lies more than a week after the first occurrence.
* `Sessions`: two clients are what a race for one token needs; six tokens are as many as two
  clients and two stores can know of at a time, so a login is never refused for want of one.
  One mishap decides between what holds without any and what holds with them.
* `NamedRows`: two names are what opposite orders need, two clients what a wait needs; the
  third batch repeats a key.  `MaxRows` lets an asset be deleted and made again under its name
  while an old request still wants to write.
* `Logs`: with batches of two, two lines of each stream give a batch of both streams, a flush
  while the other reader appends, and a remainder.  A third subscriber finds the list full
  unless somebody has left.

Symmetry, of the processes, is used in `RunDispatch_runs` only: it has no liveness property.
Deadlock is checked in `Sessions_clients`, where a client can
always do something; the other instances end, in a deleted queue, a set of settled runs with
no request left, or output that is delivered.

**Fairness.**  `WorkQueue!FairSpec` assumes that the clock advances and nothing else;
`StrandedItemsComeBack` states its own hypothesis, that claims keep being served, because
nothing but a claim ever looks for lapsed leases.  `RunDispatch!LiveSpec` assumes what the
two event loops give: the agent polls again and again (`run_agent` catches every exception of
a cycle), a task that can go on does, a request that was sent is answered, a stop request
that was begun commits.  `Triggers!FairSpec` assumes that every
poller keeps polling (`_trigger_poller` catches every exception of an iteration) and that a
transaction ends; the number of updates is finite, because a poller may skip a row as long as
an update is about to write it.  `Sessions!FairSpec` assumes that requests are handled and
answered, that a tab that shows its pages goes on sending requests (the pages of runs, triggers
and logs poll every few seconds, `RunsPage.tsx:86`; on the others it is the user who does), and
that the command-line client is called again; strongly, because the other clients may change
what a client would present.  It assumes nothing of a tab at the login page, where nothing polls,
nor that a tab leaves it, so `EndedSessionsAreDropped` speaks of localStorage only as long as
some tab shows its pages.  `NamedRows!FairSpec`
assumes that a statement that can be executed is executed, and that an INSERT that waits is
woken when the transaction it waits for ends; `BatchesGetThrough` has the repetition of the
batch as its own hypothesis.  `Logs!FairSpec` assumes the two event loops, and that a send to
a subscriber returns, because one that does not read is cut off in the end.  None of the others
assumes anything of users, and none anything of scripts.  `WorkSettles` takes the end of every
script as a hypothesis, `StreamingEnds` the end of both streams *and* the exit of the child (a
script may close its outputs and go on, and `stream()` waits for it); `StopEndsChild` does not.
`WorkSettles` and `StopEndsChild` are checked without faults: a lost poll response leaves its runs `dispatched` for ever, and a crash of the agent leaves
its runs `running`, because nothing in the code reconciles them.

## What the code does not keep

* **A finished item may come back** (`WorkQueue_terminal`).  Two completions of one item both
  pass the check; the later commit overwrites the status.
* **A stop may come too early** (`RunDispatch_stopped`).  While the run waits for a permit or
  builds its environment there is no handle; the stop is confirmed and the script starts.
* **A recurring trigger fires once** (`Triggers_skipped`).  `fired_at` is set when it fires,
  never reset, and only rows without it are due (`routes/triggers.py:196`, `:211`).
* **A duplicate key may cost the batch** (`NamedRows_duplicates`).  `db.add(item)` leaves the
  row pending, so `begin_nested()` flushes it before the savepoint exists.  When another
  request has committed the key since the SELECT, the error ends the whole transaction, and
  the query for the winner raises (`routes/queues.py:140-152`).

* **Stale tokens stay** (`Sessions_stale`).  A page that loads and gets no user for its tokens
  leaves them in localStorage (`frontend/src/lib/api.ts:63` excludes `/auth/me`), whatever the
  comment at `auth.tsx:43` says; and a session that could still be refreshed is not, so that a
  reload with an expired access token asks for a login.

The models show more that no document speaks of clearly enough to be called a disagreement:

* A report overwrites a status whatever it is (`routes/agents.py:322`): a run that was
  `stopped` becomes `failed` when the report of its own task comes in, and `running` withdraws
  a stop request that came first.  `WorkSettles` holds nevertheless.
* A stale heartbeat extends the lease of the item's next holder (`routes/queues.py:244`).
* The agent's table has one handle per process: of two runs of a process at a time, the older
  child can no longer be stopped (`executor.py:157`, `:188`).  `StopEndsChild` excludes that
  case by name.
* A stop is issued again by every poll until it is confirmed (`routes/agents.py:220`), and
  stops wait for a permit like runs do, so runs that never end can hold them off
  (`agent/main.py:73`).
* An update or a deletion that has loaded an asset before it was locked is still written after
  the lock (`routes/assets.py:79`); hence the hypothesis of `SealedForGood`.
* `update_trigger` checks `fired_at` on a row loaded without a lock: a one-shot that fires
  meanwhile gets a new time and stays behind for ever (`routes/triggers.py:133`).
* Every reschedule takes the wall time of the last `run_at`: an occurrence inside a skipped
  hour shifts all later ones (`routes/triggers.py:161`).
* A refresh with a spent token ends all sessions of its user (`routes/auth.py:89`).  It takes no
  theft: a tab or a command that has lost a reply repeats the refresh with the spent token, and of
  two tabs that refresh at the same time with one token the second may find it spent by the first.
  What `RotatedTokenIsReplaced` says is that, without lost replies, a *rotated* token never stays
  in a store for a later refresh to present; the tokens that are revoked as stolen do.
* A login of one invocation of the command-line client may be deleted by the logout of another
  one that was started before it (`cli/.../client.py:96`).
* Lines of a handler that fails between its commit and its first broadcast (`routes/agents.py:284`)
  are stored and reach no subscriber; `NothingIsMissed` excludes them by name (`unsent`).
* A push that was given up may still be stored after the final status of its run.
* When one stream breaks, `gather` raises and what the other reader still leaves in the buffer
  is never pushed (`agent/streamer.py:41`).
* The handler of a push broadcasts before it replies, so slow subscribers hold up the agent's
  readers, and with them the child (`routes/agents.py:286`).

## Proofs

`WorkQueueProofs` proves, for every set of runs and of handlers, every number of items, every
retry budget, every set of leases and every bound on the clock, the four invariants and the
action property of `WorkQueue_one_item`:

| Theorem | States |
| --- | --- |
| `TypeCorrect` | `Spec => []TypeOK` |
| `NoItemWithoutLease` | `Spec => []InProgressHasLease` |
| `RetriesAreUsedUp` | `Spec => []SystemFailedIsExhausted` |
| `NoDanglingOwner` | `Spec => []OwnersExist` |
| `ClaimsRespectLeases` | `Spec => LeaseIsRespected` |

They rest on the assumptions that `WorkQueue` states of its constants (`NoRun` is not a run;
`max_attempts` and leases are positive, which the request schemas enforce) and on one
inductive invariant, `Inv`.  The three row invariants are not inductive by themselves: a late
heartbeat or completion writes what it decided earlier.  `RequestsOK` says in which direction
its memory can be wrong: the clock it read is past (`at <= now`) and the attempts it loaded
can only have grown (`seen <= attempts`).  From the first it follows that a sweep never takes
a lease that stands; from the second, that a completion that finds the budget spent is right.
The argument is per row: each write keeps `RowOK` of the row it touches (`RequeuedRow`,
`ClaimedRow`, `RelabelledRow`, `DetachedRow`, `SweptRows`), `RowStepInv` lifts that to the
table, and one lemma per group of actions applies it (`BeginInv`, `ClaimInv`, `HeartbeatInv`,
`CompleteInv`, `TableInv`, `NextInv`).

`WorkQueueRefinement` proves `Refinement == Spec => ImplementsLedger` from the same invariant
and `LedgerOK`: an item in progress was claimed (`attempts > 0`), one that is not inserted was
not, and a pending completion has loaded an item that was claimed.  The steps of the queue map
to `Take`, `TakeBack`, `Settle`, `Publish` and `Drop`, and all reads to stuttering; the one
step that maps to two ideas at once is a claim, whose sweep takes items back while it hands
one out.

`RunDispatchProofs` proves, for any number of runs, deployments, processes, permits, stop
requests and faults (late reports and crashes of the agent among them):

| Theorem | States |
| --- | --- |
| `TypeCorrect` | `Spec => []TypeOK` |
| `CompletedIsTrue` | `Spec => []CompletedMeansExitZero` |
| `HandlesHaveTasks` | `Spec => []HandleHasTask` |
| `IssuedOnce` | `Spec => []WorkIsIssuedOnce` |
| `ExecutedOnce` | `Spec => ExecutedAtMostOnce` |
| `RunRefinement` | `Spec => ImplementsRunLedger` |

The invariant relates the rows to the agent.  `Named`: whatever speaks of a run speaks of one
that was created, and so has a process.  `Once(c)`: a run or a deployment has one copy at
most, queued or at a permit, and none as long as its row has not been polled; the
row excludes a second poll, because no write ever makes a polled row pending again.
`Ahead`: as long as the row is not polled, the command is queued, or its task has not got as
far as the spawn, there is no child; with `Once` this makes the spawn the only one.
`Truthful`: a row *and every report under way* that says `completed` speaks of a child that
ended with code 0, and a child that has ended stays as it is; that is why it does not matter
when a report arrives.  `HandlesOK`: a handle is kept under the process of its run, and its run has a
task between the spawn and the end.  A task that ends drops the handle of its *process*, which
is where its own handle is, if there is one; `Once` excludes a second task of the same run.
The proof splits the steps into what happens to rows (`RowStep`), to tasks and reports
(`OtherEffect`, `StartEffect`, `PolledQueue`), to children (`ChildStep`) and to handles
(`HandleStep`).

`RunRefinement` adds two parts to the invariant (`LInv`).  `BlankOK`: a row that does not exist
yet belongs to no process, so a deletion does not make one up.  `AwaitsOK`: a task awaits one
reply at a time, and only at the points of its code where it is suspended for one, so a reply
never ends a task that is still on its way to its child; without it, telling a success could
give up another run in the same step.  A run gets on its way by a poll only (`WayBefore`),
which leaves out no run that is due (`PolledRuns`: an order of a finite set contains all of
it); rows appear one by one and are completed by the report that says so (`RowMoves`).  Creation,
poll, spawn, the end of a child and a report of success map to `Create`, `Issue`, `Start`, `End`
and `Tell`; every other step maps to `Drop`, of no run at all in most cases (`LifeKept`).

`SchedulingProofs` proves about the arithmetic, for every instant, every schedule and every
length of the day:

| Theorem | States |
| --- | --- |
| `NextHourlyIsNext` | the next time of an hourly trigger is an occurrence, at most one interval ahead |
| `NextRunIsNext` | asked after the anchor or an occurrence, `NextRun` answers the next occurrence, with none in between |
| `ScansAlwaysHit` | the two weekly scans of eight days never end in their `AssertionError` |
| `FirstRunIsFirst` | `FirstRun` answers the least occurrence from the requested instant on |

All but the first are for zones with `ShortShift`: the offset changes by less than a day.  Every
change of a zone's rules is that short, except where a zone crosses the date line (Samoa in
2011, Kwajalein in 1993).  The hypothesis is needed: for a change longer than a day TLC finds
instants whose first and next occurrences the arithmetic misses, because a local day is then
skipped or comes twice.  The argument: `At` is monotone in the day (`AtIsMonotone`), yesterday's
wall time is past and that of every later day is not (`YesterdayIsPast`, `TodaysScan`), although
the wall time loses its seconds and may fall into an hour that is skipped or comes twice; so the
first day that a scan accepts is the first there is (`ScanFindsFirst`).  Where a proof would go
by induction it takes the least element of a set of naturals (`LeastNatural`, from the
well-foundedness of their order).

`TriggersProofs` proves, for any triggers, pollers and updates, any zone and any clock:

| Theorem | States |
| --- | --- |
| `OneShotsFireOnce` | `Spec => []OneShotFiresOnce` |
| `NothingFiresEarly` | `Spec => FiresOnlyWhenDue` |

and, for every zone with `ShortShift`:

| Theorem | States |
| --- | --- |
| `TypeCorrect` | `Spec => []TypeOK` |
| `CreationFindsTheFirst` | `Spec => CreatedAtFirst` |
| `ReschedulingFindsTheNext` | `Spec => RescheduledToNext` |
| `NoTriggerHoldsUpTheOthers` | no row that a poller has locked is `Unreachable` when it is rescheduled |

The invariant says that a row that has not fired has made no run, that no two pollers hold one
row, and (`LocksOK`) that what a poller holds is as the poller has read it, is enabled, has not
fired and was due when the poller read the clock; every action of a user keeps it because it
waits for the lock, `Tick` because the clock only advances.  `RescheduledIsNext` is about the
loop of `_reschedule`, which is a recursive function: from the anchor or an occurrence, one turn
leads to the next occurrence, which is either past the poll, and then the one to be found, or an
occurrence again.  A function that fits the recursive definition is given explicitly, so there
is one; and whichever one it is, it takes the anchor to the next occurrence, for the latest
occurrence from which it led elsewhere would lead to a later one that does, too.  `TypeOK` rests
on that lemma as well: a row that has fired keeps a time only because the loop ends with one.

`SessionsProofs` proves, for any number of users, tabs, invocations, tokens and mishaps:

| Theorem | States |
| --- | --- |
| `TypeCorrect` | `Spec => []TypeOK` |
| `RotationReachesStores` | `Spec => []RotatedTokenIsReplaced` |

The invariant adds that a token on its way to a client is known to that reply alone (`Secret`),
that tabs and invocations never know each other's tokens (`Apart`), and that without lost
replies everybody waits for theirs (`Waiting`).  Together they give each rotated token that is
still stored a request that will replace it in *that* store.  Which tabs show their pages decides
what they may send, never what is true of the tokens.

`NamedRowsProofs` proves, for any number of names, clients, batches and lost transactions:

| Theorem | States |
| --- | --- |
| `TypeCorrect` | `Spec => []TypeOK` |
| `AdminExists` | `Spec => []SomeoneIsAdmin` |
| `LocksHold` | `Spec => LockIsForGood` |
| `SealsHold` | `Spec => SealedForGood` |
| `BatchesCommitWhole` | `Spec => BatchesAreAtomic` |

The invariant says what a request can remember: a registration that found users adds a viewer,
one that found none an admin (`InsertOK`); an update that writes the flag sets it, because it
has loaded a mutable row (`ChangeOK`); every key that a batch has passed is committed or
among its own inserts, unless the queue is gone (`AddOK`).

`LogsProofs` proves, for any number of streams, lines, subscribers and faults and any sizes of
batches and of the list:

| Theorem | States |
| --- | --- |
| `TypeCorrect` | `Spec => []TypeOK` |
| `LinesAreSingle` | `Spec => []EveryLineOnce` |
| `OutputBeforeEnd` | `Spec => []OutputComesFirst` |
| `SubscribersMissNothing` | `Spec => []NothingIsMissed` |

The invariant has a part for each.  `Single(l)` says of every line that it is in one place
once it is read and in none before, with the places told apart; counting comes at the end.
`WaitsOK`: a task awaits one push at most, and `stream()` is past `gather` only when both
readers have ended and the buffer is empty.  `DueOK`: a subscriber that is owed a line whose
handler has not failed is in the list (so the next snapshot has it) or among the targets of the current broadcast, and only
those who have gone are ever taken off the list by others.

Every safety invariant and every action property that a passing run checks is proved, and so are
the two refinements.  Only model-checked is liveness, because fairness and `ENABLED` are beyond the
prover: `StrandedItemsComeBack`, `WorkSettles`, `StopEndsChild`, `DueTriggersFire`,
`EndedSessionsAreDropped`, `BatchesGetThrough`, `NoGhosts` and `StreamingEnds`.  No module uses
a recursive operator; the one recursive function is the loop of `_reschedule`.

## Not modelled

* **Agent registry.**  Registering again replaces the secret, a heartbeat replaces a time,
  removal deletes the row; the last writer wins, and no decision reads what they race for.
  Their effect on others (deleted runs, an agent that is refused) is in `WorkQueue` and
  `RunDispatch` as an action of the environment.
* **Process directories.**  Deployments and runs of one process share its files; two
  deployments at a time overlap (`agent/executor.py:74`).  What that leaves behind is decided by
  the file system and by pip.  `RunDispatch` lets every preparation succeed or fail.
* **Local backend, read-only queries, migrations, the pages and the commands** keep no state
  that others read concurrently.  The run channel is fed by the local backend alone.
* **The database pool.**  A WebSocket handler that checks a token keeps its session for as
  long as the page is open (`main.py:157`), so fifteen pages can use up the pool.  Waiting
  for a connection is the library's, and the other modules take a transaction that cannot
  begin for one that begins later.
* bcrypt, JWTs, archives, texts and timestamps that decide nothing.

## Plan

Modelled first was what loses or repeats work, then what ends a session or a lock, then the
log channel.  Next, in this order:

1. The agent registry with several agents: a poll under a secret that was replaced.
2. The database pool as a resource that WebSocket handlers, pollers and requests share.
