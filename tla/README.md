# A TLA+ model of human-touch-version-2

The repository is a workflow server: a person launches a *flow*, a durable
worker runs its *tasks* one after the other with language models and tools, and
people pause, resume, approve, kill and rewind what it does. Around it are a
second, newer agent runtime (Inngest functions), a shared blackboard for agents
(DNA phase 3), several queues, and some ninety HTTP routes that keep records.
Everything meets in Postgres rows (through Prisma, READ COMMITTED) and Redis
keys; there is no long-lived process that owns the state. So what is hard about
the code is what concurrent requests, repeated events and dead handlers do to
rows that each handler reads, thinks about, and writes later.

Paths below are relative to the repository.

## 1. Inventory

| Component | State it keeps | Operations | What makes it correct |
|---|---|---|---|
| Durable worker, `app/api/inngest/route.ts` | `Flow.status`, `Task.status`, `HubFileLock` rows, heartbeat entry | `handleEvent` (launched, paused, resumed, completed, failed), dispatch loop, `executeTaskById`, file locks | no task RUNNING and no file locked without an executor; finished tasks stay finished; one task of a flow at a time, in order; a flow comes to rest |
| Watchdog and tick, `lib/orchestration/watchdog.ts`, `app/api/schedules/tick` | heartbeat, attempt counter in `executionTrace` | sweep over RUNNING tasks | a dead task is freed, a live one is not |
| Control routes, `app/api/tasks/*`, `app/api/kill-switch` | the same rows | pause, resume, rewind, kill | they take effect whatever the worker is doing |
| Flow launch and signature gate, `app/api/flows` | `Flow` status, captured signatures, flows linked to a direction | create, sign late, reuse an open flow | launched once, after enough signatures; one open flow per direction |
| Approval checkpoints, `app/api/approvals`, `lib/agent/orchestration/runtime.ts` | `ApprovalCheckpoint`, `AgentRun`, `Agent` status | ask, resolve, resume the task | decisions stand; the last approval resumes the task, once; nobody waits for a decision that was made |
| Inngest orchestrator v2, `src/inngest`, `src/orchestrator`, `src/memory` | idempotency rows and their Redis copies, workflow state, counter of completed tasks, review lock | agent runner, planner, executor, reviewer, memory writer | a request is reviewed once, after all its tasks; a verdict is true; a key marked as done stands for work that was done |
| Blackboard, `lib/dna/phase3/blackboard.ts` | `blackboard_sessions`, `blackboard_steps`, Redis mutex keys | create, claim, complete | a step is completed once, by the agent that holds it; the board is closed exactly when nothing is open |
| Pathway and rule registry, `lib/dna/phase3/pathway-registry.ts` | versioned rows | upsert, collide, deprecate | one live rule per key |
| DNA session queue, `lib/dna/phase2`, `workers/phase2_slm_worker.py` | session rows, timers in memory, claim-check rows, Redis stream | register activity, idle check, sweep, enqueue, consume | every message gets into a summary; one silence is queued once |
| Outbox and shadow queue, `lib/inngest/publish.ts`, `lib/queue`, `lib/migration`, `workers/*.ts` | outbox rows, BullMQ jobs, shadow task state and attempts | publish, claim, dispatch, mirror | what was accepted is handled or kept; a row has one dispatcher; the shadow follows its life cycle |
| Requests and schedules (`lib/requests`, `lib/schedule`) | JSON memory entries | create, decide, edit, run due | one decision per request; a switch stays; a mission is launched once per period |
| Main Agent's run, `app/api/agent/run`, `lib/agent/run/engine.ts`, `lib/agent/tools` | sessions and guards in memory, the draft each tab shows | write, refine, approve, send, time out | what is mailed on an approval is what was shown, once |
| Event log and completion barrier, `lib/orchestration` | append-only events | emit, project, barrier | one event per key |
| Credits (`lib/billing`) | a JSON memory entry | recharge | no lost update |
| Tool gateway, `lib/tools` | receipts | execute | a receipt per effect |
| LangGraph swarm, memory, language models, Composio, hub, calendar, directions, strings, security, realtime, user interface | mostly per-request or external state | | see section 14 |

How they interact. A launch writes the flow and its tasks in one transaction,
then both *publishes* `flow.launched` (`lib/inngest/publish.ts`: remote Inngest,
or the local worker's endpoint, or the outbox) and *kicks* the worker directly
with the same event. The two calls are not coordinated, so an event may reach
the worker never, once or twice. The worker's dispatch loop runs the watchdog,
looks at the flow, takes the oldest QUEUED task and executes it; an execution
reports to itself by calling `handleEvent` with `task.paused`, `task.failed` or
`task.completed`. Human routes write the same rows and publish `task.paused` or
`task.resumed`. The blackboard stands apart: agents call its claim and complete
routes, which guard a step with a Redis mutex and with the row's version. The
Inngest orchestrator is a chain of events: `agent/run` starts the runner, which
sends `agent/plan.created` and waits; the planner sends `agent/task.created` for
each task, each executor `agent/task.completed`; the reviewer that counts the
last task sends `memory/update` and `workflow/completed`, for which the runner
waits. What a command route publishes goes, by the migration mode of the moment,
to the worker's endpoint, to the outbox, or to both; the worker mirrors each
event into the shadow state of its task. An execution that needs a human makes a
checkpoint, suspends its agent run and reports `task.paused`; the resolve and
resume routes publish and kick `task.resumed`. Missions launch flows as a person
does, from a scheduler's tick. Messages of the DNA memory queue their session
when it falls silent, and Python workers summarise it. The Main Agent answers a
browser's request in one process, and keeps its drafts there.

Hard behaviours: two dispatchers on one flow; a claim, a watchdog pass, a kill
and a report on one row; a redelivered resume; a handler that dies after its
claim; look-up and insert of a lock in two statements; a key and a lease that
expire on different clocks; a step executed again because its answer was lost;
a verdict made of a state read several steps ago; an answer that is lost after
its request took effect; a checkpoint decided before its pause was reported; a
JSON record written back whole; a timer that answers for an engine which goes on;
a handler that throws where nobody catches, after it has claimed its task.
`PROJECT.json` lists them line by line under
"hazards", with the property that would catch each.

## 2. Modules

| Module | Contents | Proofs |
|---|---|---|
| `TaskRuntime` | worker, watchdog, control routes over flow, task and lock rows | `TaskRuntimeProofs` |
| `Blackboard` | create, claim, complete, mutex, lease | `BlackboardProofs` |
| `Orchestrator`, refining `ReviewOnce` | the five Inngest functions, idempotency keys, workflow state, counter, review lock | `OrchestratorProofs` |
| `Outbox` | publish and kick, outbox, dispatchers, jobs, shadow state | `OutboxProofs` |
| `Launch` | launch, signature gate, permission requests, missions, kill switch | `LaunchProofs` |
| `Approvals` | checkpoints of one task: ask, resolve, resume, redeliver | `ApprovalsProofs` |
| `DnaSessions` | activity, timers, sweep, claim-check tasks, stream, workers | `DnaSessionsProofs` |
| `AgentRun` | mails of one run of the Main Agent: guard, timer, engine, approval | `AgentRunProofs` |

Each has a module `MC...` with the instances that TLC checks. The composition is
by the rows they share: `Launch` reduces the worker to what it does to a flow's
status, `Approvals` takes the claim and the execution of `TaskRuntime` apart around
a checkpoint, `Outbox` says which deliveries a publish and a kick cause, which
`TaskRuntime` assumes as `Copies`. `ReviewOnce` is the abstract specification of the
orchestrator: the work is reviewed and published once, after all of it is done,
and its review is kept once.

Left of the plan: the mark of an idempotency key statement by statement, and
cache entries that expire; the registry of pathways and rules; a refinement of
`TaskRuntime` to a task's life as a person sees it.

## 3. TaskRuntime

One worker is one request handler of the durable worker. Each action is the code
between two awaits that touch the database; a worker's `pc` is where it is:

| `pc` | Where in the code |
|---|---|
| `idle` | no request |
| `loop`, `sweep`, `pick` | `dispatchQueuedTasksForFlow`: before the watchdog, in it, before `findFirst` |
| `load`, `claim`, `beat` | `executeTaskById`: read the row, `updateMany where QUEUED`, event and heartbeat |
| `rebeat`, `reload` | the same after the claim of `task.resumed` |
| `throw` | `executeTaskById` at the heartbeat of a traced task, which throws |
| `prep`, `lock`, `start` | context, policies, approvals and tools; the lock transaction; the start transaction |
| `run`, `commit` | the execution proper; inside the transaction of `task.completed` |

The state variables are the rows (`flow`, `task`, `attempts`, `beat`, `locks`),
the deliveries under way (`inbox`), the handler's locals, and `victims`, what the
kill switch has read. `crashed` records which tasks lost their handler since
their last report; no action reads it.

What the abstraction keeps and what it leaves out:

* *Transactions.* A transaction whose statements only write is one action. Two
  read first and are split: the lock transaction (`LockFile` per file,
  `LockCommit`), whose inserts are invisible to others until it commits, and
  `task.completed`, which has updated its task row (so other writers wait:
  `RowFree`) when it computes the flow status from the other rows
  (`CompleteRead`, `CompleteCommit`). The kill switch reads outside its
  transaction (`KillRead`, `KillCommit`).
* *Events.* `Copies` says how many deliveries one publish-and-kick pair may
  cause: `{1}` is the intended case, `{2}` both calls succeed, `{0, ...}` both
  may fail. Order is free. `task.completed` and `task.failed` are only ever
  called by the execution itself, so they are not in `inbox`.
* *Time.* The watchdog compares a heartbeat's age with the timeout; `beat` keeps
  only the outcome: `fresh`, `old`, or, when no entry exists, the age of the
  task row (`none`, `stale`). The heartbeat is written once, after the claim.
  With `SlowRuns = FALSE` an execution ends within its timeout.
* *The run itself* (context, model calls, tools, approvals; some 3,000 lines) is
  a choice between pausing, failing, completing and going on to the locks.
  Lines 2426-3811 pause or fail from several places, all through the same call;
  `map` names a typical stretch of it.
* *The row of a task* loses its prompt, proof and all of its trace but
  `attempts`, the counter in the trace's `normalizedTask`; 0 means that the trace
  has none. Launches write one with `attempts: 0`, which the watchdog reads as 1,
  so a launched task starts at 1 (`Traced`). Rewinds write none, and the trace of
  an execution that ran replaces it.
* *The first heartbeat.* `executeTaskById` passes the `task_id` of the trace to
  `touchTaskHeartbeat`. A launch makes that id up ("t_" and a UUID), while
  `MemoryEntry.taskId` has a foreign key to `Task.id` (`prisma/schema.prisma:493`):
  the insert throws, nobody catches it, and the handler ends after its claim
  (`BeatThrows`). So at this commit who claims a launched task does not execute it,
  nor does who claims its retry; a second dispatcher that loads the row as RUNNING
  executes it without a claim, and a rewound task, whose trace names no id, is
  executed as intended. `Launch` and `Approvals` have no trace: there a throw is one
  of the deaths of a handler, and what they show of an execution past its claim is
  shown of those tasks, and of all once the id is right.
* *Not modelled*: flow progress and logs, `flow.progress`, DRAFT flows
  (section 7), missing rows and foreign organisations (the handler returns), and the
  string kill that deletes rows.

### Properties and runs

`RunningHasExecutor` (a RUNNING row has a handler that executes the task, unless
one died on it), `LockHasExecutor` (so has an active lock) and `TerminalIsFinal`
(a finished task is reopened only by a handler already executing it, by a
watchdog pass that had read it as RUNNING, or by a human) are checked against
everything the environment may do:

| Run | Bounds | Shows |
|---|---|---|
| `TaskRuntimeChaos` | 2 workers; a launched task and a rewound one that share a file; two deliveries of each launch and resumption; every human route; 1 crash; slow executions | the three properties |
| `TaskRuntimeNominal` | two launched tasks of one flow and a rewound one, two deliveries of each event, 1 crash, `TickingSpec` | `BegunInOrder`: no task begins while an earlier one of its flow has never begun; `CompletedFlowIsDone`; `FlowSettles`: a flow that a rewind forked is completed, failed, aborted or paused in the end unless a handler died; `CrashedTaskIsFreed`: the task of a handler that died or threw leaves RUNNING |

A delivery may wait for ever where nothing is assumed of the server, so
`Copies = {2}` covers the calls that are lost. Two workers are enough for every
race between two handlers; a third one changes nothing the two do to each other,
and the theorems hold for any number. Two tasks are needed for order, completion
and conflicts, one file for the locks, two attempts for "retry" and "no retry
left". One human call may hit an execution at any of its steps. A crash and a human
call together reach the states where a dead task is resumed while its lock is
still active.

`FlowSettles` is about the flows in `Branches`, which only a rewind creates: a
launched flow need not settle, or even become ACTIVE, since the heartbeats of its
tasks throw. Of the order of a flow's tasks `BegunInOrder` is what two dispatch loops
leave: they may execute two tasks at a time, and a task that waits for its retry may
be overtaken, but neither loop gets to a task before an earlier one has been claimed.
The theorem adds slow executions, pauses and kills; a resume picks a task by name.

Fairness. `FairSpec` says that a handler that runs goes on (`WF` of its steps:
Node schedules every continuation) and that the server takes up a delivered
request again and again when it can (`SF`: with two handlers a worker may be
busy in between). It does not say that a human acts, that a tick occurs or that
an execution succeeds. `TickingSpec` adds that the scheduler keeps calling
`/api/schedules/tick` and that time passes.

### Disagreements found

| Run | Statement | What the code does |
|---|---|---|
| `TaskRuntimeLocks` | `app/api/inngest/route.ts:497` "Keep lock checking deterministic and race-safe within one transaction." | two transactions find no lock and both insert one: READ COMMITTED, no unique key |
| `TaskRuntimeKill` | `components/vorldx-shell.tsx:2927` "Kill switch triggered. Active workflows were aborted." | an execution under way sets the flow ACTIVE and the task RUNNING, later PAUSED, FAILED or COMPLETED |

Also seen, at the limits of what the properties say:

* `app/api/inngest/route.ts:2319` says "Sequential execution keeps deterministic
  ordering and allows a pause gate to stop dispatch." A launch and a rewind publish
  their event and kick the worker with it besides, so two dispatch loops serve one
  flow and two of its tasks execute at a time. No property says that one task
  executes at a time; `BegunInOrder` and `CompletedFlowIsDone` are checked with two loops.
* `components/vorldx-shell.tsx:4810` announces that a launched workflow "is now
  running through agent tasks." The first heartbeat of each of its tasks throws
  (see above), so it may as well stay QUEUED. `CrashedTaskIsFreed` covers those tasks.
* The retry that the watchdog queues in a tick is dispatched by nobody until another
  event comes (`lib/orchestration/watchdog.ts:145` "... retry queued.").

## 4. Blackboard

One board with its steps; a handler is one claim or complete request, and every
statement to Postgres or Redis is an action. `status`, `version`, `claimant`,
`lockToken` and `leased` are columns of `blackboard_steps`, `mutex` the Redis
key of a step, `given` what the agents know. `Applies` is the `WHERE version =`
of `update_blackboard_step_occ`. The key's expiry and the row's lease expire
independently; a Redis failure makes a claim skip, a token check refuse and a
release do nothing; an answer may be lost; a request may die between any two
statements, a board creation too.

| Run | Bounds | Shows |
|---|---|---|
| `Blackboard` | 2 steps, 2 agents, 2 requests at a time, 3 tokens, 1 fault, claims after creation | `CompletedIsFinal`, `LiveClaimIsKept`, `CompletedByLastClaim` of each step; `BoardCompletedIsDone`, `BoardGetsClosed` |

Steps do not interact but through the board's status. Three claims are a claim,
its expiry and a takeover, after which the first may come back, with the other
step's completion in between. `MaxTokens` and
`MaxFaults` stop the run: deadlock is not checked because a board on which
all tokens have been drawn really has nothing left to do in the model, and a
completed one has nothing left to do in the program.

With agents claiming while the board is still being posted a board can be
closed early, and a crash before the last update leaves it ACTIVE. Nothing in
the repository promises otherwise; the hazard at `lib/dna/phase3/blackboard.ts:645`
names both, and the run excepts them: claims come
after creation, and `BoardGetsClosed` names the fault.

## 5. Orchestrator

A *run* is one event handled by one Inngest function, named by its job (function
and task) and the copy of the event. Inngest calls the function again and again,
hands it the results of the steps it has kept, and executes the next one; so an
action is one `step.run` or `step.sendEvent`, and `pc` is the step a run is at.
A step whose result does not arrive (the process dies, the connection breaks) is
executed again: `Goto` and `EmitStep` let the run stay where it is although the
step took effect, for the functions in `Lossy`. A step whose retries are used up
throws, the reviewer's `finally` releases its lock (`unwind`), and the `catch`
marks the key as FAILED (`StepFails`, `MarkFailed`).

| Variable | In the code |
|---|---|
| `keys`, `cache` | the `IdempotencyKey` row and the Redis copy of each scope and key |
| `store` | the workflow state in Redis (`store[TRUE]`) and in the process's own map when Redis is away (`store[FALSE]`) |
| `counter`, `lock` | `workflow:<id>:completed`, `lock:workflow:<id>:review` |
| `reviews`, `memory` | the verdicts sent with `workflow/completed`, the rows the memory writer has added |
| `state`, `count` | the memoized results of a reviewer's append and count steps |
| `current` | what `patchWorkflowState` has read and not yet written back |

What the abstraction keeps and what it leaves out:

* *Claims.* `Blocks` are the two conditions of `claimIdempotency`, evaluated on
  the cache and then on the row. The hash decides whether a SUCCEEDED key
  refuses: every function but the runner hashes a payload with `createdAt` or the
  like in it, which a repeated `sendEvent` computes anew, so a copy of an event
  has a hash of its own. A claim looks at the row (`Look`, `LookFinal`) and then
  writes it (`Claim`, `ClaimFinal`): an insert throws if a row is there by then, and
  the step is executed again (`insert`, `insertFinal`); an update goes by the id that
  was read and asks nothing of the row as it is now (`update`, `updateFinal`). So
  two claims that found one SUCCEEDED or FAILED row both succeed. A mark is one
  action, and cache entries do not expire.
* *Workflow state.* Only the set of tasks with a result matters. `finalReview` is
  written and never read. `patchWorkflowState` goes on when it does not get its
  lock, so read and write are two actions.
* *Pure steps* (plan, execute, review) and logging have no action; an executed
  task is always COMPLETED. The plan's memory row is never read.
* *Redis.* `RedisUp` says what `getRedisClient` may find at any step. The
  theorems allow anything; the runs use a connected Redis, which the repository
  requires (`README.md:10`).
* *Waits.* An event sent before `waitForEvent` has registered is missed;
  `Timeout` is the runner's twenty minutes, `LockExpires` the lock's ten seconds.

| Run | Bounds | Shows |
|---|---|---|
| `OrchestratorNominal` | 2 tasks, no fault, `FairSpec` | that `Orchestrator` refines `ReviewOnce` (`PublishesOnce`: published once, after all the work, and kept once) and `RequestFinishes` |
| `OrchestratorFaults` | 2 tasks, 2 events per job, an executor's result lost, and a failed step of a reviewer, a wait or a lock that times out | `ApprovedIsTrue`, `SuccessMeansWork`, `OneFinaliser` |

Two tasks give a last and a last but one reviewer; two events per job are one
repetition. `MaxLost`, `MaxFails`, `Copies` and `Requests` bound the faults and
repetitions, and the theorems lift those bounds. The run with faults explores only
behaviours in which the runner and the planner have sent their events before an executor
starts, and the writer waits until executors and reviewers have ended (`InOrder`), to
keep it small: what they do then touches no key, counter or lock of a reviewer. The
writer does write the workflow state back; that is in `OrchestratorNominal` and in the
theorems, which are about all behaviours. Deadlock is not checked because a request
ends.

Fairness: `FairSpec` says of every run that its next step is executed in the end,
which is what a durable execution service is for; nothing is assumed of clients,
timeouts or failures.

Without faults exactly one reviewer finds itself last, whatever the order. Under
faults that is no longer so, and the project says what survives: an approval is
true, a SUCCEEDED key stands for work that was done, and before a review is
published one reviewer finalises, also when the review lock has run out under it,
since the final key is new and a second insert fails. After that two may, if the
lock ran out under one of them (`expired`, a history variable): both have found the
review of an earlier count SUCCEEDED. It takes a review that is done and two more
reviewers that count past it, which is beyond the bounds of the run; the theorem has
no bounds.

Also seen, and listed as hazards: the last counter reviews the state its own append
returned, which may miss another's result, so a finished workflow may be called
incomplete; a count step that is executed again counts its
task twice, so a review may be published (as incomplete) before the last task is
executed; a claim whose answer is lost is refused when it is repeated, so the
work is never done; a reviewer that fails for good while it finalises leaves the
final key IN_PROGRESS. No property covers the last two: they are how the keys work,
and nothing in the repository promises otherwise.

## 6. Outbox

An action is one statement, one call of the queue, or one HTTP request or answer.
`pub` is the call of `publishInngestEvent` for each event with the kick that
follows it, `hdl` the requests that `/api/inngest` serves, `row` and `job` the
outbox and the queue by idempotency key, `disp` the dispatchers, `shadow` and
`attempt` the two shadow rows of a task. `mode` is what the flags of the process
say; `SetFlags` is a restart with others, while calls in progress finish as they
began. The run's id is left out of the key because there is one run. A fault is
a statement that throws (before or after it took effect), a request that does
not arrive, an answer that is lost, or a dispatcher that dies.

| Run | Bounds | Shows |
|---|---|---|
| `Outbox` | two resumptions of a task (one key) and a failure report of it, every mode, 2 dispatchers, 2 handlers, 2 origins, batches of 2, 1 fault | `ClaimedByOne`, `AcceptedIsKept`, `DeliveryCount`, `AttemptAgrees`, `ShadowIsLegal` |

Three events of one task make two writers of one shadow row, a deduplicated key
and two rows for two dispatchers. One fault is placed at every statement; more
faults, events and modes are left to the theorems, which cover all five
properties. Deadlock is not checked because everything has been published in the end.

Seen on the way: a publish whose row is refused by the unique key counts as
accepted although the row belongs to an earlier event of the task; in the mode
`cutover` the event then reaches the worker only by the kick. A row marked FAILED
gets a later `availableAt` but is never claimed again, since only PENDING rows are;
the rows of a tick that fails stay DISPATCHING. Both are why the properties speak
of what is kept and not of what arrives.

## 7. Launch

A request is served by one process and is cut at each statement; `req` holds what
it has read. `flow`, `signed`, `perm` and `linked` are rows, `mission` the memory entry of
one schedule with its switch, its next due time in periods, and whether it names
a direction; an edit sets any of the three, `nextRunAt` to any time. A run launches
with the schedule as it read it (`req[r].row`) and reads it again before it moves
`nextRunAt`. `sent` counts the publications of a launch, `inbox` the deliveries it
causes, and `busy` the flows whose tasks the worker executes: whether another task
follows is left open, and each start or report sets the flow's status by id, as
the code does. The ghost `raced` records overlaps that the code really allows, so
that each property names its exceptions: two late signatures that read one draft,
two launches past the duplicate guard, two deciders of one permission request,
two ticks, an edit within a mission's run, a kill over a running task. The ghost
`moved` holds the periods in which an edit set `nextRunAt` to a time that had come:
after such an edit the mission is launched again, which nobody need have raced
for.

| Run | Bounds | Shows |
|---|---|---|
| `Launch` | 2 flows, 3 users, 3 signatures required, 2 requests at a time; two to four calls of the kinds in `AllMixes`; 1 request dies; 2 periods | `LaunchedOnceSigned`, `NoTwinFlows`, `LaunchIsPermitted`, `AbortedStays`, `MissionOncePerPeriod`, `SwitchIsKept` |

`AllMixes` lists which kinds of calls meet: those that touch a common row. Three
required signatures let two late ones each miss the other's; two calls on a mission
overlap in every way, and three, ticks and edits, come one after the other
(`InTurn`), such as tick, edit, tick; two flows are
needed for twins; two requests at a time are every pair of overlapping calls. A
FAILED flow is COMPLETED here and QUEUED and ACTIVE after a report are one, because
nothing that is modelled tells them apart. The other fields an edit sets (the
cadence among them: a mission's period is one unit), plan validation and the
records a launch links are left out.

## 8. Approvals

One task and its executions, each with an agent run and at most one checkpoint
(`cp`). `hdl` are the requests of the worker: `claim` (`task.resumed`), `loop`, `look`,
`load` and `grab` (dispatcher and `executeTaskById`), `begin` and `work` (before and after
the start), `wait` and `pause` (the checkpoint is made; the run, and then the task,
is not suspended yet), `report`. `req` are the humans' requests; the resolving
transaction is cut between its reads, with the row locks they take, and its
commit; the order in which it and `task.paused` lock is `Deadlock`.

| Run | Bounds | Shows |
|---|---|---|
| `Approvals` | 3 runs, 2 agents, 2 handlers, 2 human requests at a time; three approvals, or an approval and a resume, or one of them with a lost message or a process that dies | `LeftForAHuman`, `OneExecution`, `NobodyWaitsInVain`, `DecisionStands` |

Three runs give two overlapping decisions and an execution after them. The
properties name their exceptions by ghosts, since the code has no more to
say. `early` are the checkpoints decided, by an approval or a resume, while the worker
still holds their run: the pause is reported later and overwrites the resumption.
`aside` are those approved by a resume while the task's trace names another run, or
none: the resume route approves every checkpoint of the task, but ends the run of
the trace only. `twice` are those two requests read as PENDING. `loose` says what came
loose: a file lock paused the task without a checkpoint (`bare`), two approvals
overlapped, each seeing the other's as PENDING (`split`), a message or a process was
lost (`fault`), a human resumed a running task (`forced`), a dispatcher saw the task
QUEUED before another claimed it (`seen`). What `LeftForAHuman` says of a QUEUED or
RUNNING task is excused by a fault only, so a resume that does not publish breaks it;
a PAUSED task is excused by `bare`, `split`, or by a run that still waits although
its checkpoint was decided early.

## 9. DnaSessions

`row` abstracts the session's two timestamps to `idle` and `due`; a message is named by
its number and leaves one memory. Timers and sweeps (`enq`) queue sessions step
by step; the claim-check rows carry a version, which the Python worker's updates
expect; the stream hands a pointer to one worker. A worker reads at most `ReadMax`
(140) memories and puts at most `TextMax` (24) of them into a summary; the others
are in the ghost `left`. `settled` are the memories that were given to the summary's text
or archived as worthless: cutting a text to 260, 800 or 1,200 characters is
abstracted.

Two conversions of the worker raise, and `Decodes` and `Aware` say what it may get:
the payload of a task as an object (TRUE) or, as asyncpg gives `jsonb` without a
codec, as a string, of which `dict` makes a `ValueError` outside the `try`
(`FetchRaises`; the loop gives its batch up); the time of a memory with its time
zone, or naive, which the subtraction of `time_decay_score` refuses and the task ends
FAILED (`Raises`). At this commit both are {FALSE}: `asyncpg.create_pool` (`:489`)
sets no codec and the columns are JSONB and TIMESTAMP(3). The run and the theorems
allow every outcome, so that they say something of the queue around the worker; a
message that a worker raised on is in `left`.

| Run | Bounds | Shows |
|---|---|---|
| `DnaSessions` | 2 sessions, 2 messages, 2 tasks, 1 sweep, 2 workers that read 2 pointers and 2 memories and summarise 1; both outcomes of either conversion; 1 fault | `NothingForgotten`, `AckedIsSettled`, `SilenceQueuedOnce` |

Two messages of one session make a late one, of two sessions a sweep of two; two
tasks make one silence queued twice visible; a summary of one memory leaves one. `Age`
assumes that a request is served within the idle window. Scores are a free choice
of what is archived. A message that comes while its session is
being queued, or a pointer that Redis refused, is forgotten until the next
message: these are the exceptions that `raced` and `lost` name.

Seen on the way: `docs/vorldx-dna-memory-phase2.md:54` says that the worker "fetches
full claim-check payload from Postgres, performs GC + summarization, and marks task
status via OCC." At this commit it raises on every task it fetches, and the task
stays QUEUED in nobody's hands. What is proved of the worker is what it does with
the values it was written for.

## 10. AgentRun

One run of the Main Agent shared by several tabs. A request is admitted by the
guard, its engine (`think`, `tools`, `log`, `end`) works on the draft it read, and its
answer writes the draft back (`telemetry`). `open` says that the route has not
answered; the timer answers without stopping the engine, so an engine may go on
for a request that is over. A draft is its content; planner and writer choose
any. `sends` and `excused` are ghosts: mails on the approvals of the draft that a tab
shows, and tabs that were not told an outcome.

| Run | Bounds | Shows |
|---|---|---|
| `AgentRun` | 2 tabs, 3 engines, 2 of them unanswered, 2 contents, 3 requests, 1 timeout, 1 lost answer, failed statement or restart | `ApprovedIsShown`, `OneMailPerAnswer`, `ApprovalSendsOnce`, `GuardCountsRequests` |

Three requests are a draft, an approval that times out and its retry, or a draft,
another tab's and an approval. The theorems lift every bound. The model is that of
one server process. A person may reject a draft while its approval is under way,
which the shell does not ask about (`components/vorldx-shell.tsx:4993`): the mail may
then follow "Draft rejected. No email was sent." At this commit the shell's
approve and reject handlers are passed to no rendered component; the model has
them as they are written. Parsing and wording are abstracted to which of the engine's
answers comes; an answer that asks for more input leaves a tab as an error does.

Seen on the way: after "The request timed out. Please retry." the mail of the
first request may still be sent, and the retry sends it again, since the session
keeps no trace of it; a failure of the log after a mail was sent is answered as
"Main Agent run failed."; errors of the provider are never tried twice by
`executeAgentTool`, which is why one request sends one mail at most.

## 11. What is proved

TLAPS proves, for every value of the constants that satisfies the named
assumptions (`RuntimeAssumption`, `BoardAssumption`, `OrchestratorAssumption`,
`NoRunAssumption`, `OutboxAssumption`, `AgentRunAssumption`, `ApprovalsAssumption`,
`LaunchAssumption`, `DnaSessionsAssumption`):

* `TaskRuntimeProofs`: `TypeCorrect`, `RunningIsBacked`, `LocksAreBacked`,
  `FinalTasks`; `Begun` under the further assumption that neither "resume" nor
  "resolve" is in `HumanOps`;
* `BlackboardProofs`: `TypeCorrect`, `CompletedSteps`, `LiveClaims`,
  `LastClaims`, `BoardClosed`, and `CompletedBoard` under the further assumption
  `~EarlyClaims`;
* `OrchestratorProofs`: `TypeCorrect`, `ApprovedHolds`, `SuccessMeansWorkHolds`,
  `OneFinaliserHolds`, and the refinement of `ReviewOnce`, `PublishesOnceHolds`, under
  `NoResends`: no result of a step is lost, and the client asks once or nothing
  fails for good or times out;
* `OutboxProofs`: `TypeCorrect`, `RowsClaimedByOne`, `AcceptedKept`,
  `DeliveriesCounted`, `AttemptsAgree`, `ShadowLegal`;
* `AgentRunProofs`: `TypeCorrect`, `ApprovedShown`, `OneMail`, `SendsOnce`,
  `GuardCounts`;
* `ApprovalsProofs`: `TypeCorrect`, `DecisionsStand`, `ExecutesOnce`, `NobodyInVain`,
  `LeftHuman`;
* `LaunchProofs`: `TypeCorrect`, `LaunchedOnce`, `NoTwins`, `PermittedLaunches`,
  `OncePerPeriod`, `SwitchKept`, `AbortedForGood`;
* `DnaSessionsProofs`: `TypeCorrect`, `Acked`, `QueuedOnce`, `Forgotten`.

*Task runtime.* `RunningHasExecutor` is not inductive alone. The invariant `Inv`
adds that a worker past the dispatcher has a task (`HoldsTask`), whose flow
exists, that a watchdog pass has read existing tasks, and that a completion
under way has computed a status. The argument: a row becomes RUNNING only by a
step that makes its worker an executor (claim, resumed claim, start), and a
worker stops being one only by a step that writes another status and deletes the
locks (a report, which every way out of an execution goes through) or by dying,
which `crashed` records; losers of a claim were never executors. The same holds
of locks, which only `LockCommit` adds.

`Begun` holds for any number of dispatch loops of a flow, slow and dying handlers,
watchdog passes, pauses, kills and rewinds; a human who resumes a task picks it by
name, which is what its assumption leaves out. Without resumptions (`NoResumes`)
every worker that has a task got it from `PickTask`, which takes the first QUEUED one.
So it has passed all earlier tasks of the flow (`Passed`): each of them has been
claimed once, or ended. That stays true, as `OrderStep` says of every action: a row
becomes fresh only when its flow is created, before which no worker has a task of it,
and what the watchdog queues again has a second attempt. Only a worker that has the
task makes it RUNNING.

*Blackboard.* The invariant `BoardInv` relates the four places where a token
lives: tokens are drawn once (`TokensIssued`), a claimed row carries the token
it was claimed with (`ClaimToken`), requests carry tokens that were drawn for
them (`SentToken`, `MutexOwner`, `RequestOwner`), and a request that has read a
version has read the row as it was at that version (`SeenBound`, `SeenOpen`,
`LiveClaimIsSeen`). So an update that applies has seen the present row.
`BoardClosed` follows because whoever completes a step looks at the others only
afterwards (`Closing`); `CompletedBoard` because nobody works on a board that is
not posted (`Unposted`), and because a claim opens no step: what it applies to
was open when read, and is as it was read (`OpenSteps`). `EarlyClaims` lets
agents find a board before `createBlackboardSession` has posted its last step.

*Orchestrator.* `TypeInv` adds to the types which function may be at which step
(`RoleOK`) and that a patch writes only where it has read something (`ReadOK`).
`ApprovedIsTrue` follows because a task's result, wherever it is kept (in either
store, read by a patch, or memoized by a run), belongs to an executed task
(`ResultsOK`), and executed tasks stay executed (`SentGrows`). `SuccessMeansWork`
needs that a run at its mark has done the work (`MarkOK`): `EnteringNext` lists
every way into those steps, and only the step that does the work leads there. For
`OneFinaliser` two facts are enough. Until a review is published the final key is not
SUCCEEDED or FAILED, no claim of it is an update, and it is IN_PROGRESS if anybody
finalises, alone (`UnpublishedOK`). And of the reviewers between lock and release
all but one had the lock run out under them (`LockOK`).

That `Orchestrator` implements `ReviewOnce` (`OnceStep`, with the executed tasks, the
number of published reviews and the number of kept ones as its state) takes an
invariant of the whole chain of functions, `OnceInv`. A function that is about to start
others is the only run of its job and has not started them (`OneBegun`, `SentOK`), so
every event but the request is sent once (`SentOnce`); a second request is refused, for
no runner gives up its key (`RunnerOK`). Hence the counter is at most the number of
tasks that are counted (`CountOK`, `CountEffect`), and so is the number of tasks in the
state that a reviewer counts when Redis is away: whoever gets to the lock has
counted exactly as many as there are, and all are executed (`LastOK`). That number is
also the hash of the final key, which therefore refuses every second look, whether the
first claim is in progress or done, and an insert fails once the row is there: only one
reviewer ever finalises (`FinalHeld`, `Alone`), publishes and starts the writer
(`PublishOK`). Steps that fail for good, timeouts, expired locks and an absent Redis are
allowed; they may keep the review from being published, but not make it early or
double. TLC finds counterexamples when any part of `NoResends` is dropped: a
step that is executed again because its result is lost sends a second event or counts
again, and a request that is sent again after the runner gave up starts everything anew.

*Outbox.* `ClaimedByOne` and `AcceptedIsKept` need that a dispatcher is at a row
of its batch whose job is there once the queue said so (`Batched`), and that who
waits for an answer waits for a request of its own event (`Called`), which has
been handled once it is past `handle` (`Handling`). `DeliveryCount` follows from
`Counting`, which says for each place of a call how often its event has been
handled so far, as long as nothing has failed. For the shadow, a task that did
not race has one writer, and what this one has read of state and attempt is what
they are (`Writing`); two writers are exactly what `raced` records. `ShadowIsLegal`
needs no such exception: an update applies only if the row is as it was read.

*Main Agent.* What a named approval approves was shown to its tab (`NamedIsShown`);
`Mails` relates an engine's place to what it has sent, and that a lost answer ends
it; a tab waits for one request (`OneWait`), and if it does for an approval of the
draft it shows, then no mail has been sent on it yet, or the tab is excused
(`SendsAwaited`). The guard is the cardinality of the open requests (`Counted`):
every way out of one gives back a place exactly if the request was open.

*Approvals.* Every action first gets a lemma that says what it does to rows, places and
requests (`PauseDoes`, `ResolveTxDoes`, ...); the invariant's parts are proved from
those. `Exclusive` needs that the task is RUNNING while somebody executes it, since
claim, grab, an approval and a resume all look at the status first, or leave their trace
in `loose`. `Earliness` says that a decision on a run that is still held is early,
already while its transaction is open, so whoever pauses late finds either an undecided
checkpoint or an exception; `Asked` follows, with the other exception, `aside`: a resume
ends the run of the trace and makes its agent active (`Freeing`), and that run only.
`Carried` has a part for each way to be left: while nothing was lost a RUNNING task has
an active handler, and a QUEUED one a handler or a request that will publish; while no
approvals overlapped at most one is at its commit, and if it does not queue the task
another checkpoint is undecided or rejected; and a PAUSED task has a checkpoint that
blocks it or an early one whose run still waits (`Stays`).

*Launch.* Again every action first gets a lemma about its effect. `Closing` says that
whoever could bring a closed flow back (a worker that executes it, a late signature
past its read) is recorded in `raced`; `AbortedStays` and the reopening cases of
`NoTwinFlows` rest on it. `Guarded` says that a launch past the duplicate guard has
found no open flow and is alone unless `raced` says otherwise. `Once` and
`Signatures` need that a draft was never published and that DRAFT is never entered
again; the signatures of a flow only grow, and their number with them since `Users`
is finite. `Periods` says that an unraced tick past its look at the schedule is
alone, that nothing was born in this period before it launches, and that once
something was, `next` is later or the tick that will move it is still under way,
unless an edit of this period is in `moved`.

*DNA sessions.* A pointer is in one place (`Pointers`): about to be pushed, in the
stream, in one worker's batch, or acknowledged. So only the worker that holds it changes
the version of its task, and finds what it expects (`Versions`); that is
`AckedIsSettled`. An idle session has its messages stored, and so has what an enqueuer
took along (`Stored`); hence a pushed task's messages are on their way (`Remembered`), a
worker that looks finds them or leaves them in `left`, one that raises leaves them there
too, and one that dies in `lost` (`CarriedStep`). For `SilenceQueuedOnce`, two enqueuers
that have one session in hand were in `overlap` when the second took it, and the task
that either of them is to insert, or that a due session is to get, has seen other
messages than every task there is (`Queueing`). That messages and tasks are new when
they get their number is a fact about cardinalities (`Numbering`).

Each proof has one lemma per part of the invariant with one step per action, and
a theorem that combines them with PTL.

## 12. Only model-checked

The liveness properties (`FlowSettles`, `CrashedTaskIsFreed`, `RequestFinishes`:
fairness is out of the prover's reach), and the invariant `CompletedFlowIsDone`. Every
other invariant and every action property of a passing run, and the refinement
`PublishesOnce`, is the statement of a theorem. The two disagreements
(`TaskRuntimeLocks`, `TaskRuntimeKill`) are counterexamples of TLC.

## 13. Running

    tlc -workers 2 -config TaskRuntimeChaos.cfg MCTaskRuntime
    tlc -workers 2 -config TaskRuntimeNominal.cfg MCTaskRuntime
    tlc -workers 2 -config Blackboard.cfg MCBlackboard
    tlc -workers 2 -config OrchestratorFaults.cfg MCOrchestrator
    tlc -workers 2 -config Outbox.cfg MCOutbox
    tlc -workers 2 -config Launch.cfg MCLaunch
    tlc -workers 2 -config Approvals.cfg MCApprovals
    tlc -workers 2 -config DnaSessions.cfg MCDnaSessions
    tlc -workers 2 -config AgentRun.cfg MCAgentRun
    tlapm OutboxProofs.tla        (and the other ...Proofs modules)

The other configurations of `PROJECT.json` go with the same modules. With two workers
each run takes between a few seconds (the disagreements) and three minutes (`DnaSessions`,
6.8 million distinct states; `Launch`, 1.9; `Approvals`, 4.2; `TaskRuntimeChaos`,
5.1). The definitions `XxxUncapped`, `XxxQuiet`, ... marked "Mutant" are
plausible faults, one for each property; with one in place of its original the
property's run fails.

## 14. Not modelled

The components with status `not_modelled` in `PROJECT.json`, each with its
reason. In short:

* external services (Composio, language models, storage) and what is made of
  their text (memory ranking, prompts, parsing): statistics and strings, of
  which the models keep only the choice that follows;
* notifications nobody decides by (realtime, sync bus, logs, event log),
  rendering, configuration and stateless guards;
* records that one statement reads or writes (directions, plans, strings, hub,
  calendar). Read-modify-write of JSON records is modelled where it meets a
  workflow (schedules, permission requests); the wallet of `lib/billing` has the
  same shape and loses one of two concurrent recharges;
* the pathway and rule registry, which ignores the answer of its versioned
  update and writes the embedding in a statement of its own;
* LangGraph, a sequential graph within one request that is routed by model
  output.

The larger part of the repository's lines is of these kinds: forms and panels of
the user interface, HTTP validation, prompt and text assembly, and adapters of
external services.
