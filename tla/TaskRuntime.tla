---------------------------- MODULE TaskRuntime ----------------------------
(***************************************************************************)
(* The durable worker of app/api/inngest/route.ts together with the HTTP   *)
(* routes that write the same Flow, Task and HubFileLock rows: launch,     *)
(* pause, resume, checkpoint resolve, kill switch and rewind, and the      *)
(* timeout watchdog of lib/orchestration/watchdog.ts.                      *)
(*                                                                         *)
(* A worker is one request handler of the durable worker.  Each of its     *)
(* actions is the code between two awaits that touch the database, so the  *)
(* interleavings are those of concurrent requests on READ COMMITTED rows.  *)
(***************************************************************************)
EXTENDS Integers, FiniteSets

CONSTANTS
  Flows,        \* flow rows that may exist in a behaviour
  Branches,     \* the flows among them that only a rewind creates
  Tasks,        \* task rows, created together with their flow
  Files,        \* hub files a task may require
  Workers,      \* concurrent request handlers of the durable worker
  FlowOf,       \* the flow of a task
  Rank,         \* createdAt order of the tasks
  Needs,        \* requiredFiles of a task, resolved
  Copies,       \* how often one publish + kick pair may reach the worker
  MaxAttempts,  \* retry_policy.max_attempts of a launched task
  HumanOps,     \* the human routes in use
  MaxHuman,     \* bound: calls of human routes in a behaviour, but rewinds
  MaxCrashes,   \* bound: handlers that die half way
  SlowRuns,     \* TRUE if a handler may keep a task longer than its timeout
  NoTask, NoFlow

TaskStatus == {"NONE", "QUEUED", "RUNNING", "PAUSED",
               "COMPLETED", "FAILED", "ABORTED"}
Terminal   == {"COMPLETED", "FAILED", "ABORTED"}
FlowStatus == {"NONE", "QUEUED", "ACTIVE", "PAUSED",
               "FAILED", "ABORTED", "COMPLETED"}
Blocked    == {"PAUSED", "FAILED", "ABORTED", "COMPLETED"}

\* Deliveries to the durable worker.  rewindForked is handled as flow.launched.
Events == ({"launched"} \X Flows) \cup ({"resumed", "paused"} \X Tasks)

ASSUME RuntimeAssumption ==
  /\ FlowOf \in [Tasks -> Flows]
  /\ Rank \in [Tasks -> Nat]
  /\ Needs \in [Tasks -> SUBSET Files]
  /\ Branches \subseteq Flows
  /\ Copies \subseteq 0..2
  /\ MaxAttempts \in Nat \ {0}
  /\ MaxHuman \in Nat
  /\ MaxCrashes \in Nat
  /\ HumanOps \subseteq {"pause", "resume", "resolve", "kill", "rewind"}
  /\ SlowRuns \in BOOLEAN
  /\ NoTask \notin Tasks
  /\ NoFlow \notin Flows

VARIABLES
  flow,      \* Flow.status
  task,      \* Task.status
  attempts,  \* executionTrace.normalizedTask.attempts, 0 if the trace has no
             \* normalizedTask
  beat,      \* heartbeat entry: "fresh", "old", or no entry, when the age is
             \* that of the task row: "none" (recent) or "stale"
  locks,     \* active HubFileLock rows, as <<file, task>>
  inbox,     \* copies of each event under way to the worker
  pc,        \* where each worker is
  cur,       \* the task each worker was handed
  home,      \* the flow each worker dispatches for
  scan,      \* watchdog: <<task, attempts>> rows read and not yet looked at
  todo,      \* lock transaction: files not yet looked at
  grant,     \* lock transaction: rows inserted, not committed
  conflict,  \* lock transaction: another task's lock was read
  verdict,   \* completion transaction: the flow status computed
  victims,   \* kill switch: the flow ids read, {} when not under way
  human,     \* calls of human routes so far, but rewinds
  crashes,   \* handlers lost so far
  crashed    \* tasks whose executor died since they were last reported

rows  == <<flow, task, attempts, beat, locks>>
local == <<pc, cur, home, scan, todo, grant, conflict, verdict>>
env   == <<inbox, victims, human, crashes>>
vars  == <<rows, local, env, crashed>>

PCs == {"idle", "loop", "sweep", "pick", "load", "claim", "beat", "rebeat",
        "throw", "reload", "prep", "lock", "start", "run", "commit"}

\* A worker at one of these runs executeTaskById for its task, past the claim.
Executing  == {"beat", "rebeat", "throw", "reload", "prep", "lock", "start",
               "run", "commit"}
HoldsLocks == {"start", "run", "commit"}

TasksOf(f)      == {t \in Tasks : FlowOf[t] = f}
Locked(t)       == {l \in locks : l[2] = t}
Owners(f)       == {t \in Tasks : <<f, t>> \in locks}
Executes(w, t)  == cur[w] = t /\ pc[w] \in Executing

\* The trace gives the task an id of its own ("t_..."): launches write one, a
\* rewind does not, and the trace of an execution that ran replaces it.
Traced(t) == attempts[t] > 0

\* task.completed updates its task row before it computes the flow status, so
\* until that transaction commits every other writer of the row waits for it.
RowFree(t) == \A w \in Workers : ~(pc[w] = "commit" /\ cur[w] = t)

Send(e, n) == inbox' = [inbox EXCEPT ![e] = @ + n]

TypeOK ==
  /\ flow \in [Flows -> FlowStatus]
  /\ task \in [Tasks -> TaskStatus]
  /\ attempts \in [Tasks -> 0..MaxAttempts]
  /\ beat \in [Tasks -> {"none", "stale", "fresh", "old"}]
  /\ locks \subseteq Files \X Tasks
  /\ inbox \in [Events -> Nat]
  /\ pc \in [Workers -> PCs]
  /\ cur \in [Workers -> Tasks \cup {NoTask}]
  /\ home \in [Workers -> Flows \cup {NoFlow}]
  /\ scan \in [Workers -> SUBSET (Tasks \X (0..MaxAttempts))]
  /\ todo \in [Workers -> SUBSET Files]
  /\ grant \in [Workers -> SUBSET Files]
  /\ conflict \in [Workers -> BOOLEAN]
  /\ verdict \in [Workers -> FlowStatus]
  /\ victims \subseteq Flows
  /\ human \in Nat
  /\ crashes \in Nat
  /\ crashed \subseteq Tasks

Init ==
  /\ flow = [f \in Flows |-> "NONE"]
  /\ task = [t \in Tasks |-> "NONE"]
  /\ attempts = [t \in Tasks |-> 0]
  /\ beat = [t \in Tasks |-> "none"]
  /\ locks = {}
  /\ inbox = [e \in Events |-> 0]
  /\ pc = [w \in Workers |-> "idle"]
  /\ cur = [w \in Workers |-> NoTask]
  /\ home = [w \in Workers |-> NoFlow]
  /\ scan = [w \in Workers |-> {}]
  /\ todo = [w \in Workers |-> {}]
  /\ grant = [w \in Workers |-> {}]
  /\ conflict = [w \in Workers |-> FALSE]
  /\ verdict = [w \in Workers |-> "NONE"]
  /\ victims = {}
  /\ human = 0
  /\ crashes = 0
  /\ crashed = {}

-----------------------------------------------------------------------------
\* The dispatcher: handleEvent(flow.launched) and dispatchQueuedTasksForFlow.

Goto(w, l) == pc' = [pc EXCEPT ![w] = l]

\* Back to the dispatch loop, or out of the handler: its locals are forgotten.
Return(w) ==
  /\ Goto(w, "loop")
  /\ cur' = [cur EXCEPT ![w] = NoTask]
  /\ todo' = [todo EXCEPT ![w] = {}]
  /\ grant' = [grant EXCEPT ![w] = {}]
  /\ conflict' = [conflict EXCEPT ![w] = FALSE]
  /\ verdict' = [verdict EXCEPT ![w] = "NONE"]
  /\ UNCHANGED <<home, scan>>

Leave(w) ==
  /\ Goto(w, "idle")
  /\ home' = [home EXCEPT ![w] = NoFlow]
  /\ UNCHANGED <<cur, scan, todo, grant, conflict, verdict>>

HandleLaunched(w, f) ==
  /\ pc[w] = "idle"
  /\ inbox[<<"launched", f>>] > 0
  /\ Send(<<"launched", f>>, -1)
  /\ home' = [home EXCEPT ![w] = f]
  /\ Goto(w, "loop")
  /\ UNCHANGED <<rows, cur, scan, todo, grant, conflict, verdict,
                 victims, human, crashes, crashed>>

\* POST /api/schedules/tick runs one watchdog pass and dispatches nothing.
Tick(w) ==
  /\ pc[w] = "idle"
  /\ home' = [home EXCEPT ![w] = NoFlow]
  /\ Goto(w, "loop")
  /\ UNCHANGED <<rows, cur, scan, todo, grant, conflict, verdict, env, crashed>>

\* Mutant: a task without a heartbeat entry never counts as expired.
ExpiredByEntry(t) == task[t] = "RUNNING" /\ beat[t] = "old"

\* runTaskTimeoutWatchdog takes the time and reads every RUNNING task.  Only
\* those whose heartbeat has expired by then can be touched by this pass.
Expired(t) == task[t] = "RUNNING" /\ beat[t] \in {"stale", "old"}

BeginSweep(w) ==
  /\ pc[w] = "loop"
  /\ scan' = [scan EXCEPT ![w] =
                {<<t, attempts[t]>> : t \in {u \in Tasks : Expired(u)}}]
  /\ Goto(w, "sweep")
  /\ UNCHANGED <<rows, cur, home, todo, grant, conflict, verdict, env, crashed>>

CanRetry(a) == 0 < a /\ a < MaxAttempts

\* It then overwrites each of them by id, from the row it read.  Without a retry
\* policy in the trace the first attempt is the last.
ExpireTask(w, t, a) ==
  /\ pc[w] = "sweep"
  /\ <<t, a>> \in scan[w]
  /\ RowFree(t)
  /\ scan' = [scan EXCEPT ![w] = @ \ {<<t, a>>}]
  /\ task' = [task EXCEPT ![t] = IF CanRetry(a) THEN "QUEUED" ELSE "ABORTED"]
  /\ attempts' = [attempts EXCEPT ![t] = IF CanRetry(a) THEN a + 1 ELSE a]
  /\ UNCHANGED <<flow, beat, locks, pc, cur, home, todo, grant, conflict,
                 verdict, env, crashed>>

\* After the watchdog pass the dispatcher rereads the flow's status.
CheckFlow(w) ==
  /\ pc[w] = "sweep"
  /\ scan[w] = {}
  /\ IF home[w] # NoFlow /\ flow[home[w]] \notin Blocked
       THEN /\ Goto(w, "pick")
            /\ UNCHANGED <<cur, home, scan, todo, grant, conflict, verdict>>
       ELSE Leave(w)
  /\ UNCHANGED <<rows, env, crashed>>

Queued(f) == {t \in TasksOf(f) : task[t] = "QUEUED"}

\* Mutant: findFirst without orderBy.
PickTaskAny(w) ==
  /\ pc[w] = "pick"
  /\ \/ \E t \in Queued(home[w]) :
          /\ cur' = [cur EXCEPT ![w] = t]
          /\ Goto(w, "load")
          /\ UNCHANGED <<home, scan, todo, grant, conflict, verdict>>
     \/ /\ Queued(home[w]) = {}
        /\ Leave(w)
  /\ UNCHANGED <<rows, env, crashed>>

PickTask(w) ==
  /\ pc[w] = "pick"
  /\ \/ \E t \in Queued(home[w]) :
          /\ \A u \in Queued(home[w]) : Rank[t] <= Rank[u]
          /\ cur' = [cur EXCEPT ![w] = t]
          /\ Goto(w, "load")
          /\ UNCHANGED <<home, scan, todo, grant, conflict, verdict>>
     \/ /\ Queued(home[w]) = {}
        /\ Leave(w)
  /\ UNCHANGED <<rows, env, crashed>>
-----------------------------------------------------------------------------
\* executeTaskById: load, claim, prepare, lock, start, run, report.

LoadTask(w) ==
  /\ pc[w] \in {"load", "reload"}
  /\ IF task[cur[w]] \in Terminal
       THEN Return(w)
       ELSE /\ Goto(w, IF task[cur[w]] = "QUEUED" THEN "claim" ELSE "prep")
            /\ UNCHANGED <<cur, home, scan, todo, grant, conflict, verdict>>
  /\ UNCHANGED <<rows, env, crashed>>

\* A task row without a heartbeat entry is young again once it is written.
Touched(t) == [beat EXCEPT ![t] = IF @ = "stale" THEN "none" ELSE @]

\* updateMany where status = QUEUED; the loser of the race gives the task up.
Claim(w) ==
  LET t == cur[w] IN
  /\ pc[w] = "claim"
  /\ RowFree(t)
  /\ IF task[t] = "QUEUED"
       THEN /\ task' = [task EXCEPT ![t] = "RUNNING"]
            /\ beat' = Touched(t)
            /\ Goto(w, IF Traced(t) THEN "throw" ELSE "beat")
            /\ UNCHANGED <<cur, home, scan, todo, grant, conflict, verdict>>
       ELSE /\ Return(w)
            /\ UNCHANGED <<task, beat>>
  /\ UNCHANGED <<flow, attempts, locks, env, crashed>>

\* touchTaskHeartbeat runs after the claim has committed, never again later.  A
\* watchdog pass under way skips the task, unless it has read the old heartbeat.
Beat(w) ==
  LET t == cur[w] IN
  /\ pc[w] \in {"beat", "rebeat"}
  /\ beat' = [beat EXCEPT ![t] = "fresh"]
  /\ \E late \in SUBSET Workers :
       scan' = [v \in Workers |-> IF v \in late THEN scan[v]
                                  ELSE {r \in scan[v] : r[1] # t}]
  /\ Goto(w, IF pc[w] = "beat" THEN "prep" ELSE "reload")
  /\ UNCHANGED <<flow, task, attempts, locks, cur, home, todo, grant,
                 conflict, verdict, env, crashed>>

\* A handler ends half way: an open transaction rolls back, everything committed
\* stays.
Die(w) ==
  /\ crashed' = IF pc[w] \in Executing THEN crashed \cup {cur[w]} ELSE crashed
  /\ Goto(w, "idle")
  /\ cur' = [cur EXCEPT ![w] = NoTask]
  /\ home' = [home EXCEPT ![w] = NoFlow]
  /\ scan' = [scan EXCEPT ![w] = {}]
  /\ todo' = [todo EXCEPT ![w] = {}]
  /\ grant' = [grant EXCEPT ![w] = {}]
  /\ conflict' = [conflict EXCEPT ![w] = FALSE]
  /\ verdict' = [verdict EXCEPT ![w] = "NONE"]
  /\ UNCHANGED <<rows, inbox, victims, human>>

\* The heartbeat of a traced task refers to the id of the trace, which no Task row
\* has: the insert violates the foreign key and nobody catches what it throws.
BeatThrows(w) ==
  /\ pc[w] = "throw"
  /\ Die(w)
  /\ UNCHANGED crashes

\* Context, policy, approvals and tools are in order: acquireTaskFileLocks.
Prepared(w) ==
  /\ pc[w] = "prep"
  /\ todo' = [todo EXCEPT ![w] = Needs[cur[w]]]
  /\ grant' = [grant EXCEPT ![w] = {}]
  /\ conflict' = [conflict EXCEPT ![w] = FALSE]
  /\ Goto(w, "lock")
  /\ UNCHANGED <<rows, cur, home, scan, verdict, env, crashed>>

\* One findFirst over the committed active locks, one insert if there is none.
LockFile(w, f) ==
  /\ pc[w] = "lock"
  /\ f \in todo[w]
  /\ todo' = [todo EXCEPT ![w] = @ \ {f}]
  /\ \/ /\ \E o \in Owners(f) : o # cur[w]
        /\ conflict' = [conflict EXCEPT ![w] = TRUE]
        /\ UNCHANGED grant
     \/ /\ Owners(f) = {}
        /\ grant' = [grant EXCEPT ![w] = @ \cup {f}]
        /\ UNCHANGED conflict
     \/ /\ cur[w] \in Owners(f)
        /\ UNCHANGED <<grant, conflict>>
  /\ UNCHANGED <<rows, pc, cur, home, scan, verdict, env, crashed>>

LockCommit(w) ==
  /\ pc[w] = "lock"
  /\ todo[w] = {}
  /\ ~conflict[w]
  /\ locks' = locks \cup (grant[w] \X {cur[w]})
  /\ Goto(w, "start")
  /\ UNCHANGED <<flow, task, attempts, beat, cur, home, scan, todo, grant,
                 conflict, verdict, env, crashed>>

\* The start transaction tests neither status.
Start(w) ==
  LET t == cur[w] IN
  /\ pc[w] = "start"
  /\ RowFree(t)
  /\ task' = [task EXCEPT ![t] = "RUNNING"]
  /\ beat' = Touched(t)
  /\ flow' = [flow EXCEPT ![FlowOf[t]] = "ACTIVE"]
  /\ Goto(w, "run")
  /\ UNCHANGED <<attempts, locks, cur, home, scan, todo, grant, conflict,
                 verdict, env, crashed>>

-----------------------------------------------------------------------------
\* The reports: handleEvent(task.paused / task.failed / task.completed), called
\* by the execution itself.  Each releases the task's locks in the transaction
\* that writes its status, whatever that status was.

\* Mutant: the report forgets releaseTaskFileLocks.
SettleOnly(t, ts, fs) ==
  /\ RowFree(t)
  /\ task' = [task EXCEPT ![t] = ts]
  /\ flow' = [flow EXCEPT ![FlowOf[t]] = fs]
  /\ crashed' = crashed \ {t}
  /\ UNCHANGED <<beat, locks>>

Settle(t, ts, fs) ==
  /\ RowFree(t)
  /\ task' = [task EXCEPT ![t] = ts]
  /\ flow' = [flow EXCEPT ![FlowOf[t]] = fs]
  /\ locks' = locks \ Locked(t)
  /\ crashed' = crashed \ {t}
  /\ UNCHANGED beat

BlockedOnLock(w) == pc[w] = "lock" /\ todo[w] = {} /\ conflict[w]

\* Mutant: an execution that finds a file locked returns without a report.
PauseRunQuiet(w) ==
  /\ pc[w] \in {"prep", "run"} \/ BlockedOnLock(w)
  /\ IF BlockedOnLock(w) THEN UNCHANGED <<rows, crashed>>
                         ELSE Settle(cur[w], "PAUSED", "PAUSED")
  /\ Return(w)
  /\ UNCHANGED <<attempts, env>>

\* Missing input, approval or integration, a locked file, an unusable answer.
PauseRun(w) ==
  /\ pc[w] \in {"prep", "run"} \/ BlockedOnLock(w)
  /\ Settle(cur[w], "PAUSED", "PAUSED")
  /\ Return(w)
  /\ UNCHANGED <<attempts, env>>

\* A run that failed reports its own trace, a preparation that failed none.
FailRun(w) ==
  /\ pc[w] \in {"prep", "run"}
  /\ Settle(cur[w], "FAILED", "FAILED")
  /\ attempts' = [attempts EXCEPT ![cur[w]] = IF pc[w] = "run" THEN 0 ELSE @]
  /\ Return(w)
  /\ UNCHANGED env

\* Mutant: the first completed task completes the flow.
FlowAfterFirst(f, seen) ==
  LET st == {seen[t] : t \in TasksOf(f)} IN
  IF "FAILED" \in st THEN "FAILED"
  ELSE IF "COMPLETED" \in st THEN "COMPLETED"
  ELSE IF st \cap {"RUNNING", "PAUSED"} # {} THEN "ACTIVE"
  ELSE "QUEUED"

\* The flow status a completion writes, from the statuses it can see.
FlowAfter(f, seen) ==
  LET st == {seen[t] : t \in TasksOf(f)} IN
  IF "FAILED" \in st THEN "FAILED"
  ELSE IF st = {"COMPLETED"} THEN "COMPLETED"
  ELSE IF st \cap {"RUNNING", "PAUSED"} # {} THEN "ACTIVE"
  ELSE "QUEUED"

\* Mutant: the statuses are read before the transaction writes its own.
CompleteReadFirst(w) ==
  LET t == cur[w] IN
  /\ pc[w] = "run"
  /\ RowFree(t)
  /\ verdict' = [verdict EXCEPT ![w] = FlowAfter(FlowOf[t], task)]
  /\ Goto(w, "commit")
  /\ UNCHANGED <<rows, cur, home, scan, todo, grant, conflict, env, crashed>>

CompleteRead(w) ==
  LET t == cur[w] IN
  /\ pc[w] = "run"
  /\ RowFree(t)
  /\ verdict' = [verdict EXCEPT ![w] =
                   FlowAfter(FlowOf[t], [task EXCEPT ![t] = "COMPLETED"])]
  /\ Goto(w, "commit")
  /\ UNCHANGED <<rows, cur, home, scan, todo, grant, conflict, env, crashed>>

\* The trace of the run replaces the one the launch wrote.
CompleteCommit(w) ==
  LET t == cur[w] IN
  /\ pc[w] = "commit"
  /\ task' = [task EXCEPT ![t] = "COMPLETED"]
  /\ flow' = [flow EXCEPT ![FlowOf[t]] = verdict[w]]
  /\ attempts' = [attempts EXCEPT ![t] = 0]
  /\ locks' = locks \ Locked(t)
  /\ crashed' = crashed \ {t}
  /\ Return(w)
  /\ UNCHANGED <<beat, env>>

-----------------------------------------------------------------------------
\* Events of the human routes, delivered by publishInngestEvent and by a direct
\* kick: late, twice or never.

\* handleEvent(task.paused) does not look at the status it overwrites.
HandlePaused(t) ==
  /\ inbox[<<"paused", t>>] > 0
  /\ Send(<<"paused", t>>, -1)
  /\ Settle(t, "PAUSED", "PAUSED")
  /\ UNCHANGED <<attempts, local, victims, human, crashes>>

\* Mutant: the claim of task.resumed does not test the status.
HandleResumedAny(w, t) ==
  /\ pc[w] = "idle"
  /\ inbox[<<"resumed", t>>] > 0
  /\ RowFree(t)
  /\ Send(<<"resumed", t>>, -1)
  /\ task' = [task EXCEPT ![t] = "RUNNING"]
  /\ beat' = Touched(t)
  /\ flow' = [flow EXCEPT ![FlowOf[t]] = "ACTIVE"]
  /\ cur' = [cur EXCEPT ![w] = t]
  /\ home' = [home EXCEPT ![w] = FlowOf[t]]
  /\ Goto(w, IF Traced(t) THEN "throw" ELSE "rebeat")
  /\ UNCHANGED <<attempts, locks, scan, todo, grant, conflict, verdict,
                 victims, human, crashes, crashed>>

\* handleEvent(task.resumed) claims the task itself, then executes it and goes
\* on to dispatch the flow; a second delivery finds nothing to claim.
HandleResumed(w, t) ==
  /\ pc[w] = "idle"
  /\ inbox[<<"resumed", t>>] > 0
  /\ RowFree(t)
  /\ Send(<<"resumed", t>>, -1)
  /\ IF task[t] \in {"QUEUED", "PAUSED"}
       THEN /\ task' = [task EXCEPT ![t] = "RUNNING"]
            /\ beat' = Touched(t)
            /\ flow' = [flow EXCEPT ![FlowOf[t]] = "ACTIVE"]
            /\ cur' = [cur EXCEPT ![w] = t]
            /\ home' = [home EXCEPT ![w] = FlowOf[t]]
            /\ Goto(w, IF Traced(t) THEN "throw" ELSE "rebeat")
       ELSE UNCHANGED <<task, beat, flow, cur, home, pc>>
  /\ UNCHANGED <<attempts, locks, scan, todo, grant, conflict, verdict,
                 victims, human, crashes, crashed>>

-----------------------------------------------------------------------------
\* The HTTP routes.

\* POST /api/flows with enough signatures: the flow and its tasks in one
\* transaction, then the event.
Launch(f) ==
  /\ f \notin Branches
  /\ flow[f] = "NONE"
  /\ flow' = [flow EXCEPT ![f] = "QUEUED"]
  /\ task' = [t \in Tasks |-> IF FlowOf[t] = f THEN "QUEUED" ELSE task[t]]
  /\ attempts' = [t \in Tasks |-> IF FlowOf[t] = f THEN 1 ELSE attempts[t]]
  /\ \E n \in Copies : Send(<<"launched", f>>, n)
  /\ UNCHANGED <<beat, locks, local, victims, human, crashes, crashed>>

HumanCall(op) ==
  /\ op \in HumanOps
  /\ human < MaxHuman
  /\ human' = human + 1

\* POST /api/tasks/[taskId]/pause: any status becomes PAUSED.
PauseRoute(t) ==
  /\ HumanCall("pause")
  /\ task[t] # "NONE"
  /\ Settle(t, "PAUSED", "PAUSED")
  /\ \E n \in 0..1 : Send(<<"paused", t>>, n)
  /\ UNCHANGED <<attempts, local, victims, crashes>>

Requeue(t) ==
  /\ RowFree(t)
  /\ task' = [task EXCEPT ![t] = "QUEUED"]
  /\ flow' = [flow EXCEPT ![FlowOf[t]] = "ACTIVE"]
  /\ \E n \in Copies : Send(<<"resumed", t>>, n)
  /\ UNCHANGED <<attempts, beat, locks, local, victims, crashes, crashed>>

\* POST /api/tasks/[taskId]/resume: any status becomes QUEUED.
ResumeRoute(t) ==
  /\ HumanCall("resume")
  /\ task[t] # "NONE"
  /\ Requeue(t)

\* POST /api/approvals/checkpoints/[id]/resolve, the last approval of a task.
ResolveRoute(t) ==
  /\ HumanCall("resolve")
  /\ task[t] \in {"PAUSED", "QUEUED"}
  /\ Requeue(t)

\* POST /api/kill-switch reads the flows first and aborts them by id later.
KillRead ==
  /\ HumanCall("kill")
  /\ victims = {}
  /\ victims' = {f \in Flows : flow[f] \in {"QUEUED", "ACTIVE", "PAUSED"}}
  /\ UNCHANGED <<rows, local, inbox, crashes, crashed>>

KillCommit ==
  /\ victims # {}
  /\ \A t \in Tasks : FlowOf[t] \in victims => RowFree(t)
  /\ flow' = [f \in Flows |-> IF f \in victims THEN "ABORTED" ELSE flow[f]]
  /\ task' = [t \in Tasks |->
                IF FlowOf[t] \in victims /\ task[t] \in {"QUEUED", "RUNNING", "PAUSED"}
                THEN "ABORTED" ELSE task[t]]
  /\ locks' = {l \in locks : FlowOf[l[2]] \notin victims}
  /\ crashed' = {t \in crashed : FlowOf[t] \notin victims}
  /\ victims' = {}
  /\ UNCHANGED <<attempts, beat, local, inbox, human, crashes>>

\* POST /api/tasks/[taskId]/rewind forks a new flow of one task, whose trace has
\* no normalizedTask.  There are as many rewinds as Branches.
Rewind(t, g) ==
  /\ "rewind" \in HumanOps
  /\ task[t] \in Terminal
  /\ g \in Branches
  /\ flow[g] = "NONE"
  /\ \E u \in Tasks :
       /\ TasksOf(g) = {u}
       /\ Needs[u] = Needs[t]
       /\ task' = [task EXCEPT ![u] = "QUEUED"]
  /\ flow' = [flow EXCEPT ![g] = "QUEUED"]
  /\ \E n \in Copies : Send(<<"launched", g>>, n)
  /\ UNCHANGED <<attempts, beat, locks, local, victims, human, crashes, crashed>>

-----------------------------------------------------------------------------
\* The environment: time passes, handlers die.

\* The heartbeat outlives its timeout: of a task in no handler's hands at any
\* time, of another only if handlers may be that slow.
Age(t) ==
  /\ SlowRuns \/ \A w \in Workers : cur[w] # t
  /\ \/ beat[t] = "fresh" /\ beat' = [beat EXCEPT ![t] = "old"]
     \/ /\ beat[t] = "none"
        /\ task[t] = "RUNNING"
        /\ beat' = [beat EXCEPT ![t] = "stale"]
  /\ UNCHANGED <<flow, task, attempts, locks, local, env, crashed>>

\* The server restarts, or a handler throws for a reason not modelled.
Crash(w) ==
  /\ crashes < MaxCrashes
  /\ pc[w] # "idle"
  /\ crashes' = crashes + 1
  /\ Die(w)

-----------------------------------------------------------------------------
Sweep(w) ==
  \/ BeginSweep(w)
  \/ \E t \in Tasks, a \in 0..MaxAttempts : ExpireTask(w, t, a)

Dispatch(w) == CheckFlow(w) \/ PickTask(w)

Execute(w) ==
  \/ LoadTask(w) \/ Claim(w) \/ Beat(w) \/ BeatThrows(w) \/ Prepared(w)
  \/ \E f \in Files : LockFile(w, f)
  \/ LockCommit(w) \/ Start(w)

Report(w) == PauseRun(w) \/ FailRun(w) \/ CompleteRead(w) \/ CompleteCommit(w)

Deliver(w) ==
  \/ \E f \in Flows : HandleLaunched(w, f)
  \/ \E t \in Tasks : HandleResumed(w, t)

Human ==
  \/ \E f \in Flows : Launch(f)
  \/ \E t \in Tasks : PauseRoute(t) \/ ResumeRoute(t) \/ ResolveRoute(t)
  \/ KillRead \/ KillCommit
  \/ \E t \in Tasks, g \in Flows : Rewind(t, g)

Work(w) == Sweep(w) \/ Dispatch(w) \/ Execute(w) \/ Report(w)

Next ==
  \/ \E w \in Workers : Work(w) \/ Deliver(w) \/ Tick(w) \/ Crash(w)
  \/ \E t \in Tasks : HandlePaused(t) \/ Age(t)
  \/ Human

Spec == Init /\ [][Next]_vars

\* A handler that has started runs on, and the server takes up a request.
FairSpec ==
  /\ Spec
  /\ \A w \in Workers : WF_vars(Work(w))
  /\ SF_vars(\E w \in Workers : Deliver(w))

\* ... the scheduler calls /api/schedules/tick again and again, and time passes.
TickingSpec ==
  /\ FairSpec
  /\ \A w \in Workers : SF_vars(Tick(w))
  /\ \A t \in Tasks : WF_vars(Age(t))

-----------------------------------------------------------------------------
\* Properties.

\* Whatever the routes, the watchdog and redelivered events do, a RUNNING row
\* is backed by a handler that executes the task, unless one died on it since
\* its last report.  (The watchdog exists for exactly the exception.)
RunningHasExecutor ==
  \A t \in Tasks : task[t] = "RUNNING" =>
    t \in crashed \/ \E w \in Workers : Executes(w, t)

\* A file lock never outlives the executions of its task: every active lock has
\* a handler of that task past its lock transaction that will still report.
LockHasExecutor ==
  \A l \in locks :
    l[2] \in crashed \/ \E w \in Workers : cur[w] = l[2] /\ pc[w] \in HoldsLocks

\* A finished or killed task is reopened only by a handler that was already
\* executing it, by a watchdog pass that had read it as RUNNING, or by a human's
\* pause or resume: no late or repeated flow.launched or task.resumed event,
\* dispatch pass or other task does it.
TerminalIsFinal ==
  [][\A t \in Tasks :
       task[t] \in Terminal /\ task'[t] # task[t] =>
         \/ \E w \in Workers : Executes(w, t) \/ \E a \in 0..MaxAttempts : <<t, a>> \in scan[w]
         \/ human' > human
         \/ inbox'[<<"paused", t>>] < inbox[<<"paused", t>>]]_vars

\* Of the order of a flow's tasks this is left, however many dispatchers a flow
\* has: no task begins while an earlier one of its flow has never begun.  (An
\* earlier one may wait for its retry.)
BegunInOrder ==
  [][\A t, e \in Tasks :
       /\ FlowOf[e] = FlowOf[t]
       /\ Rank[e] < Rank[t]
       /\ task[t] = "QUEUED"
       /\ task'[t] = "RUNNING"
       => task[e] # "QUEUED" \/ attempts[e] > 1]_vars

\* A flow reported as COMPLETED has no task left to do.
CompletedFlowIsDone ==
  \A f \in Flows : flow[f] = "COMPLETED" =>
    \A t \in TasksOf(f) : task[t] = "COMPLETED"

\* A file is locked by one task at a time.
LockExclusive ==
  \A f \in Files : Cardinality(Owners(f)) <= 1

\* A flow that a rewind forked comes to rest: completed, failed, aborted or
\* waiting for a human, unless a handler died: nobody dispatches a task again.
FlowSettles ==
  \A f \in Branches : flow[f] = "QUEUED" ~> flow[f] \in Blocked \/ crashes > 0

\* A flow that the kill switch aborted stays aborted.
KillIsFinal == [][\A f \in Flows : flow[f] = "ABORTED" => flow'[f] = "ABORTED"]_vars

\* A task whose handler died does not stay RUNNING.
CrashedTaskIsFreed ==
  \A t \in Tasks : (task[t] = "RUNNING" /\ t \in crashed) ~> task[t] # "RUNNING"

=============================================================================
