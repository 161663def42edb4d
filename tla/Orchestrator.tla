---------------------------- MODULE Orchestrator ----------------------------
(***************************************************************************)
(* The Inngest orchestrator of src/inngest/functions: a request starts the *)
(* agent runner, which starts the planner; the planner starts one executor *)
(* per task, each executor a reviewer; the reviewer that counts the last   *)
(* task publishes the review, which starts the memory writer and answers   *)
(* the runner.  One workflow id, one request id.                           *)
(*                                                                         *)
(* A run is one event handled by one function.  Inngest runs a function    *)
(* step by step, keeps the result of each step, and executes a step again  *)
(* if its result does not arrive.  An action is one step, or one half of a *)
(* step that reads the workflow state or a key and then writes it.         *)
(***************************************************************************)
EXTENDS Naturals, Sequences, FiniteSets

CONSTANTS
  Task,      \* the tasks of the plan
  Copies,    \* bound: events of one function about one task
  Requests,  \* bound: times a client sends agent/run
  RedisUp,   \* what getRedisClient may find: TRUE connected, FALSE not
  Lossy,     \* functions whose steps' results may get lost
  MaxLost,   \* bound: steps whose result does not arrive
  Failing,   \* functions whose steps may fail for good
  MaxFails,  \* bound: steps that fail for good, waits and locks that time out
  NoTask, NoRun

ASSUME OrchestratorAssumption ==
  /\ IsFiniteSet(Task) /\ Task # {}
  /\ Copies \in Nat \ {0}
  /\ Requests \in 1..Copies
  /\ RedisUp \subseteq BOOLEAN /\ RedisUp # {}
  /\ Lossy \cup Failing \subseteq
       {"runner", "planner", "executor", "reviewer", "writer"}
  /\ MaxLost \in Nat
  /\ MaxFails \in Nat
  /\ NoTask \notin Task

\* What an event asks for: a function, and for some functions a task.
Job == ({"runner", "planner", "writer"} \X {NoTask})
         \cup ({"executor", "reviewer"} \X Task)
Run == [job : Job, copy : 1..Copies]

TheRunner   == <<"runner", NoTask>>
ThePlanner  == <<"planner", NoTask>>
TheWriter   == <<"writer", NoTask>>
Executor(t) == <<"executor", t>>
Reviewer(t) == <<"reviewer", t>>

ASSUME NoRunAssumption == NoRun \notin Run

\* Idempotency scope and key: one per job, one for the final review.
Final == <<"final", NoTask>>
Key   == Job \cup {Final}

Verdict == {"approved", "incomplete"}

\* The workflow state is the set of tasks whose result is in it; its other
\* fields, finalReview among them, are written and never read again.
WorkflowState == SUBSET Task
NoState       == {NoTask}

KeyStatus == {"NONE", "IN_PROGRESS", "SUCCEEDED", "FAILED"}
Entry     == [status : KeyStatus, hash : Nat]
NoEntry   == [status |-> "NONE", hash |-> 0]

VARIABLES
  keys,     \* IdempotencyKey rows
  cache,    \* their copies in Redis
  store,    \* the workflow state: in Redis, and in the process's own map
  counter,  \* workflow:<id>:completed
  lock,     \* lock:workflow:<id>:review
  expired,  \* history: the runs under which that lock ran out
  reviews,  \* the reviews published with workflow/completed
  memory,   \* number of review rows in the long-term memory
  pc,       \* the next step of each run, "none" before its event is sent
  state,    \* the workflow state a run carries: returned by its append step,
            \* or, for the writer, sent with the event
  current,  \* what a patch of the workflow state has read
  count,    \* completedTasks of a reviewer
  lost,     \* steps whose result did not arrive, so far
  fails     \* such failures so far

idempotency == <<keys, cache>>
redis == <<store, counter, lock, expired>>
local == <<state, current, count>>
vars  == <<idempotency, redis, reviews, memory, pc, local, lost, fails>>

Finalising == {"persist", "save", "tellWriter", "tellRunner", "markFinal"}
Locked     == Finalising \cup {"claimFinal", "insertFinal", "updateFinal",
                              "markLocked", "release"}
Ended      == {"refused", "done", "failed"}
PCs == Locked \cup Ended \cup
       {"none", "claim", "insert", "update", "emit", "register", "wait", "mark",
        "seed", "append", "add", "count", "lock", "write", "sync", "syncSave",
        "unwind", "markFailed"}

TypeOK ==
  /\ keys \in [Key -> Entry]
  /\ cache \in [Key -> Entry]
  /\ store \in [BOOLEAN -> WorkflowState \cup {NoState}]
  /\ counter \in Nat
  /\ lock \in Run \cup {NoRun}
  /\ expired \subseteq Run
  /\ reviews \in Seq(Verdict)
  /\ memory \in Nat
  /\ pc \in [Run -> PCs]
  /\ state \in [Run -> WorkflowState \cup {NoState}]
  /\ current \in [Run -> WorkflowState \cup {NoState}]
  /\ count \in [Run -> Nat]
  /\ lost \in Nat
  /\ fails \in Nat

Init ==
  /\ keys = [k \in Key |-> NoEntry]
  /\ cache = [k \in Key |-> NoEntry]
  /\ store = [up \in BOOLEAN |-> NoState]
  /\ counter = 0
  /\ lock = NoRun
  /\ expired = {}
  /\ reviews = <<>>
  /\ memory = 0
  /\ pc = [r \in Run |-> "none"]
  /\ state = [r \in Run |-> NoState]
  /\ current = [r \in Run |-> NoState]
  /\ count = [r \in Run |-> 0]
  /\ lost = 0
  /\ fails = 0

(***************************************************************************)
(* Steps and events                                                        *)
(***************************************************************************)

\* The step's result arrives and the run goes to next, or it does not and the
\* run will execute the step again, from its first half.
Outcome(r, to, next, again) ==
  \/ to = next /\ UNCHANGED lost
  \/ to = again /\ r.job[1] \in Lossy /\ lost < MaxLost /\ lost' = lost + 1

Goto(r, next, again) ==
  \E to \in {next, again} :
    /\ Outcome(r, to, next, again)
    /\ pc' = [pc EXCEPT ![r] = to]

Step(r, here, next) == pc[r] = here /\ Goto(r, next, here)

Sent(j, c)   == pc[[job |-> j, copy |-> c]] # "none"
IsSent(j)    == \E c \in 1..Copies : Sent(j, c)
IsNext(j, c) == ~Sent(j, c) /\ \A d \in 1..(c - 1) : Sent(j, d)

\* step.sendEvent of one event for each of the jobs.
EmitStep(r, here, jobs, next) ==
  /\ pc[r] = here
  /\ \E c \in 1..Copies, to \in {next, here} :
       /\ \A j \in jobs : IsNext(j, c)
       /\ Outcome(r, to, next, here)
       /\ pc' = [q \in Run |-> IF q = r THEN to
                               ELSE IF q.job \in jobs /\ q.copy = c
                               THEN "claim" ELSE pc[q]]

(***************************************************************************)
(* Idempotency keys.  An event sent again carries a new createdAt, which is *)
(* part of what every function but the runner hashes.  claimIdempotency    *)
(* looks at the key, in Redis and in the table, and is refused, or goes on *)
(* to create the row or to update the one it has seen, by id: the insert   *)
(* fails if there is a row by then, the update asks for nothing.           *)
(***************************************************************************)

Hash(r) == IF r.job = TheRunner THEN 1 ELSE r.copy

\* Mutant: a claim that overlooks work in progress.
BlocksIfSucceeded(entry, hash) == entry.status = "SUCCEEDED" /\ entry.hash = hash

Blocks(entry, hash) ==
  \/ entry.status = "IN_PROGRESS"
  \/ entry.status = "SUCCEEDED" /\ entry.hash = hash

Free(k, hash, up) == (up => ~Blocks(cache[k], hash)) /\ ~Blocks(keys[k], hash)

Refuse(k, hash, up) ==
  /\ \/ up /\ Blocks(cache[k], hash) /\ UNCHANGED cache
     \/ /\ up => ~Blocks(cache[k], hash)
        /\ Blocks(keys[k], hash)
        /\ cache' = IF up THEN [cache EXCEPT ![k] = keys[k]] ELSE cache
  /\ UNCHANGED keys

IsNew(k) == keys[k].status = "NONE"

\* The look of a claim: what the run does next, or nothing of it.
LookAt(r, k, hash, refused, insert, update) ==
  \E up \in RedisUp :
    \/ /\ Free(k, hash, up)
       /\ pc' = [pc EXCEPT ![r] = IF IsNew(k) THEN insert ELSE update]
       /\ UNCHANGED <<idempotency, lost>>
    \/ Goto(r, refused, pc[r]) /\ Refuse(k, hash, up)

Acquire(k, hash) ==
  LET claimed == [status |-> "IN_PROGRESS", hash |-> hash]
  IN /\ keys' = [keys EXCEPT ![k] = claimed]
     /\ \E up \in RedisUp : cache' = IF up THEN [cache EXCEPT ![k] = claimed] ELSE cache

\* The write of a claim.  A step that throws is executed again.
WriteClaim(r, k, hash, insert, next, again) ==
  \/ /\ pc[r] = insert => IsNew(k)
     /\ Acquire(k, hash)
     /\ Goto(r, next, again)
  \/ /\ pc[r] = insert /\ ~IsNew(k)
     /\ pc' = [pc EXCEPT ![r] = again]
     /\ UNCHANGED <<idempotency, lost>>

Settle(k, status, up) ==
  /\ keys' = [keys EXCEPT ![k].status = status]
  /\ cache' = IF up THEN [cache EXCEPT ![k] = [keys[k] EXCEPT !.status = status]]
                    ELSE cache

FirstStep(fn) ==
  CASE fn = "runner"   -> "emit"
    [] fn = "planner"  -> "seed"
    [] fn = "executor" -> "emit"
    [] fn = "reviewer" -> "append"
    [] fn = "writer"   -> "write"

Look(r) ==
  /\ pc[r] = "claim"
  /\ LookAt(r, r.job, Hash(r), "refused", "insert", "update")
  /\ UNCHANGED <<redis, reviews, memory, local, fails>>

Claim(r) ==
  /\ pc[r] \in {"insert", "update"}
  /\ WriteClaim(r, r.job, Hash(r), "insert", FirstStep(r.job[1]), "claim")
  /\ UNCHANGED <<redis, reviews, memory, local, fails>>

\* idempotency-mark-success, the last step but for the release of the lock.
MarkSuccess(r) ==
  /\ Step(r, "mark", "done") \/ Step(r, "markLocked", "release")
  /\ \E up \in RedisUp : Settle(r.job, "SUCCEEDED", up)
  /\ UNCHANGED <<redis, reviews, memory, local, fails>>

(***************************************************************************)
(* Agent runner                                                            *)
(***************************************************************************)

\* A client sends agent/run, or sends it once more.
Request ==
  /\ \E c \in 1..Requests :
       /\ IsNext(TheRunner, c)
       /\ pc' = [pc EXCEPT ![[job |-> TheRunner, copy |-> c]] = "claim"]
  /\ UNCHANGED <<idempotency, redis, reviews, memory, local, lost, fails>>

StartPlanner(r) ==
  /\ r.job = TheRunner
  /\ EmitStep(r, "emit", {ThePlanner}, "register")
  /\ UNCHANGED <<idempotency, redis, reviews, memory, local, fails>>

\* Only an event sent after this is the answer the runner waits for.
Register(r) ==
  /\ pc[r] = "register"
  /\ pc' = [pc EXCEPT ![r] = "wait"]
  /\ UNCHANGED <<idempotency, redis, reviews, memory, local, lost, fails>>

Timeout(r) ==
  /\ pc[r] = "wait"
  /\ fails < MaxFails
  /\ pc' = [pc EXCEPT ![r] = "markFailed"]
  /\ fails' = fails + 1
  /\ UNCHANGED <<idempotency, redis, reviews, memory, local, lost>>

(***************************************************************************)
(* Planner and executor.  Building the plan and executing a task are pure, *)
(* and an executed task is always COMPLETED.                               *)
(***************************************************************************)

\* persist-plan-memory and seed-short-term-state; nobody reads the plan memory.
Seed(r) ==
  /\ Step(r, "seed", "emit")
  /\ \E up \in RedisUp : store' = [store EXCEPT ![up] = {}]
  /\ UNCHANGED <<idempotency, counter, lock, expired, reviews, memory, local, fails>>

\* Mutant: the planner marks its key before it has sent the tasks.
MarkBeforeStart(r) ==
  /\ r.job = ThePlanner
  /\ pc[r] = "emit"
  /\ keys' = [keys EXCEPT ![r.job].status = "SUCCEEDED"]
  /\ pc' = [pc EXCEPT ![r] = "mark"]
  /\ UNCHANGED <<cache, redis, reviews, memory, local, lost, fails>>

StartExecutors(r) ==
  /\ r.job = ThePlanner
  /\ EmitStep(r, "emit", {Executor(t) : t \in Task}, "mark")
  /\ UNCHANGED <<idempotency, redis, reviews, memory, local, fails>>

StartReviewer(r) ==
  /\ r.job[1] = "executor"
  /\ EmitStep(r, "emit", {Reviewer(r.job[2])}, "mark")
  /\ UNCHANGED <<idempotency, redis, reviews, memory, local, fails>>

(***************************************************************************)
(* Reviewer.  patchWorkflowState asks for a lock but goes on without it,   *)
(* so its read and its write are two actions.                              *)
(***************************************************************************)

AppendRead(r) ==
  /\ pc[r] = "append"
  /\ \E up \in RedisUp :
       /\ current' = [current EXCEPT ![r] = store[up]]
       /\ IF store[up] = NoState THEN Goto(r, "markFailed", "append")
                                 ELSE Goto(r, "add", "append")
  /\ UNCHANGED <<idempotency, redis, reviews, memory, state, count, fails>>

\* Mutant: the result is kept under the job instead of the task.
AppendByJob(r) ==
  /\ pc[r] = "add"
  /\ \E up \in RedisUp :
       LET next == current[r] \cup {r.job}
       IN /\ store' = [store EXCEPT ![up] = next]
          /\ state' = [state EXCEPT ![r] = next]
  /\ current' = [current EXCEPT ![r] = NoState]
  /\ Goto(r, "count", "append")
  /\ UNCHANGED <<idempotency, counter, lock, expired, reviews, memory, count, fails>>

AppendWrite(r) ==
  /\ pc[r] = "add"
  /\ \E up \in RedisUp :
       LET next == current[r] \cup {r.job[2]}
       IN /\ store' = [store EXCEPT ![up] = next]
          /\ state' = [state EXCEPT ![r] = next]
  /\ current' = [current EXCEPT ![r] = NoState]
  /\ Goto(r, "count", "append")
  /\ UNCHANGED <<idempotency, counter, lock, expired, reviews, memory, count, fails>>

\* Mutant: the reviewer that completes the last task but one is the last.
CountEarly(r) ==
  /\ pc[r] = "count"
  /\ counter' = counter + 1
  /\ count' = [count EXCEPT ![r] = counter + 1]
  /\ Goto(r, IF counter + 2 < Cardinality(Task) THEN "mark" ELSE "lock", "count")
  /\ UNCHANGED <<idempotency, store, lock, expired, reviews, memory, state, current, fails>>

\* Mutant: the tasks are counted in the state the append has returned.
CountAgain(r) ==
  /\ pc[r] = "count"
  /\ count' = [count EXCEPT ![r] = Cardinality(state[r])]
  /\ Goto(r, IF count'[r] < Cardinality(Task) THEN "mark" ELSE "lock", "count")
  /\ UNCHANGED <<idempotency, redis, reviews, memory, state, current, fails>>

\* increment-completed-counter, and the comparison that follows.
Count(r) ==
  /\ pc[r] = "count"
  /\ \E up \in RedisUp :
       LET completed == IF up THEN counter + 1 ELSE Cardinality(state[r])
       IN /\ counter' = IF up THEN counter + 1 ELSE counter
          /\ count' = [count EXCEPT ![r] = completed]
          /\ Goto(r, IF completed < Cardinality(Task) THEN "mark" ELSE "lock", "count")
  /\ UNCHANGED <<idempotency, store, lock, expired, reviews, memory, state, current, fails>>

AcquireLock(r) ==
  /\ \E up \in RedisUp :
       \/ Step(r, "lock", "claimFinal") /\ up /\ lock = NoRun /\ lock' = r
       \/ Step(r, "lock", "mark") /\ ~(up /\ lock = NoRun) /\ UNCHANGED lock
  /\ UNCHANGED <<idempotency, store, counter, expired, reviews, memory, local, fails>>

\* Its ttl is ten seconds.
LockExpires ==
  /\ lock # NoRun
  /\ fails < MaxFails
  /\ lock' = NoRun
  /\ expired' = expired \cup {lock}
  /\ fails' = fails + 1
  /\ UNCHANGED <<idempotency, store, counter, reviews, memory, pc, local, lost>>

LookFinal(r) ==
  /\ pc[r] = "claimFinal"
  /\ LookAt(r, Final, count[r], "markLocked", "insertFinal", "updateFinal")
  /\ UNCHANGED <<redis, reviews, memory, local, fails>>

ClaimFinal(r) ==
  /\ pc[r] \in {"insertFinal", "updateFinal"}
  /\ WriteClaim(r, Final, count[r], "insertFinal", "persist", "claimFinal")
  /\ UNCHANGED <<redis, reviews, memory, local, fails>>

\* Mutant: a review of the results it has, not of the plan.
ReviewByCount(s) == IF s # {} THEN "approved" ELSE "incomplete"

\* reviewWorkflowDeterministically
Review(s) == IF s = Task THEN "approved" ELSE "incomplete"

PersistRead(r) ==
  /\ pc[r] = "persist"
  /\ \E up \in RedisUp :
       /\ current' = [current EXCEPT ![r] = store[up]]
       /\ IF store[up] = NoState THEN Goto(r, "tellWriter", "persist")
                                 ELSE Goto(r, "save", "persist")
  /\ UNCHANGED <<idempotency, redis, reviews, memory, state, count, fails>>

PersistWrite(r) ==
  /\ pc[r] = "save"
  /\ \E up \in RedisUp :
       store' = [store EXCEPT ![up] = current[r]]
  /\ current' = [current EXCEPT ![r] = NoState]
  /\ Goto(r, "tellWriter", "persist")
  /\ UNCHANGED <<idempotency, counter, lock, expired, reviews, memory, state, count, fails>>

TellWriter(r) ==
  /\ EmitStep(r, "tellWriter", {TheWriter}, "tellRunner")
  /\ state' = [q \in Run |-> IF q.job = TheWriter /\ pc[q] = "none" /\ pc'[q] = "claim"
                             THEN state[r] ELSE state[q]]
  /\ UNCHANGED <<idempotency, redis, reviews, memory, current, count, fails>>

TellRunner(r) ==
  /\ pc[r] = "tellRunner"
  /\ reviews' = Append(reviews, Review(state[r]))
  /\ \E to \in {"markFinal", "tellRunner"} :
       /\ Outcome(r, to, "markFinal", "tellRunner")
       /\ pc' = [q \in Run |-> IF q = r THEN to
                               ELSE IF pc[q] = "wait" THEN "mark" ELSE pc[q]]
  /\ UNCHANGED <<idempotency, redis, memory, local, fails>>

MarkFinal(r) ==
  /\ Step(r, "markFinal", "markLocked")
  /\ \E up \in RedisUp : Settle(Final, "SUCCEEDED", up)
  /\ UNCHANGED <<redis, reviews, memory, local, fails>>

\* The lock is deleted if it still holds the token of this run.
Release(r) ==
  /\ Step(r, "release", "done") \/ Step(r, "unwind", "markFailed")
  /\ \E up \in RedisUp :
       lock' = IF up /\ lock = r THEN NoRun ELSE lock
  /\ UNCHANGED <<idempotency, store, counter, expired, reviews, memory, local, fails>>

(***************************************************************************)
(* Memory writer                                                           *)
(***************************************************************************)

WriteReview(r) ==
  /\ r.job = TheWriter
  /\ Step(r, "write", "sync")
  /\ memory' = memory + 1
  /\ UNCHANGED <<idempotency, redis, reviews, local, fails>>

SyncRead(r) ==
  /\ pc[r] = "sync"
  /\ \E up \in RedisUp :
       /\ current' = [current EXCEPT ![r] = store[up]]
       /\ IF store[up] = NoState THEN Goto(r, "mark", "sync")
                                 ELSE Goto(r, "syncSave", "sync")
  /\ UNCHANGED <<idempotency, redis, reviews, memory, state, count, fails>>

SyncWrite(r) ==
  /\ pc[r] = "syncSave"
  /\ \E up \in RedisUp :
       store' = [store EXCEPT ![up] = current[r]]
  /\ current' = [current EXCEPT ![r] = NoState]
  /\ Goto(r, "mark", "sync")
  /\ UNCHANGED <<idempotency, counter, lock, expired, reviews, memory, state, count, fails>>

(***************************************************************************)
(* Failure: a step whose retries are used up throws, and the catch block   *)
(* of the function marks its key, in the reviewer after the finally block  *)
(* has released the lock.                                                  *)
(***************************************************************************)

StepFails(r) ==
  /\ r.job[1] \in Failing
  /\ fails < MaxFails
  /\ pc[r] \notin Ended \cup {"none", "register", "wait"}
  /\ pc' = [pc EXCEPT ![r] =
              IF @ \in Locked \ {"release"} THEN "unwind"
              ELSE IF @ \in {"claim", "insert", "update", "markFailed"} THEN "failed"
              ELSE "markFailed"]
  /\ fails' = fails + 1
  /\ UNCHANGED <<idempotency, redis, reviews, memory, local, lost>>

MarkFailed(r) ==
  /\ Step(r, "markFailed", "failed")
  /\ \E up \in RedisUp : Settle(r.job, "FAILED", up)
  /\ UNCHANGED <<redis, reviews, memory, local, fails>>

RunStep(r) ==
  \/ Look(r) \/ Claim(r) \/ MarkSuccess(r) \/ MarkFailed(r)
  \/ StartPlanner(r) \/ Register(r)
  \/ Seed(r) \/ StartExecutors(r)
  \/ StartReviewer(r)
  \/ AppendRead(r) \/ AppendWrite(r) \/ Count(r) \/ AcquireLock(r)
  \/ LookFinal(r) \/ ClaimFinal(r)
  \/ PersistRead(r) \/ PersistWrite(r) \/ TellWriter(r) \/ TellRunner(r)
  \/ MarkFinal(r) \/ Release(r)
  \/ WriteReview(r) \/ SyncRead(r) \/ SyncWrite(r)

Next ==
  \/ Request
  \/ LockExpires
  \/ \E r \in Run : RunStep(r) \/ Timeout(r) \/ StepFails(r)

Spec == Init /\ [][Next]_vars

\* Inngest goes on with every run whose next step can be taken.
FairSpec == Spec /\ \A r \in Run : WF_vars(RunStep(r))

(***************************************************************************)
(* Properties                                                              *)
(***************************************************************************)

Executed == {t \in Task : IsSent(Reviewer(t))}

\* A review that approves the workflow is published only when the executor of
\* every task has published its result: results that are lost, counted twice or
\* overwritten (patchWorkflowState, incrementWorkflowCompletedCounter) may spoil
\* a review, but only in the direction of "incomplete".
ApprovedIsTrue ==
  (\E i \in DOMAIN reviews : reviews[i] = "approved") => Executed = Task

\* A key that claimIdempotency finds SUCCEEDED, and for which it refuses the
\* work, stands for work that was done: the planner has sent every task, the
\* executor its result, the final review is published, the runner was answered
\* after a review, the writer has written the review.
SuccessMeansWork ==
  LET Succeeded(k) == keys[k].status = "SUCCEEDED"
  IN /\ Succeeded(ThePlanner) => \A t \in Task : IsSent(Executor(t))
     /\ \A t \in Task : Succeeded(Executor(t)) => IsSent(Reviewer(t))
     /\ Succeeded(Final) \/ Succeeded(TheRunner) => reviews # <<>>
     /\ Succeeded(TheWriter) => memory > 0

\* Two reviewers that results counted twice have brought to the review lock do
\* not finalise the workflow side by side.  Until a review is published they do
\* not even if the lock has run out under one of them: the key of the final
\* review is new, and the second insert fails.  After that they do not unless the
\* lock has run out under one of them: then both may find the review of an
\* earlier count SUCCEEDED, and both update its key.
OneFinaliser ==
  \A r, q \in Run :
    r # q /\ pc[r] \in Finalising /\ pc[q] \in Finalising
      => reviews # <<>> /\ (r \in expired \/ q \in expired)

\* A request is reviewed in the end, and the review is in the long-term memory.
RequestFinishes ==
  IsSent(TheRunner) ~> (reviews # <<>> /\ memory > 0)

\* The orchestrator executes every task of a request, and then, not before and
\* only once, publishes a review; at most one review is kept in the long-term
\* memory (the final claim of the reviewer, the claim of the memory writer).
Once == INSTANCE ReviewOnce WITH executed <- Executed, published <- Len(reviews),
                                 kept <- memory
PublishesOnce == Once!Spec

=============================================================================
