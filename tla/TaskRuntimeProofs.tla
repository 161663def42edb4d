------------------------- MODULE TaskRuntimeProofs -------------------------
(***************************************************************************)
(* What holds of TaskRuntime for every number of flows, tasks, files and   *)
(* workers, every number of deliveries, crashes and human calls.           *)
(***************************************************************************)
EXTENDS TaskRuntime, TLAPS

-----------------------------------------------------------------------------
\* Type correctness.

\* The empty database and idle workers are well typed.
LEMMA InitTypeOK == Init => TypeOK
  BY RuntimeAssumption
  DEF RuntimeAssumption, Init, TypeOK, FlowStatus, TaskStatus, PCs

\* Delivering or sending an event keeps the counters of the inbox natural.
LEMMA SendTyped ==
  ASSUME inbox \in [Events -> Nat],
         NEW e \in Events, NEW n \in Int, inbox[e] + n >= 0, Send(e, n)
  PROVE  inbox' \in [Events -> Nat]
  BY DEF Send

\* Writing a task row leaves every heartbeat one of the four ages.
LEMMA TouchedTyped ==
  ASSUME beat \in [Tasks -> {"none", "stale", "fresh", "old"}], NEW t \in Tasks
  PROVE  Touched(t) \in [Tasks -> {"none", "stale", "fresh", "old"}]
  BY DEF Touched

\* A watchdog pass keeps the types: it counts an attempt only below the limit.
LEMMA TypeSweep ==
  ASSUME TypeOK, NEW w \in Workers, Sweep(w)
  PROVE  TypeOK'
<1>1. CASE BeginSweep(w)
  BY <1>1 DEF TypeOK, BeginSweep, Goto, PCs, rows, env
<1>2. ASSUME NEW t \in Tasks, NEW a \in 0..MaxAttempts,
             ExpireTask(w, t, a)
      PROVE  TypeOK'
  BY <1>2, RuntimeAssumption
  DEF TypeOK, ExpireTask, CanRetry, TaskStatus, env, RuntimeAssumption
<1> QED BY <1>1, <1>2 DEF Sweep

\* A dispatch step only moves its worker on, or out.
LEMMA TypeDispatch ==
  ASSUME TypeOK, NEW w \in Workers, Dispatch(w)
  PROVE  TypeOK'
<1>1. CASE CheckFlow(w)
  BY <1>1 DEF TypeOK, CheckFlow, Goto, Leave, PCs, rows, env
<1>2. CASE PickTask(w)
  BY <1>2 DEF TypeOK, PickTask, Queued, TasksOf, Goto, Leave, PCs, rows, env
<1> QED BY <1>1, <1>2 DEF Dispatch

\* A worker past the dispatch loop has a task in its hands.
HoldsTask == \A w \in Workers :
  pc[w] \notin {"idle", "loop", "sweep", "pick"} => cur[w] \in Tasks

\* The part of TypeOK about the workers' locals.
LocalTyped ==
  /\ pc \in [Workers -> PCs]
  /\ cur \in [Workers -> Tasks \cup {NoTask}]
  /\ home \in [Workers -> Flows \cup {NoFlow}]
  /\ scan \in [Workers -> SUBSET (Tasks \X (0..MaxAttempts))]
  /\ todo \in [Workers -> SUBSET Files]
  /\ grant \in [Workers -> SUBSET Files]
  /\ conflict \in [Workers -> BOOLEAN]
  /\ verdict \in [Workers -> FlowStatus]

\* A worker that returns to the dispatch loop has typed locals.
LEMMA ReturnTyped ==
  ASSUME TypeOK, NEW w \in Workers, Return(w)
  PROVE  LocalTyped'
<1>1. pc' \in [Workers -> PCs] /\ cur' \in [Workers -> Tasks \cup {NoTask}]
  BY DEF TypeOK, Return, Goto, PCs
<1>2. todo' \in [Workers -> SUBSET Files] /\ grant' \in [Workers -> SUBSET Files]
  BY DEF TypeOK, Return
<1>3. conflict' \in [Workers -> BOOLEAN] /\ verdict' \in [Workers -> FlowStatus]
  BY DEF TypeOK, Return, FlowStatus
<1>4. UNCHANGED <<home, scan>>
  BY DEF Return
<1> QED BY <1>1, <1>2, <1>3, <1>4 DEF TypeOK, LocalTyped

\* A handler that ends half way leaves typed variables.
LEMMA DieTyped ==
  ASSUME TypeOK, HoldsTask, NEW w \in Workers, Die(w), crashes' \in Nat
  PROVE  TypeOK'
<1>1. crashed' \subseteq Tasks
  <2>1. CASE pc[w] \in Executing
    BY <2>1 DEF TypeOK, Die, HoldsTask, Executing
  <2>2. CASE pc[w] \notin Executing
    BY <2>2 DEF TypeOK, Die
  <2> QED BY <2>1, <2>2
<1> QED BY <1>1 DEF TypeOK, Die, Goto, PCs, FlowStatus, rows

\* Loading, claiming, locking and starting a task keep the types.
LEMMA TypeExecute ==
  ASSUME TypeOK, HoldsTask, NEW w \in Workers, Execute(w)
  PROVE  TypeOK'
<1>0. cur[w] \in Tasks
  BY DEF HoldsTask, Execute, LoadTask, Claim, Beat, BeatThrows, Prepared, LockFile,
         LockCommit, Start
<1>1. CASE LoadTask(w)
  <2>1. CASE task[cur[w]] \in Terminal
    BY <1>1, <2>1, ReturnTyped DEF TypeOK, LoadTask, LocalTyped, rows, env
  <2>2. CASE task[cur[w]] \notin Terminal
    BY <1>1, <2>2 DEF TypeOK, LoadTask, Goto, PCs, rows, env
  <2> QED BY <2>1, <2>2
<1>2. CASE Claim(w)
  <2>1. CASE task[cur[w]] = "QUEUED"
    <3>1. beat' \in [Tasks -> {"none", "stale", "fresh", "old"}]
      BY <1>0, <1>2, <2>1, TouchedTyped DEF TypeOK, Claim
    <3>2. /\ task' \in [Tasks -> TaskStatus]
          /\ pc' \in [Workers -> PCs]
      BY <1>2, <2>1 DEF TypeOK, Claim, Goto, PCs, TaskStatus
    <3>3. UNCHANGED <<flow, attempts, locks, cur, home, scan, todo, grant,
                      conflict, verdict, env, crashed>>
      BY <1>2, <2>1 DEF Claim
    <3> QED BY <3>1, <3>2, <3>3 DEF TypeOK, env
  <2>2. CASE task[cur[w]] # "QUEUED"
    BY <1>2, <2>2, ReturnTyped DEF TypeOK, Claim, LocalTyped, env
  <2> QED BY <2>1, <2>2
<1>3. CASE Beat(w)
  BY <1>0, <1>3 DEF TypeOK, Beat, Goto, PCs, env
<1>4. CASE Prepared(w)
  BY <1>0, <1>4, RuntimeAssumption
  DEF TypeOK, Prepared, Goto, PCs, rows, env, RuntimeAssumption
<1>5. ASSUME NEW f \in Files, LockFile(w, f)
      PROVE  TypeOK'
  <2>1. grant' \in [Workers -> SUBSET Files] /\ conflict' \in [Workers -> BOOLEAN]
    <3>1. CASE UNCHANGED grant
      BY <1>5, <3>1 DEF TypeOK, LockFile
    <3>2. CASE UNCHANGED conflict
      BY <1>5, <3>2 DEF TypeOK, LockFile
    <3> QED BY <1>5, <3>1, <3>2 DEF LockFile
  <2> QED BY <1>5, <2>1 DEF TypeOK, LockFile, rows, env
<1>6. CASE LockCommit(w)
  BY <1>0, <1>6 DEF TypeOK, LockCommit, Goto, PCs, env
<1>7. CASE Start(w)
  BY <1>0, <1>7, RuntimeAssumption
  DEF TypeOK, Start, Touched, Goto, PCs, TaskStatus, FlowStatus, env,
      RuntimeAssumption
<1>8. CASE BeatThrows(w)
  BY <1>8, DieTyped DEF BeatThrows, TypeOK
<1> QED BY <1>1, <1>2, <1>3, <1>4, <1>5, <1>6, <1>7, <1>8 DEF Execute

\* Whatever statuses a completion sees, it writes a status that exists.
LEMMA FlowAfterTyped ==
  ASSUME NEW f, NEW seen
  PROVE  FlowAfter(f, seen) \in FlowStatus \ {"NONE"}
  BY DEF FlowAfter, FlowStatus

\* Writing a status into a task and its flow keeps the rows typed.
LEMMA SettleTyped ==
  ASSUME TypeOK, NEW t \in Tasks, NEW ts \in TaskStatus, NEW fs \in FlowStatus,
         Settle(t, ts, fs)
  PROVE  /\ flow' \in [Flows -> FlowStatus]
         /\ task' \in [Tasks -> TaskStatus]
         /\ beat' \in [Tasks -> {"none", "stale", "fresh", "old"}]
         /\ locks' \subseteq Files \X Tasks
         /\ crashed' \subseteq Tasks
  BY RuntimeAssumption DEF TypeOK, Settle, RuntimeAssumption

\* The reports keep the types.
LEMMA TypeReport ==
  ASSUME TypeOK, HoldsTask, NEW w \in Workers, Report(w)
  PROVE  TypeOK'
<1>0. /\ {"PAUSED", "FAILED"} \subseteq TaskStatus
      /\ {"PAUSED", "FAILED"} \subseteq FlowStatus
  BY DEF TaskStatus, FlowStatus
<1>1. CASE PauseRun(w)
  <2>1. cur[w] \in Tasks
    BY <1>1 DEF HoldsTask, PauseRun, BlockedOnLock
  <2>2. LocalTyped'
    BY <1>1, ReturnTyped DEF PauseRun
  <2>3. Settle(cur[w], "PAUSED", "PAUSED") /\ UNCHANGED <<attempts, env>>
    BY <1>1 DEF PauseRun
  <2> QED
    BY <1>0, <2>1, <2>2, <2>3, SettleTyped DEF TypeOK, LocalTyped, env
<1>2. CASE FailRun(w)
  <2>1. cur[w] \in Tasks
    BY <1>2 DEF HoldsTask, FailRun
  <2>2. LocalTyped'
    BY <1>2, ReturnTyped DEF FailRun
  <2>3. Settle(cur[w], "FAILED", "FAILED") /\ UNCHANGED env
    BY <1>2 DEF FailRun
  <2>4. attempts' \in [Tasks -> 0..MaxAttempts]
    <3>1. 0 \in 0..MaxAttempts /\ attempts[cur[w]] \in 0..MaxAttempts
      BY <2>1, RuntimeAssumption DEF TypeOK, RuntimeAssumption
    <3>2. \E a \in {0, attempts[cur[w]]} : attempts' = [attempts EXCEPT ![cur[w]] = a]
      BY <1>2 DEF FailRun
    <3> QED BY <3>1, <3>2 DEF TypeOK
  <2> QED
    BY <1>0, <2>1, <2>2, <2>3, <2>4, SettleTyped DEF TypeOK, LocalTyped, env
<1>3. CASE CompleteRead(w)
  BY <1>3, FlowAfterTyped
  DEF TypeOK, CompleteRead, Goto, PCs, rows, env
<1>4. CASE CompleteCommit(w)
  <2>1. cur[w] \in Tasks
    BY <1>4 DEF HoldsTask, CompleteCommit
  <2>2. LocalTyped'
    BY <1>4, ReturnTyped DEF CompleteCommit
  <2>3. /\ flow' \in [Flows -> FlowStatus]
        /\ task' \in [Tasks -> TaskStatus]
    BY <1>4 DEF CompleteCommit, TypeOK, TaskStatus
  <2>4. attempts' \in [Tasks -> 0..MaxAttempts]
    <3>1. 0 \in 0..MaxAttempts
      BY RuntimeAssumption DEF RuntimeAssumption
    <3>2. attempts' = [attempts EXCEPT ![cur[w]] = 0]
      BY <1>4 DEF CompleteCommit
    <3> QED BY <3>1, <3>2 DEF TypeOK
  <2>5. /\ locks' \subseteq Files \X Tasks
        /\ crashed' \subseteq Tasks
        /\ UNCHANGED <<beat, env>>
    BY <1>4 DEF CompleteCommit, TypeOK
  <2> QED BY <2>2, <2>3, <2>4, <2>5 DEF TypeOK, LocalTyped, env
<1> QED BY <1>1, <1>2, <1>3, <1>4 DEF Report

\* Taking up flow.launched or task.resumed keeps the types.
LEMMA TypeDeliver ==
  ASSUME TypeOK, NEW w \in Workers, Deliver(w)
  PROVE  TypeOK'
<1>1. ASSUME NEW f \in Flows, HandleLaunched(w, f)
      PROVE  TypeOK'
  <2>1. <<"launched", f>> \in Events
    BY DEF Events
  <2>2. inbox' \in [Events -> Nat]
    BY <1>1, <2>1, SendTyped DEF TypeOK, HandleLaunched
  <2> QED BY <1>1, <2>2 DEF TypeOK, HandleLaunched, Goto, PCs, rows
<1>2. ASSUME NEW t \in Tasks, HandleResumed(w, t)
      PROVE  TypeOK'
  <2>1. <<"resumed", t>> \in Events
    BY DEF Events
  <2>2. inbox' \in [Events -> Nat]
    BY <1>2, <2>1, SendTyped DEF TypeOK, HandleResumed
  <2>3. CASE task[t] \in {"QUEUED", "PAUSED"}
    <3>1. beat' \in [Tasks -> {"none", "stale", "fresh", "old"}]
      BY <1>2, <2>3, TouchedTyped DEF TypeOK, HandleResumed
    <3>2. task' \in [Tasks -> TaskStatus] /\ flow' \in [Flows -> FlowStatus]
      <4>1. /\ task' = [task EXCEPT ![t] = "RUNNING"]
            /\ flow' = [flow EXCEPT ![FlowOf[t]] = "ACTIVE"]
        BY <1>2, <2>3 DEF HandleResumed
      <4> QED BY <4>1 DEF TypeOK, TaskStatus, FlowStatus
    <3>3. /\ pc' \in [Workers -> PCs]
          /\ cur' \in [Workers -> Tasks \cup {NoTask}]
          /\ home' \in [Workers -> Flows \cup {NoFlow}]
      <4>1. FlowOf[t] \in Flows
        BY RuntimeAssumption DEF RuntimeAssumption
      <4>2. /\ cur' = [cur EXCEPT ![w] = t]
            /\ home' = [home EXCEPT ![w] = FlowOf[t]]
            /\ Goto(w, IF Traced(t) THEN "throw" ELSE "rebeat")
        BY <1>2, <2>3 DEF HandleResumed
      <4> QED BY <4>1, <4>2 DEF TypeOK, Goto, PCs
    <3>4. UNCHANGED <<attempts, locks, scan, todo, grant, conflict, verdict,
                      victims, human, crashes, crashed>>
      BY <1>2 DEF HandleResumed
    <3> QED BY <2>2, <3>1, <3>2, <3>3, <3>4 DEF TypeOK
  <2>4. CASE task[t] \notin {"QUEUED", "PAUSED"}
    BY <1>2, <2>2, <2>4 DEF TypeOK, HandleResumed
  <2> QED BY <2>3, <2>4
<1> QED BY <1>1, <1>2 DEF Deliver

\* Sending a task back to the queue keeps the types.
LEMMA RequeueTyped ==
  ASSUME TypeOK, NEW t \in Tasks, Requeue(t), human' \in Nat
  PROVE  TypeOK'
<1>1. <<"resumed", t>> \in Events
  BY DEF Events
<1>2. inbox' \in [Events -> Nat]
  BY <1>1, SendTyped, RuntimeAssumption DEF TypeOK, Requeue, RuntimeAssumption
<1> QED
  BY <1>2, RuntimeAssumption
  DEF TypeOK, Requeue, TaskStatus, FlowStatus, local, RuntimeAssumption

\* The HTTP routes keep the types.
LEMMA TypeHuman ==
  ASSUME TypeOK, Human
  PROVE  TypeOK'
<1>1. ASSUME NEW f \in Flows, Launch(f)
      PROVE  TypeOK'
  <2>1. <<"launched", f>> \in Events
    BY DEF Events
  <2>2. inbox' \in [Events -> Nat]
    BY <1>1, <2>1, SendTyped, RuntimeAssumption
    DEF TypeOK, Launch, RuntimeAssumption
  <2>3. attempts' \in [Tasks -> 0..MaxAttempts]
    BY <1>1, RuntimeAssumption DEF Launch, TypeOK, RuntimeAssumption
  <2>4. task' \in [Tasks -> TaskStatus] /\ flow' \in [Flows -> FlowStatus]
    BY <1>1 DEF Launch, TypeOK, TaskStatus, FlowStatus
  <2> QED BY <1>1, <2>2, <2>3, <2>4 DEF TypeOK, Launch, local
<1>2. ASSUME NEW t \in Tasks, PauseRoute(t)
      PROVE  TypeOK'
  <2>1. <<"paused", t>> \in Events
    BY DEF Events
  <2>2. inbox' \in [Events -> Nat]
    BY <1>2, <2>1, SendTyped, RuntimeAssumption
    DEF TypeOK, PauseRoute, RuntimeAssumption
  <2> QED
    BY <1>2, <2>2, SettleTyped
    DEF TypeOK, PauseRoute, HumanCall, TaskStatus, FlowStatus, local
<1>3. ASSUME NEW t \in Tasks, ResumeRoute(t) \/ ResolveRoute(t)
      PROVE  TypeOK'
  BY <1>3, RequeueTyped DEF TypeOK, ResumeRoute, ResolveRoute, HumanCall
<1>4. CASE KillRead
  BY <1>4 DEF TypeOK, KillRead, HumanCall, rows, local
<1>5. CASE KillCommit
  BY <1>5 DEF TypeOK, KillCommit, TaskStatus, FlowStatus, local
<1>6. ASSUME NEW t \in Tasks, NEW g \in Flows, Rewind(t, g)
      PROVE  TypeOK'
  <2>1. <<"launched", g>> \in Events
    BY DEF Events
  <2>2. inbox' \in [Events -> Nat]
    BY <1>6, <2>1, SendTyped, RuntimeAssumption
    DEF TypeOK, Rewind, RuntimeAssumption
  <2>3. task' \in [Tasks -> TaskStatus]
    BY <1>6 DEF TypeOK, Rewind, TaskStatus
  <2> QED
    BY <1>6, <2>2, <2>3 DEF TypeOK, Rewind, HumanCall, FlowStatus, local
<1> QED BY <1>1, <1>2, <1>3, <1>4, <1>5, <1>6 DEF Human

\* So do time, ticks, crashes and late task.paused events.
LEMMA TypeEnvironment ==
  ASSUME TypeOK, HoldsTask,
         \/ \E w \in Workers : Tick(w) \/ Crash(w)
         \/ \E t \in Tasks : HandlePaused(t) \/ Age(t)
  PROVE  TypeOK'
<1>1. ASSUME NEW w \in Workers, Tick(w)
      PROVE  TypeOK'
  BY <1>1 DEF TypeOK, Tick, Goto, PCs, rows, env
<1>2. ASSUME NEW w \in Workers, Crash(w)
      PROVE  TypeOK'
  BY <1>2, DieTyped DEF Crash, TypeOK
<1>3. ASSUME NEW t \in Tasks, HandlePaused(t)
      PROVE  TypeOK'
  <2>1. <<"paused", t>> \in Events
    BY DEF Events
  <2>2. inbox' \in [Events -> Nat]
    BY <1>3, <2>1, SendTyped DEF TypeOK, HandlePaused
  <2> QED
    BY <1>3, <2>2, SettleTyped
    DEF TypeOK, HandlePaused, TaskStatus, FlowStatus, local
<1>4. ASSUME NEW t \in Tasks, Age(t)
      PROVE  TypeOK'
  BY <1>4 DEF TypeOK, Age, local, env
<1> QED BY <1>1, <1>2, <1>3, <1>4

-----------------------------------------------------------------------------
\* The inductive invariant.

\* A flow row exists as soon as one of its tasks does.
FlowExists == \A t \in Tasks : task[t] # "NONE" => flow[FlowOf[t]] # "NONE"

\* A watchdog pass holds tasks that exist.
ScanExists == \A w \in Workers : \A r \in scan[w] : task[r[1]] # "NONE"

\* A completion never writes "no flow".
VerdictIsSet == \A w \in Workers : pc[w] = "commit" => verdict[w] # "NONE"

\* Every step leaves each worker past the dispatch loop with a task.
LEMMA HoldsTaskStep ==
  ASSUME TypeOK, HoldsTask, [Next]_vars
  PROVE  HoldsTask'
<1>1. ASSUME NEW w \in Workers, BeginSweep(w)
      PROVE  HoldsTask'
  BY <1>1 DEF TypeOK, HoldsTask, BeginSweep, Goto, rows, env
<1>2. ASSUME NEW w \in Workers, NEW t \in Tasks, NEW a \in 0..MaxAttempts,
             ExpireTask(w, t, a)
      PROVE  HoldsTask'
  BY <1>2 DEF TypeOK, HoldsTask, ExpireTask, env
<1>3. ASSUME NEW w \in Workers, CheckFlow(w)
      PROVE  HoldsTask'
  BY <1>3 DEF TypeOK, HoldsTask, CheckFlow, Goto, Leave, rows, env
<1>4. ASSUME NEW w \in Workers, PickTask(w)
      PROVE  HoldsTask'
  BY <1>4
  DEF TypeOK, HoldsTask, PickTask, Queued, TasksOf, Goto, Leave, rows, env
<1>5. ASSUME NEW w \in Workers, LoadTask(w)
      PROVE  HoldsTask'
  BY <1>5 DEF TypeOK, HoldsTask, LoadTask, Return, Goto, rows, env
<1>6. ASSUME NEW w \in Workers, Claim(w)
      PROVE  HoldsTask'
  BY <1>6 DEF TypeOK, HoldsTask, Claim, Return, Goto, env
<1>7. ASSUME NEW w \in Workers, Beat(w)
      PROVE  HoldsTask'
  BY <1>7 DEF TypeOK, HoldsTask, Beat, Goto, env
<1>8. ASSUME NEW w \in Workers, Prepared(w)
      PROVE  HoldsTask'
  BY <1>8 DEF TypeOK, HoldsTask, Prepared, Goto, rows, env
<1>9. ASSUME NEW w \in Workers, NEW x \in Files, LockFile(w, x)
      PROVE  HoldsTask'
  BY <1>9 DEF TypeOK, HoldsTask, LockFile, rows, env
<1>10. ASSUME NEW w \in Workers, LockCommit(w)
      PROVE  HoldsTask'
  BY <1>10 DEF TypeOK, HoldsTask, LockCommit, Goto, env
<1>11. ASSUME NEW w \in Workers, Start(w)
      PROVE  HoldsTask'
  BY <1>11 DEF TypeOK, HoldsTask, Start, Goto, env
<1>12. ASSUME NEW w \in Workers, PauseRun(w)
      PROVE  HoldsTask'
  BY <1>12 DEF TypeOK, HoldsTask, PauseRun, Settle, Return, Goto, env
<1>13. ASSUME NEW w \in Workers, FailRun(w)
      PROVE  HoldsTask'
  BY <1>13 DEF TypeOK, HoldsTask, FailRun, Settle, Return, Goto, env
<1>14. ASSUME NEW w \in Workers, CompleteRead(w)
      PROVE  HoldsTask'
  BY <1>14 DEF TypeOK, HoldsTask, CompleteRead, Goto, rows, env
<1>15. ASSUME NEW w \in Workers, CompleteCommit(w)
      PROVE  HoldsTask'
  BY <1>15 DEF TypeOK, HoldsTask, CompleteCommit, Return, Goto, env
<1>16. ASSUME NEW w \in Workers, NEW f \in Flows, HandleLaunched(w, f)
      PROVE  HoldsTask'
  BY <1>16 DEF TypeOK, HoldsTask, HandleLaunched, Goto, rows
<1>17. ASSUME NEW w \in Workers, NEW t \in Tasks, HandleResumed(w, t)
      PROVE  HoldsTask'
  BY <1>17 DEF TypeOK, HoldsTask, HandleResumed, Goto
<1>18. ASSUME NEW w \in Workers, Tick(w)
      PROVE  HoldsTask'
  BY <1>18 DEF TypeOK, HoldsTask, Tick, Goto, rows, env
<1>19. ASSUME NEW w \in Workers, Die(w)
      PROVE  HoldsTask'
  BY <1>19 DEF TypeOK, HoldsTask, Die, Goto, rows
<1>20. ASSUME NEW t \in Tasks, HandlePaused(t)
      PROVE  HoldsTask'
  BY <1>20 DEF TypeOK, HoldsTask, HandlePaused, Settle, local
<1>21. ASSUME NEW t \in Tasks, Age(t)
      PROVE  HoldsTask'
  BY <1>21 DEF TypeOK, HoldsTask, Age, local, env
<1>22. ASSUME NEW f \in Flows, Launch(f)
      PROVE  HoldsTask'
  BY <1>22 DEF TypeOK, HoldsTask, Launch, local
<1>23. ASSUME NEW t \in Tasks, PauseRoute(t)
      PROVE  HoldsTask'
  BY <1>23 DEF TypeOK, HoldsTask, PauseRoute, Settle, local
<1>24. ASSUME NEW t \in Tasks, ResumeRoute(t) \/ ResolveRoute(t)
      PROVE  HoldsTask'
  BY <1>24 DEF TypeOK, HoldsTask, ResumeRoute, ResolveRoute, Requeue, local
<1>25. CASE KillRead
  BY <1>25 DEF TypeOK, HoldsTask, KillRead, rows, local
<1>26. CASE KillCommit
  BY <1>26 DEF TypeOK, HoldsTask, KillCommit, local
<1>27. ASSUME NEW t \in Tasks, NEW f \in Flows, Rewind(t, f)
      PROVE  HoldsTask'
  BY <1>27 DEF TypeOK, HoldsTask, Rewind, TasksOf, local
<1>28. CASE UNCHANGED vars
  BY <1>28 DEF TypeOK, HoldsTask, vars, rows, local, env
<1> QED
  BY <1>1, <1>2, <1>3, <1>4, <1>5, <1>6, <1>7, <1>8, <1>9, <1>10, <1>11,
     <1>12, <1>13, <1>14, <1>15, <1>16, <1>17, <1>18, <1>19, <1>20, <1>21,
     <1>22, <1>23, <1>24, <1>25, <1>26, <1>27, <1>28
  DEF Next, Work, Deliver, Human, Sweep, Dispatch, Execute, Report, Crash,
      BeatThrows

\* No step leaves a RUNNING task without executor: only claims and starts make
\* it RUNNING, only reports and crashes end an execution.
LEMMA RunningStep ==
  ASSUME TypeOK, HoldsTask, RunningHasExecutor, [Next]_vars
  PROVE  RunningHasExecutor'
<1>1. ASSUME NEW w \in Workers, BeginSweep(w)
      PROVE  RunningHasExecutor'
  BY <1>1
  DEF TypeOK, HoldsTask, RunningHasExecutor, Executes, Executing,
      BeginSweep, Goto, rows, env
<1>2. ASSUME NEW w \in Workers, NEW t \in Tasks, NEW a \in 0..MaxAttempts,
             ExpireTask(w, t, a)
      PROVE  RunningHasExecutor'
  BY <1>2
  DEF TypeOK, HoldsTask, RunningHasExecutor, Executes, Executing,
      ExpireTask, env
<1>3. ASSUME NEW w \in Workers, CheckFlow(w)
      PROVE  RunningHasExecutor'
  BY <1>3
  DEF TypeOK, HoldsTask, RunningHasExecutor, Executes, Executing, CheckFlow,
      Goto, Leave, rows, env
<1>4. ASSUME NEW w \in Workers, PickTask(w)
      PROVE  RunningHasExecutor'
  BY <1>4
  DEF TypeOK, HoldsTask, RunningHasExecutor, Executes, Executing, PickTask,
      Queued, TasksOf, Goto, Leave, rows, env
<1>5. ASSUME NEW w \in Workers, LoadTask(w)
      PROVE  RunningHasExecutor'
  BY <1>5
  DEF TypeOK, HoldsTask, RunningHasExecutor, Executes, Executing, LoadTask,
      Return, Goto, rows, env, Terminal
<1>6. ASSUME NEW w \in Workers, Claim(w)
      PROVE  RunningHasExecutor'
  BY <1>6
  DEF TypeOK, HoldsTask, RunningHasExecutor, Executes, Executing, Claim,
      Return, Goto, env
<1>7. ASSUME NEW w \in Workers, Beat(w)
      PROVE  RunningHasExecutor'
  BY <1>7
  DEF TypeOK, HoldsTask, RunningHasExecutor, Executes, Executing, Beat,
      Goto, env
<1>8. ASSUME NEW w \in Workers, Prepared(w)
      PROVE  RunningHasExecutor'
  BY <1>8
  DEF TypeOK, HoldsTask, RunningHasExecutor, Executes, Executing, Prepared,
      Goto, rows, env
<1>9. ASSUME NEW w \in Workers, NEW x \in Files, LockFile(w, x)
      PROVE  RunningHasExecutor'
  BY <1>9
  DEF TypeOK, HoldsTask, RunningHasExecutor, Executes, Executing, LockFile,
      rows, env
<1>10. ASSUME NEW w \in Workers, LockCommit(w)
      PROVE  RunningHasExecutor'
  BY <1>10
  DEF TypeOK, HoldsTask, RunningHasExecutor, Executes, Executing,
      LockCommit, Goto, env
<1>11. ASSUME NEW w \in Workers, Start(w)
      PROVE  RunningHasExecutor'
  BY <1>11
  DEF TypeOK, HoldsTask, RunningHasExecutor, Executes, Executing, Start,
      Goto, env
<1>12. ASSUME NEW w \in Workers, PauseRun(w)
      PROVE  RunningHasExecutor'
  BY <1>12
  DEF TypeOK, HoldsTask, RunningHasExecutor, Executes, Executing, PauseRun,
      Settle, Return, Goto, env
<1>13. ASSUME NEW w \in Workers, FailRun(w)
      PROVE  RunningHasExecutor'
  BY <1>13
  DEF TypeOK, HoldsTask, RunningHasExecutor, Executes, Executing, FailRun,
      Settle, Return, Goto, env
<1>14. ASSUME NEW w \in Workers, CompleteRead(w)
      PROVE  RunningHasExecutor'
  BY <1>14
  DEF TypeOK, HoldsTask, RunningHasExecutor, Executes, Executing,
      CompleteRead, Goto, rows, env
<1>15. ASSUME NEW w \in Workers, CompleteCommit(w)
      PROVE  RunningHasExecutor'
  BY <1>15
  DEF TypeOK, HoldsTask, RunningHasExecutor, Executes, Executing,
      CompleteCommit, Return, Goto, env
<1>16. ASSUME NEW w \in Workers, NEW f \in Flows, HandleLaunched(w, f)
      PROVE  RunningHasExecutor'
  BY <1>16
  DEF TypeOK, HoldsTask, RunningHasExecutor, Executes, Executing,
      HandleLaunched, Goto, rows
<1>17. ASSUME NEW w \in Workers, NEW t \in Tasks, HandleResumed(w, t)
      PROVE  RunningHasExecutor'
  BY <1>17
  DEF TypeOK, HoldsTask, RunningHasExecutor, Executes, Executing,
      HandleResumed, Goto
<1>18. ASSUME NEW w \in Workers, Tick(w)
      PROVE  RunningHasExecutor'
  BY <1>18
  DEF TypeOK, HoldsTask, RunningHasExecutor, Executes, Executing, Tick,
      Goto, rows, env
<1>19. ASSUME NEW w \in Workers, Die(w)
      PROVE  RunningHasExecutor'
  BY <1>19
  DEF TypeOK, HoldsTask, RunningHasExecutor, Executes, Executing, Die, Goto,
      rows
<1>20. ASSUME NEW t \in Tasks, HandlePaused(t)
      PROVE  RunningHasExecutor'
  BY <1>20
  DEF TypeOK, HoldsTask, RunningHasExecutor, Executes, Executing,
      HandlePaused, Settle, local
<1>21. ASSUME NEW t \in Tasks, Age(t)
      PROVE  RunningHasExecutor'
  BY <1>21
  DEF TypeOK, HoldsTask, RunningHasExecutor, Executes, Executing, Age,
      local, env
<1>22. ASSUME NEW f \in Flows, Launch(f)
      PROVE  RunningHasExecutor'
  BY <1>22
  DEF TypeOK, HoldsTask, RunningHasExecutor, Executes, Executing, Launch,
      local
<1>23. ASSUME NEW t \in Tasks, PauseRoute(t)
      PROVE  RunningHasExecutor'
  BY <1>23
  DEF TypeOK, HoldsTask, RunningHasExecutor, Executes, Executing,
      PauseRoute, Settle, local
<1>24. ASSUME NEW t \in Tasks, ResumeRoute(t) \/ ResolveRoute(t)
      PROVE  RunningHasExecutor'
  BY <1>24
  DEF TypeOK, HoldsTask, RunningHasExecutor, Executes, Executing,
      ResumeRoute, ResolveRoute, Requeue, local
<1>25. CASE KillRead
  BY <1>25
  DEF TypeOK, HoldsTask, RunningHasExecutor, Executes, Executing, KillRead,
      rows, local
<1>26. CASE KillCommit
  BY <1>26
  DEF TypeOK, HoldsTask, RunningHasExecutor, Executes, Executing,
      KillCommit, local
<1>27. ASSUME NEW t \in Tasks, NEW f \in Flows, Rewind(t, f)
      PROVE  RunningHasExecutor'
  BY <1>27
  DEF TypeOK, HoldsTask, RunningHasExecutor, Executes, Executing, Rewind,
      TasksOf, local
<1>28. CASE UNCHANGED vars
  BY <1>28
  DEF TypeOK, HoldsTask, RunningHasExecutor, Executes, Executing, vars,
      rows, local, env
<1> QED
  BY <1>1, <1>2, <1>3, <1>4, <1>5, <1>6, <1>7, <1>8, <1>9, <1>10, <1>11,
     <1>12, <1>13, <1>14, <1>15, <1>16, <1>17, <1>18, <1>19, <1>20, <1>21,
     <1>22, <1>23, <1>24, <1>25, <1>26, <1>27, <1>28
  DEF Next, Work, Deliver, Human, Sweep, Dispatch, Execute, Report, Crash,
      BeatThrows

\* No step leaves a lock without a holder: only a committing lock transaction
\* adds one, and every report deletes those of its task.
LEMMA LockStep ==
  ASSUME TypeOK, HoldsTask, LockHasExecutor, [Next]_vars
  PROVE  LockHasExecutor'
<1>1. ASSUME NEW w \in Workers, BeginSweep(w)
      PROVE  LockHasExecutor'
  BY <1>1
  DEF TypeOK, HoldsTask, LockHasExecutor, HoldsLocks, BeginSweep, Goto,
      rows, env
<1>2. ASSUME NEW w \in Workers, NEW t \in Tasks, NEW a \in 0..MaxAttempts,
             ExpireTask(w, t, a)
      PROVE  LockHasExecutor'
  BY <1>2 DEF TypeOK, HoldsTask, LockHasExecutor, HoldsLocks, ExpireTask, env
<1>3. ASSUME NEW w \in Workers, CheckFlow(w)
      PROVE  LockHasExecutor'
  BY <1>3
  DEF TypeOK, HoldsTask, LockHasExecutor, HoldsLocks, CheckFlow, Goto,
      Leave, rows, env
<1>4. ASSUME NEW w \in Workers, PickTask(w)
      PROVE  LockHasExecutor'
  BY <1>4
  DEF TypeOK, HoldsTask, LockHasExecutor, HoldsLocks, PickTask, Queued,
      TasksOf, Goto, Leave, rows, env
<1>5. ASSUME NEW w \in Workers, LoadTask(w)
      PROVE  LockHasExecutor'
  BY <1>5
  DEF TypeOK, HoldsTask, LockHasExecutor, HoldsLocks, LoadTask, Return,
      Goto, rows, env
<1>6. ASSUME NEW w \in Workers, Claim(w)
      PROVE  LockHasExecutor'
  BY <1>6
  DEF TypeOK, HoldsTask, LockHasExecutor, HoldsLocks, Claim, Return, Goto,
      env
<1>7. ASSUME NEW w \in Workers, Beat(w)
      PROVE  LockHasExecutor'
  BY <1>7 DEF TypeOK, HoldsTask, LockHasExecutor, HoldsLocks, Beat, Goto, env
<1>8. ASSUME NEW w \in Workers, Prepared(w)
      PROVE  LockHasExecutor'
  BY <1>8
  DEF TypeOK, HoldsTask, LockHasExecutor, HoldsLocks, Prepared, Goto, rows,
      env
<1>9. ASSUME NEW w \in Workers, NEW x \in Files, LockFile(w, x)
      PROVE  LockHasExecutor'
  BY <1>9
  DEF TypeOK, HoldsTask, LockHasExecutor, HoldsLocks, LockFile, rows, env
<1>10. ASSUME NEW w \in Workers, LockCommit(w)
      PROVE  LockHasExecutor'
  BY <1>10
  DEF TypeOK, HoldsTask, LockHasExecutor, HoldsLocks, LockCommit, Goto, env
<1>11. ASSUME NEW w \in Workers, Start(w)
      PROVE  LockHasExecutor'
  BY <1>11 DEF TypeOK, HoldsTask, LockHasExecutor, HoldsLocks, Start, Goto, env
<1>12. ASSUME NEW w \in Workers, PauseRun(w)
      PROVE  LockHasExecutor'
  BY <1>12
  DEF TypeOK, HoldsTask, LockHasExecutor, HoldsLocks, PauseRun, Settle,
      Return, Goto, env, Locked
<1>13. ASSUME NEW w \in Workers, FailRun(w)
      PROVE  LockHasExecutor'
  BY <1>13
  DEF TypeOK, HoldsTask, LockHasExecutor, HoldsLocks, FailRun, Settle,
      Return, Goto, env, Locked
<1>14. ASSUME NEW w \in Workers, CompleteRead(w)
      PROVE  LockHasExecutor'
  BY <1>14
  DEF TypeOK, HoldsTask, LockHasExecutor, HoldsLocks, CompleteRead, Goto,
      rows, env
<1>15. ASSUME NEW w \in Workers, CompleteCommit(w)
      PROVE  LockHasExecutor'
  BY <1>15
  DEF TypeOK, HoldsTask, LockHasExecutor, HoldsLocks, CompleteCommit,
      Return, Goto, env, Locked
<1>16. ASSUME NEW w \in Workers, NEW f \in Flows, HandleLaunched(w, f)
      PROVE  LockHasExecutor'
  BY <1>16
  DEF TypeOK, HoldsTask, LockHasExecutor, HoldsLocks, HandleLaunched, Goto,
      rows
<1>17. ASSUME NEW w \in Workers, NEW t \in Tasks, HandleResumed(w, t)
      PROVE  LockHasExecutor'
  BY <1>17
  DEF TypeOK, HoldsTask, LockHasExecutor, HoldsLocks, HandleResumed, Goto
<1>18. ASSUME NEW w \in Workers, Tick(w)
      PROVE  LockHasExecutor'
  BY <1>18
  DEF TypeOK, HoldsTask, LockHasExecutor, HoldsLocks, Tick, Goto, rows, env
<1>19. ASSUME NEW w \in Workers, Die(w)
      PROVE  LockHasExecutor'
  BY <1>19
  DEF TypeOK, HoldsTask, LockHasExecutor, HoldsLocks, Die, Goto, rows, Executing
<1>20. ASSUME NEW t \in Tasks, HandlePaused(t)
      PROVE  LockHasExecutor'
  BY <1>20
  DEF TypeOK, HoldsTask, LockHasExecutor, HoldsLocks, HandlePaused, Settle,
      local, Locked
<1>21. ASSUME NEW t \in Tasks, Age(t)
      PROVE  LockHasExecutor'
  BY <1>21 DEF TypeOK, HoldsTask, LockHasExecutor, HoldsLocks, Age, local, env
<1>22. ASSUME NEW f \in Flows, Launch(f)
      PROVE  LockHasExecutor'
  BY <1>22 DEF TypeOK, HoldsTask, LockHasExecutor, HoldsLocks, Launch, local
<1>23. ASSUME NEW t \in Tasks, PauseRoute(t)
      PROVE  LockHasExecutor'
  BY <1>23
  DEF TypeOK, HoldsTask, LockHasExecutor, HoldsLocks, PauseRoute, Settle,
      local, Locked
<1>24. ASSUME NEW t \in Tasks, ResumeRoute(t) \/ ResolveRoute(t)
      PROVE  LockHasExecutor'
  BY <1>24
  DEF TypeOK, HoldsTask, LockHasExecutor, HoldsLocks, ResumeRoute,
      ResolveRoute, Requeue, local
<1>25. CASE KillRead
  BY <1>25
  DEF TypeOK, HoldsTask, LockHasExecutor, HoldsLocks, KillRead, rows, local
<1>26. CASE KillCommit
  BY <1>26
  DEF TypeOK, HoldsTask, LockHasExecutor, HoldsLocks, KillCommit, local
<1>27. ASSUME NEW t \in Tasks, NEW f \in Flows, Rewind(t, f)
      PROVE  LockHasExecutor'
  BY <1>27
  DEF TypeOK, HoldsTask, LockHasExecutor, HoldsLocks, Rewind, TasksOf, local
<1>28. CASE UNCHANGED vars
  BY <1>28
  DEF TypeOK, HoldsTask, LockHasExecutor, HoldsLocks, vars, rows, local, env
<1> QED
  BY <1>1, <1>2, <1>3, <1>4, <1>5, <1>6, <1>7, <1>8, <1>9, <1>10, <1>11,
     <1>12, <1>13, <1>14, <1>15, <1>16, <1>17, <1>18, <1>19, <1>20, <1>21,
     <1>22, <1>23, <1>24, <1>25, <1>26, <1>27, <1>28
  DEF Next, Work, Deliver, Human, Sweep, Dispatch, Execute, Report, Crash,
      BeatThrows

\* A completion holds a flow status from its reads to its commit.
LEMMA VerdictStep ==
  ASSUME VerdictIsSet, TypeOK, [Next]_vars
  PROVE  VerdictIsSet'
<1>1. ASSUME NEW w \in Workers, BeginSweep(w)
      PROVE  VerdictIsSet'
  BY <1>1 DEF TypeOK, VerdictIsSet, BeginSweep, Goto, rows, env
<1>2. ASSUME NEW w \in Workers, NEW t \in Tasks, NEW a \in 0..MaxAttempts,
             ExpireTask(w, t, a)
      PROVE  VerdictIsSet'
  BY <1>2 DEF TypeOK, VerdictIsSet, ExpireTask, env
<1>3. ASSUME NEW w \in Workers, CheckFlow(w)
      PROVE  VerdictIsSet'
  BY <1>3 DEF TypeOK, VerdictIsSet, CheckFlow, Goto, Leave, rows, env
<1>4. ASSUME NEW w \in Workers, PickTask(w)
      PROVE  VerdictIsSet'
  BY <1>4
  DEF TypeOK, VerdictIsSet, PickTask, Queued, TasksOf, Goto, Leave, rows,
      env
<1>5. ASSUME NEW w \in Workers, LoadTask(w)
      PROVE  VerdictIsSet'
  BY <1>5 DEF TypeOK, VerdictIsSet, LoadTask, Return, Goto, rows, env
<1>6. ASSUME NEW w \in Workers, Claim(w)
      PROVE  VerdictIsSet'
  BY <1>6 DEF TypeOK, VerdictIsSet, Claim, Return, Goto, env
<1>7. ASSUME NEW w \in Workers, Beat(w)
      PROVE  VerdictIsSet'
  BY <1>7 DEF TypeOK, VerdictIsSet, Beat, Goto, env
<1>8. ASSUME NEW w \in Workers, Prepared(w)
      PROVE  VerdictIsSet'
  BY <1>8 DEF TypeOK, VerdictIsSet, Prepared, Goto, rows, env
<1>9. ASSUME NEW w \in Workers, NEW x \in Files, LockFile(w, x)
      PROVE  VerdictIsSet'
  BY <1>9 DEF TypeOK, VerdictIsSet, LockFile, rows, env
<1>10. ASSUME NEW w \in Workers, LockCommit(w)
      PROVE  VerdictIsSet'
  BY <1>10 DEF TypeOK, VerdictIsSet, LockCommit, Goto, env
<1>11. ASSUME NEW w \in Workers, Start(w)
      PROVE  VerdictIsSet'
  BY <1>11 DEF TypeOK, VerdictIsSet, Start, Goto, env
<1>12. ASSUME NEW w \in Workers, PauseRun(w)
      PROVE  VerdictIsSet'
  BY <1>12 DEF TypeOK, VerdictIsSet, PauseRun, Settle, Return, Goto, env
<1>13. ASSUME NEW w \in Workers, FailRun(w)
      PROVE  VerdictIsSet'
  BY <1>13 DEF TypeOK, VerdictIsSet, FailRun, Settle, Return, Goto, env
<1>14. ASSUME NEW w \in Workers, CompleteRead(w)
      PROVE  VerdictIsSet'
  BY <1>14, FlowAfterTyped
  DEF TypeOK, VerdictIsSet, CompleteRead, Goto, rows, env
<1>15. ASSUME NEW w \in Workers, CompleteCommit(w)
      PROVE  VerdictIsSet'
  BY <1>15 DEF TypeOK, VerdictIsSet, CompleteCommit, Return, Goto, env
<1>16. ASSUME NEW w \in Workers, NEW f \in Flows, HandleLaunched(w, f)
      PROVE  VerdictIsSet'
  BY <1>16 DEF TypeOK, VerdictIsSet, HandleLaunched, Goto, rows
<1>17. ASSUME NEW w \in Workers, NEW t \in Tasks, HandleResumed(w, t)
      PROVE  VerdictIsSet'
  BY <1>17 DEF TypeOK, VerdictIsSet, HandleResumed, Goto
<1>18. ASSUME NEW w \in Workers, Tick(w)
      PROVE  VerdictIsSet'
  BY <1>18 DEF TypeOK, VerdictIsSet, Tick, Goto, rows, env
<1>19. ASSUME NEW w \in Workers, Die(w)
      PROVE  VerdictIsSet'
  BY <1>19 DEF TypeOK, VerdictIsSet, Die, Goto, rows
<1>20. ASSUME NEW t \in Tasks, HandlePaused(t)
      PROVE  VerdictIsSet'
  BY <1>20 DEF TypeOK, VerdictIsSet, HandlePaused, Settle, local
<1>21. ASSUME NEW t \in Tasks, Age(t)
      PROVE  VerdictIsSet'
  BY <1>21 DEF TypeOK, VerdictIsSet, Age, local, env
<1>22. ASSUME NEW f \in Flows, Launch(f)
      PROVE  VerdictIsSet'
  BY <1>22 DEF TypeOK, VerdictIsSet, Launch, local
<1>23. ASSUME NEW t \in Tasks, PauseRoute(t)
      PROVE  VerdictIsSet'
  BY <1>23 DEF TypeOK, VerdictIsSet, PauseRoute, Settle, local
<1>24. ASSUME NEW t \in Tasks, ResumeRoute(t) \/ ResolveRoute(t)
      PROVE  VerdictIsSet'
  BY <1>24 DEF TypeOK, VerdictIsSet, ResumeRoute, ResolveRoute, Requeue, local
<1>25. CASE KillRead
  BY <1>25 DEF TypeOK, VerdictIsSet, KillRead, rows, local
<1>26. CASE KillCommit
  BY <1>26 DEF TypeOK, VerdictIsSet, KillCommit, local
<1>27. ASSUME NEW t \in Tasks, NEW f \in Flows, Rewind(t, f)
      PROVE  VerdictIsSet'
  BY <1>27 DEF TypeOK, VerdictIsSet, Rewind, TasksOf, local
<1>28. CASE UNCHANGED vars
  BY <1>28 DEF TypeOK, VerdictIsSet, vars, rows, local, env
<1> QED
  BY <1>1, <1>2, <1>3, <1>4, <1>5, <1>6, <1>7, <1>8, <1>9, <1>10, <1>11,
     <1>12, <1>13, <1>14, <1>15, <1>16, <1>17, <1>18, <1>19, <1>20, <1>21,
     <1>22, <1>23, <1>24, <1>25, <1>26, <1>27, <1>28
  DEF Next, Work, Deliver, Human, Sweep, Dispatch, Execute, Report, Crash,
      BeatThrows

\* A watchdog pass holds only tasks that exist, a task never ceases to.
LEMMA ScanStep ==
  ASSUME ScanExists, TypeOK, HoldsTask, [Next]_vars
  PROVE  ScanExists'
<1>1. ASSUME NEW w \in Workers, BeginSweep(w)
      PROVE  ScanExists'
  BY <1>1
  DEF TypeOK, HoldsTask, ScanExists, BeginSweep, Goto, rows, env, Expired
<1>2. ASSUME NEW w \in Workers, NEW t \in Tasks, NEW a \in 0..MaxAttempts,
             ExpireTask(w, t, a)
      PROVE  ScanExists'
  BY <1>2 DEF TypeOK, HoldsTask, ScanExists, ExpireTask, env
<1>3. ASSUME NEW w \in Workers, CheckFlow(w)
      PROVE  ScanExists'
  BY <1>3 DEF TypeOK, HoldsTask, ScanExists, CheckFlow, Goto, Leave, rows, env
<1>4. ASSUME NEW w \in Workers, PickTask(w)
      PROVE  ScanExists'
  BY <1>4
  DEF TypeOK, HoldsTask, ScanExists, PickTask, Queued, TasksOf, Goto, Leave,
      rows, env
<1>5. ASSUME NEW w \in Workers, LoadTask(w)
      PROVE  ScanExists'
  BY <1>5 DEF TypeOK, HoldsTask, ScanExists, LoadTask, Return, Goto, rows, env
<1>6. ASSUME NEW w \in Workers, Claim(w)
      PROVE  ScanExists'
  BY <1>6 DEF TypeOK, HoldsTask, ScanExists, Claim, Return, Goto, env
<1>7. ASSUME NEW w \in Workers, Beat(w)
      PROVE  ScanExists'
  BY <1>7 DEF TypeOK, HoldsTask, ScanExists, Beat, Goto, env
<1>8. ASSUME NEW w \in Workers, Prepared(w)
      PROVE  ScanExists'
  BY <1>8 DEF TypeOK, HoldsTask, ScanExists, Prepared, Goto, rows, env
<1>9. ASSUME NEW w \in Workers, NEW x \in Files, LockFile(w, x)
      PROVE  ScanExists'
  BY <1>9 DEF TypeOK, HoldsTask, ScanExists, LockFile, rows, env
<1>10. ASSUME NEW w \in Workers, LockCommit(w)
      PROVE  ScanExists'
  BY <1>10 DEF TypeOK, HoldsTask, ScanExists, LockCommit, Goto, env
<1>11. ASSUME NEW w \in Workers, Start(w)
      PROVE  ScanExists'
  BY <1>11 DEF TypeOK, HoldsTask, ScanExists, Start, Goto, env
<1>12. ASSUME NEW w \in Workers, PauseRun(w)
      PROVE  ScanExists'
  BY <1>12
  DEF TypeOK, HoldsTask, ScanExists, PauseRun, Settle, Return, Goto, env
<1>13. ASSUME NEW w \in Workers, FailRun(w)
      PROVE  ScanExists'
  BY <1>13
  DEF TypeOK, HoldsTask, ScanExists, FailRun, Settle, Return, Goto, env
<1>14. ASSUME NEW w \in Workers, CompleteRead(w)
      PROVE  ScanExists'
  BY <1>14 DEF TypeOK, HoldsTask, ScanExists, CompleteRead, Goto, rows, env
<1>15. ASSUME NEW w \in Workers, CompleteCommit(w)
      PROVE  ScanExists'
  BY <1>15 DEF TypeOK, HoldsTask, ScanExists, CompleteCommit, Return, Goto, env
<1>16. ASSUME NEW w \in Workers, NEW f \in Flows, HandleLaunched(w, f)
      PROVE  ScanExists'
  BY <1>16 DEF TypeOK, HoldsTask, ScanExists, HandleLaunched, Goto, rows
<1>17. ASSUME NEW w \in Workers, NEW t \in Tasks, HandleResumed(w, t)
      PROVE  ScanExists'
  BY <1>17 DEF TypeOK, HoldsTask, ScanExists, HandleResumed, Goto
<1>18. ASSUME NEW w \in Workers, Tick(w)
      PROVE  ScanExists'
  BY <1>18 DEF TypeOK, HoldsTask, ScanExists, Tick, Goto, rows, env
<1>19. ASSUME NEW w \in Workers, Die(w)
      PROVE  ScanExists'
  BY <1>19 DEF TypeOK, HoldsTask, ScanExists, Die, Goto, rows
<1>20. ASSUME NEW t \in Tasks, HandlePaused(t)
      PROVE  ScanExists'
  BY <1>20 DEF TypeOK, HoldsTask, ScanExists, HandlePaused, Settle, local
<1>21. ASSUME NEW t \in Tasks, Age(t)
      PROVE  ScanExists'
  BY <1>21 DEF TypeOK, HoldsTask, ScanExists, Age, local, env
<1>22. ASSUME NEW f \in Flows, Launch(f)
      PROVE  ScanExists'
  BY <1>22 DEF TypeOK, HoldsTask, ScanExists, Launch, local
<1>23. ASSUME NEW t \in Tasks, PauseRoute(t)
      PROVE  ScanExists'
  BY <1>23 DEF TypeOK, HoldsTask, ScanExists, PauseRoute, Settle, local
<1>24. ASSUME NEW t \in Tasks, ResumeRoute(t) \/ ResolveRoute(t)
      PROVE  ScanExists'
  BY <1>24
  DEF TypeOK, HoldsTask, ScanExists, ResumeRoute, ResolveRoute, Requeue,
      local
<1>25. CASE KillRead
  BY <1>25 DEF TypeOK, HoldsTask, ScanExists, KillRead, rows, local
<1>26. CASE KillCommit
  BY <1>26 DEF TypeOK, HoldsTask, ScanExists, KillCommit, local
<1>27. ASSUME NEW t \in Tasks, NEW f \in Flows, Rewind(t, f)
      PROVE  ScanExists'
  BY <1>27 DEF TypeOK, HoldsTask, ScanExists, Rewind, TasksOf, local
<1>28. CASE UNCHANGED vars
  BY <1>28 DEF TypeOK, HoldsTask, ScanExists, vars, rows, local, env
<1> QED
  BY <1>1, <1>2, <1>3, <1>4, <1>5, <1>6, <1>7, <1>8, <1>9, <1>10, <1>11,
     <1>12, <1>13, <1>14, <1>15, <1>16, <1>17, <1>18, <1>19, <1>20, <1>21,
     <1>22, <1>23, <1>24, <1>25, <1>26, <1>27, <1>28
  DEF Next, Work, Deliver, Human, Sweep, Dispatch, Execute, Report, Crash,
      BeatThrows

\* The flow of an existing task exists.
LEMMA FlowStep ==
  ASSUME FlowExists, ScanExists, VerdictIsSet, TypeOK, HoldsTask, [Next]_vars
  PROVE  FlowExists'
<1>1. ASSUME NEW w \in Workers, BeginSweep(w)
      PROVE  FlowExists'
  BY <1>1 DEF TypeOK, HoldsTask, FlowExists, BeginSweep, Goto, rows, env
<1>2. ASSUME NEW w \in Workers, NEW t \in Tasks, NEW a \in 0..MaxAttempts,
             ExpireTask(w, t, a)
      PROVE  FlowExists'
  BY <1>2, RuntimeAssumption
  DEF TypeOK, HoldsTask, FlowExists, ExpireTask, env, RuntimeAssumption,
      ScanExists
<1>3. ASSUME NEW w \in Workers, CheckFlow(w)
      PROVE  FlowExists'
  BY <1>3 DEF TypeOK, HoldsTask, FlowExists, CheckFlow, Goto, Leave, rows, env
<1>4. ASSUME NEW w \in Workers, PickTask(w)
      PROVE  FlowExists'
  BY <1>4
  DEF TypeOK, HoldsTask, FlowExists, PickTask, Queued, TasksOf, Goto, Leave,
      rows, env
<1>5. ASSUME NEW w \in Workers, LoadTask(w)
      PROVE  FlowExists'
  BY <1>5 DEF TypeOK, HoldsTask, FlowExists, LoadTask, Return, Goto, rows, env
<1>6. ASSUME NEW w \in Workers, Claim(w)
      PROVE  FlowExists'
  BY <1>6, RuntimeAssumption
  DEF TypeOK, HoldsTask, FlowExists, Claim, Return, Goto, env,
      RuntimeAssumption
<1>7. ASSUME NEW w \in Workers, Beat(w)
      PROVE  FlowExists'
  BY <1>7 DEF TypeOK, HoldsTask, FlowExists, Beat, Goto, env
<1>8. ASSUME NEW w \in Workers, Prepared(w)
      PROVE  FlowExists'
  BY <1>8 DEF TypeOK, HoldsTask, FlowExists, Prepared, Goto, rows, env
<1>9. ASSUME NEW w \in Workers, NEW x \in Files, LockFile(w, x)
      PROVE  FlowExists'
  BY <1>9 DEF TypeOK, HoldsTask, FlowExists, LockFile, rows, env
<1>10. ASSUME NEW w \in Workers, LockCommit(w)
      PROVE  FlowExists'
  BY <1>10 DEF TypeOK, HoldsTask, FlowExists, LockCommit, Goto, env
<1>11. ASSUME NEW w \in Workers, Start(w)
      PROVE  FlowExists'
  BY <1>11, RuntimeAssumption
  DEF TypeOK, HoldsTask, FlowExists, Start, Goto, env, RuntimeAssumption
<1>12. ASSUME NEW w \in Workers, PauseRun(w)
      PROVE  FlowExists'
  BY <1>12, RuntimeAssumption
  DEF TypeOK, HoldsTask, FlowExists, PauseRun, Settle, Return, Goto, env,
      RuntimeAssumption
<1>13. ASSUME NEW w \in Workers, FailRun(w)
      PROVE  FlowExists'
  BY <1>13, RuntimeAssumption
  DEF TypeOK, HoldsTask, FlowExists, FailRun, Settle, Return, Goto, env,
      RuntimeAssumption
<1>14. ASSUME NEW w \in Workers, CompleteRead(w)
      PROVE  FlowExists'
  BY <1>14 DEF TypeOK, HoldsTask, FlowExists, CompleteRead, Goto, rows, env
<1>15. ASSUME NEW w \in Workers, CompleteCommit(w)
      PROVE  FlowExists'
  BY <1>15, RuntimeAssumption
  DEF TypeOK, HoldsTask, FlowExists, CompleteCommit, Return, Goto, env,
      RuntimeAssumption, VerdictIsSet
<1>16. ASSUME NEW w \in Workers, NEW f \in Flows, HandleLaunched(w, f)
      PROVE  FlowExists'
  BY <1>16 DEF TypeOK, HoldsTask, FlowExists, HandleLaunched, Goto, rows
<1>17. ASSUME NEW w \in Workers, NEW t \in Tasks, HandleResumed(w, t)
      PROVE  FlowExists'
  BY <1>17, RuntimeAssumption
  DEF TypeOK, HoldsTask, FlowExists, HandleResumed, Goto, RuntimeAssumption
<1>18. ASSUME NEW w \in Workers, Tick(w)
      PROVE  FlowExists'
  BY <1>18 DEF TypeOK, HoldsTask, FlowExists, Tick, Goto, rows, env
<1>19. ASSUME NEW w \in Workers, Die(w)
      PROVE  FlowExists'
  BY <1>19 DEF TypeOK, HoldsTask, FlowExists, Die, Goto, rows
<1>20. ASSUME NEW t \in Tasks, HandlePaused(t)
      PROVE  FlowExists'
  BY <1>20, RuntimeAssumption
  DEF TypeOK, HoldsTask, FlowExists, HandlePaused, Settle, local,
      RuntimeAssumption
<1>21. ASSUME NEW t \in Tasks, Age(t)
      PROVE  FlowExists'
  BY <1>21 DEF TypeOK, HoldsTask, FlowExists, Age, local, env
<1>22. ASSUME NEW f \in Flows, Launch(f)
      PROVE  FlowExists'
  BY <1>22, RuntimeAssumption
  DEF TypeOK, HoldsTask, FlowExists, Launch, local, RuntimeAssumption
<1>23. ASSUME NEW t \in Tasks, PauseRoute(t)
      PROVE  FlowExists'
  BY <1>23, RuntimeAssumption
  DEF TypeOK, HoldsTask, FlowExists, PauseRoute, Settle, local,
      RuntimeAssumption
<1>24. ASSUME NEW t \in Tasks, ResumeRoute(t) \/ ResolveRoute(t)
      PROVE  FlowExists'
  BY <1>24, RuntimeAssumption
  DEF TypeOK, HoldsTask, FlowExists, ResumeRoute, ResolveRoute, Requeue,
      local, RuntimeAssumption
<1>25. CASE KillRead
  BY <1>25 DEF TypeOK, HoldsTask, FlowExists, KillRead, rows, local
<1>26. CASE KillCommit
  BY <1>26, RuntimeAssumption
  DEF TypeOK, HoldsTask, FlowExists, KillCommit, local, RuntimeAssumption
<1>27. ASSUME NEW t \in Tasks, NEW f \in Flows, Rewind(t, f)
      PROVE  FlowExists'
  BY <1>27 DEF TypeOK, HoldsTask, FlowExists, Rewind, TasksOf, local
<1>28. CASE UNCHANGED vars
  BY <1>28 DEF TypeOK, HoldsTask, FlowExists, vars, rows, local, env
<1> QED
  BY <1>1, <1>2, <1>3, <1>4, <1>5, <1>6, <1>7, <1>8, <1>9, <1>10, <1>11,
     <1>12, <1>13, <1>14, <1>15, <1>16, <1>17, <1>18, <1>19, <1>20, <1>21,
     <1>22, <1>23, <1>24, <1>25, <1>26, <1>27, <1>28
  DEF Next, Work, Deliver, Human, Sweep, Dispatch, Execute, Report, Crash,
      BeatThrows

\* Every step keeps the types.
LEMMA TypeStep ==
  ASSUME TypeOK, HoldsTask, [Next]_vars
  PROVE  TypeOK'
<1>1. CASE UNCHANGED vars
  BY <1>1 DEF TypeOK, vars, rows, local, env
<1>2. ASSUME NEW w \in Workers, Work(w) \/ Deliver(w) \/ Tick(w) \/ Crash(w)
      PROVE  TypeOK'
  BY <1>2, TypeSweep, TypeDispatch, TypeExecute, TypeReport, TypeDeliver,
     TypeEnvironment
  DEF Work
<1>3. ASSUME NEW t \in Tasks, HandlePaused(t) \/ Age(t)
      PROVE  TypeOK'
  BY <1>3, TypeEnvironment
<1> QED BY <1>1, <1>2, <1>3, TypeHuman DEF Next

Inv ==
  /\ TypeOK
  /\ HoldsTask
  /\ RunningHasExecutor
  /\ LockHasExecutor
  /\ FlowExists
  /\ ScanExists
  /\ VerdictIsSet

\* The inductive invariant holds of every behaviour of the worker, the routes
\* and the watchdog.
THEOREM InvHolds == Spec => []Inv
<1>1. Init => Inv
  BY InitTypeOK
  DEF Init, Inv, HoldsTask, RunningHasExecutor, LockHasExecutor, FlowExists,
      ScanExists, VerdictIsSet
<1>2. Inv /\ [Next]_vars => Inv'
  BY TypeStep, HoldsTaskStep, RunningStep, LockStep, FlowStep, ScanStep,
     VerdictStep
  DEF Inv
<1> QED BY <1>1, <1>2, PTL DEF Spec

-----------------------------------------------------------------------------
\* Every variable of the runtime keeps its type, whatever the routes, the
\* watchdog, redelivered events and crashes of route.ts do.
THEOREM TypeCorrect == Spec => []TypeOK
<1>1. Inv => TypeOK
  BY DEF Inv
<1> QED BY <1>1, InvHolds, PTL

\* A RUNNING row without an execution behind it is the trace of a handler that
\* died: executeTaskById has no path that leaves one behind.
THEOREM RunningIsBacked == Spec => []RunningHasExecutor
<1>1. Inv => RunningHasExecutor
  BY DEF Inv
<1> QED BY <1>1, InvHolds, PTL

\* An active file lock without an execution that will release it is the trace
\* of a handler that died.
THEOREM LocksAreBacked == Spec => []LockHasExecutor
<1>1. Inv => LockHasExecutor
  BY DEF Inv
<1> QED BY <1>1, InvHolds, PTL

\* The ways in which a step may write the row of a terminal task.
MayReopen(t) ==
  \/ \E w \in Workers : Executes(w, t) \/ \E a \in 0..MaxAttempts : <<t, a>> \in scan[w]
  \/ human' > human
  \/ inbox'[<<"paused", t>>] < inbox[<<"paused", t>>]

\* Every step but those leaves the rows of terminal tasks alone.
LEMMA FinalStep ==
  ASSUME TypeOK, HoldsTask, FlowExists, [Next]_vars,
         NEW z \in Tasks, task[z] \in Terminal, task'[z] # task[z]
  PROVE  MayReopen(z)
<1> USE DEF Terminal
<1>1. ASSUME NEW w \in Workers, Work(w)
      PROVE  MayReopen(z)
  <2>1. CASE Sweep(w)
    BY <2>1 DEF Sweep, BeginSweep, ExpireTask, MayReopen, TypeOK, rows
  <2>2. CASE Dispatch(w)
    BY <2>2 DEF Dispatch, CheckFlow, PickTask, rows
  <2>3. CASE Execute(w)
    <3>1. CASE Claim(w)
      BY <3>1 DEF Claim, TypeOK, HoldsTask
    <3>2. CASE Start(w)
      BY <3>2 DEF Start, MayReopen, Executes, Executing, TypeOK
    <3> QED
      BY <2>3, <3>1, <3>2
      DEF Execute, LoadTask, Beat, BeatThrows, Die, Prepared, LockFile,
          LockCommit, rows
  <2>4. CASE Report(w)
    <3>1. CASE CompleteRead(w)
      BY <3>1 DEF CompleteRead, rows
    <3>2. CASE ~CompleteRead(w)
      <4>1. pc[w] \in Executing
        BY <2>4, <3>2
        DEF Report, PauseRun, FailRun, CompleteCommit, BlockedOnLock, Executing
      <4>2. cur[w] = z
        <5>1. task' = [task EXCEPT ![cur[w]] = task'[cur[w]]]
          BY <2>4, <3>2
          DEF Report, PauseRun, FailRun, CompleteCommit, Settle, TypeOK
        <5> QED BY <5>1 DEF TypeOK
      <4> QED BY <4>1, <4>2 DEF MayReopen, Executes
    <3> QED BY <3>1, <3>2
  <2> QED BY <1>1, <2>1, <2>2, <2>3, <2>4 DEF Work
<1>2. ASSUME NEW w \in Workers, Deliver(w)
      PROVE  MayReopen(z)
  <2>1. ASSUME NEW f \in Flows, HandleLaunched(w, f)
        PROVE  FALSE
    BY <2>1 DEF HandleLaunched, rows
  <2>2. ASSUME NEW t \in Tasks, HandleResumed(w, t)
        PROVE  FALSE
    <3>1. task' = [task EXCEPT ![t] = "RUNNING"] /\ task[t] \in {"QUEUED", "PAUSED"}
      BY <2>2 DEF HandleResumed
    <3> QED BY <3>1 DEF TypeOK
  <2> QED BY <1>2, <2>1, <2>2 DEF Deliver
<1>3. ASSUME NEW w \in Workers, Tick(w) \/ Crash(w)
      PROVE  MayReopen(z)
  BY <1>3 DEF Tick, Crash, Die, rows
<1>4. ASSUME NEW t \in Tasks, HandlePaused(t) \/ Age(t)
      PROVE  MayReopen(z)
  <2>1. CASE Age(t)
    BY <2>1 DEF Age
  <2>2. CASE HandlePaused(t)
    <3>1. t = z
      BY <2>2 DEF HandlePaused, Settle, TypeOK
    <3>2. <<"paused", z>> \in Events
      BY DEF Events
    <3> QED BY <2>2, <3>1, <3>2 DEF HandlePaused, Send, MayReopen, TypeOK
  <2> QED BY <1>4, <2>1, <2>2
<1>5. CASE Human
  <2>1. ASSUME NEW f \in Flows, Launch(f)
        PROVE  MayReopen(z)
    BY <2>1 DEF Launch, FlowExists, TypeOK
  <2>2. CASE KillCommit
    BY <2>2 DEF KillCommit, TypeOK
  <2>3. CASE human' = human + 1
    BY <2>3 DEF MayReopen, TypeOK
  <2>4. ASSUME NEW t \in Tasks, NEW g \in Flows, Rewind(t, g)
        PROVE  MayReopen(z)
    <3>1. PICK u \in Tasks : TasksOf(g) = {u} /\ task' = [task EXCEPT ![u] = "QUEUED"]
      BY <2>4 DEF Rewind
    <3>2. task[u] = "NONE"
      BY <2>4, <3>1 DEF Rewind, TasksOf, FlowExists
    <3> QED BY <3>1, <3>2 DEF Terminal, TypeOK
  <2> QED
    BY <1>5, <2>1, <2>2, <2>3, <2>4
    DEF Human, HumanCall, PauseRoute, ResumeRoute, ResolveRoute, KillRead
<1>6. CASE UNCHANGED vars
  BY <1>6 DEF vars, rows
<1> QED BY <1>1, <1>2, <1>3, <1>4, <1>5, <1>6 DEF Next

\* A finished or killed task is reopened by an execution, a watchdog pass or a
\* human, and by no late event, dispatch or other task.
THEOREM FinalTasks == Spec => TerminalIsFinal
<1>1. Inv /\ [Next]_vars =>
        \A t \in Tasks : task[t] \in Terminal /\ task'[t] # task[t] => MayReopen(t)
  BY FinalStep DEF Inv
<1> QED BY <1>1, InvHolds, PTL DEF Spec, TerminalIsFinal, MayReopen

-----------------------------------------------------------------------------
\* The order in which the tasks of a flow begin.

\* Waiting for its first execution.
Fresh(t) == task[t] = "QUEUED" /\ attempts[t] <= 1

Earlier(e, t) == FlowOf[e] = FlowOf[t] /\ Rank[e] < Rank[t]

Holds(w) == pc[w] \notin {"idle", "loop", "sweep", "pick"}

NoResumes == \A t \in Tasks : inbox[<<"resumed", t>>] = 0

\* A worker has passed every earlier task, and its own exists.
Passed ==
  \A w \in Workers : Holds(w) =>
    /\ task[cur[w]] # "NONE"
    /\ \A e \in Tasks : Earlier(e, cur[w]) => ~Fresh(e)

\* The worker takes the first QUEUED task of its flow.
TakesFirst(w) ==
  /\ UNCHANGED <<task, attempts>>
  /\ cur'[w] \in Tasks
  /\ task[cur'[w]] = "QUEUED"
  /\ \A e \in Tasks : Earlier(e, cur'[w]) => task[e] # "QUEUED"

\* What a step may do to the workers' tasks and to the rows.
OrderStep ==
  /\ \A w \in Workers : Holds(w)' => (Holds(w) /\ cur'[w] = cur[w]) \/ TakesFirst(w)
  /\ \A t \in Tasks :
       /\ task[t] # "NONE" => task'[t] # "NONE"
       /\ Fresh(t)' => Fresh(t) \/ flow[FlowOf[t]] = "NONE"
  /\ \A t \in Tasks : task[t] = "QUEUED" /\ task'[t] = "RUNNING" =>
       \E w \in Workers : Holds(w) /\ cur[w] = t

\* A worker that takes up task.resumed has found one.
LEMMA NoneToTake ==
  ASSUME NoResumes, NEW w \in Workers, NEW t \in Tasks
  PROVE  ~HandleResumed(w, t)
<1>1. inbox[<<"resumed", t>>] = 0
  BY DEF NoResumes
<1>2. HandleResumed(w, t) => inbox[<<"resumed", t>>] > 0
  BY DEF HandleResumed
<1> QED BY <1>1, <1>2

\* An event of another kind leaves the inbox without task.resumed.
LEMMA OtherSent ==
  ASSUME TypeOK, NoResumes, NEW e \in Events, NEW n \in Int,
         \A t \in Tasks : <<"resumed", t>> # e, Send(e, n)
  PROVE  NoResumes'
<1> SUFFICES ASSUME NEW t \in Tasks PROVE inbox'[<<"resumed", t>>] = 0
  BY DEF NoResumes
<1>1. <<"resumed", t>> \in Events /\ <<"resumed", t>> # e
  BY DEF Events
<1>2. inbox[<<"resumed", t>>] = 0
  BY DEF NoResumes
<1> QED BY <1>1, <1>2 DEF Send, TypeOK

\* Without resumes no task.resumed event is ever under way.
LEMMA NoResumesStep ==
  ASSUME HumanOps \cap {"resume", "resolve"} = {},
         TypeOK, NoResumes, [Next]_vars
  PROVE  NoResumes'
<1>1. /\ \A f \in Flows : /\ <<"launched", f>> \in Events
                          /\ \A t \in Tasks : <<"resumed", t>> # <<"launched", f>>
      /\ \A u \in Tasks : /\ <<"paused", u>> \in Events
                          /\ \A t \in Tasks : <<"resumed", t>> # <<"paused", u>>
  BY DEF Events
<1>2. ASSUME UNCHANGED inbox PROVE NoResumes'
  BY <1>2 DEF NoResumes
<1>3. ASSUME NEW w \in Workers, Work(w) \/ Tick(w) \/ Crash(w)
      PROVE  UNCHANGED inbox
  BY <1>3
  DEF Work, Sweep, Dispatch, Execute, Report, BeginSweep, ExpireTask, CheckFlow,
      PickTask, LoadTask, Claim, Beat, BeatThrows, Prepared, LockFile, LockCommit,
      Start, PauseRun, FailRun, CompleteRead, CompleteCommit, Tick, Crash, Die, env
<1>4. ASSUME NEW w \in Workers, Deliver(w)
      PROVE  NoResumes'
  <2>1. PICK f \in Flows : HandleLaunched(w, f)
    BY <1>4, NoneToTake DEF Deliver
  <2>2. Send(<<"launched", f>>, -1)
    BY <2>1 DEF HandleLaunched
  <2> QED BY <1>1, <2>2, OtherSent
<1>5. ASSUME NEW t \in Tasks, HandlePaused(t)
      PROVE  NoResumes'
  <2>1. Send(<<"paused", t>>, -1)
    BY <1>5 DEF HandlePaused
  <2> QED BY <1>1, <2>1, OtherSent
<1>6. CASE Human
  <2>1. Copies \subseteq Int
    BY RuntimeAssumption DEF RuntimeAssumption
  <2>2. ASSUME NEW f \in Flows, Launch(f) \/ \E t \in Tasks : Rewind(t, f)
        PROVE  NoResumes'
    <3>1. PICK n \in Copies : Send(<<"launched", f>>, n)
      BY <2>2 DEF Launch, Rewind
    <3> QED BY <1>1, <2>1, <3>1, OtherSent
  <2>3. ASSUME NEW t \in Tasks, PauseRoute(t)
        PROVE  NoResumes'
    <3>1. PICK n \in 0..1 : Send(<<"paused", t>>, n)
      BY <2>3 DEF PauseRoute
    <3> QED BY <1>1, <3>1, OtherSent
  <2>4. CASE KillRead \/ KillCommit
    BY <1>2, <2>4 DEF KillRead, KillCommit
  <2>5. \A t \in Tasks : ~ResumeRoute(t) /\ ~ResolveRoute(t)
    BY DEF ResumeRoute, ResolveRoute, HumanCall
  <2> QED BY <1>6, <2>2, <2>3, <2>4, <2>5 DEF Human
<1>7. ASSUME NEW t \in Tasks, Age(t)
      PROVE  UNCHANGED inbox
  BY <1>7 DEF Age, env
<1>8. CASE UNCHANGED vars
  BY <1>2, <1>8 DEF vars, env
<1> QED BY <1>2, <1>3, <1>4, <1>5, <1>6, <1>7, <1>8 DEF Next

\* The steps of a worker that has a task write the row of that task.
LEMMA RowOrder ==
  ASSUME TypeOK, HoldsTask, NEW w \in Workers,
         LoadTask(w) \/ Claim(w) \/ Beat(w) \/ BeatThrows(w) \/ Prepared(w)
         \/ LockCommit(w) \/ Start(w) \/ Report(w) \/ Crash(w)
         \/ \E x \in Files : LockFile(w, x)
  PROVE  OrderStep
<1>1. \A v \in Workers : Holds(v)' => Holds(v) /\ cur'[v] = cur[v]
  <2>1. CASE LoadTask(w)
    BY <2>1 DEF TypeOK, LoadTask, Return, Goto, Holds
  <2>2. CASE Claim(w)
    BY <2>2 DEF TypeOK, Claim, Return, Goto, Holds
  <2>3. CASE Beat(w) \/ Prepared(w) \/ LockCommit(w) \/ Start(w) \/ CompleteRead(w)
    BY <2>3 DEF TypeOK, Beat, Prepared, LockCommit, Start, CompleteRead, Goto, Holds
  <2>4. CASE BeatThrows(w) \/ Crash(w)
    BY <2>4 DEF TypeOK, BeatThrows, Crash, Die, Goto, Holds
  <2>5. CASE PauseRun(w) \/ FailRun(w) \/ CompleteCommit(w)
    BY <2>5 DEF TypeOK, PauseRun, FailRun, CompleteCommit, Return, Goto, Holds
  <2>6. CASE \E x \in Files : LockFile(w, x)
    BY <2>6 DEF LockFile, Holds
  <2> QED BY <2>1, <2>2, <2>3, <2>4, <2>5, <2>6 DEF Report
<1>2. CASE UNCHANGED <<task, attempts>>
  BY <1>1, <1>2 DEF OrderStep, Fresh
<1>3. CASE ~UNCHANGED <<task, attempts>>
  <2>1. Holds(w) /\ cur[w] \in Tasks
    BY <1>3
    DEF HoldsTask, Holds, LoadTask, Claim, Beat, BeatThrows, Prepared, LockCommit,
        Start, Report, PauseRun, FailRun, BlockedOnLock, CompleteRead,
        CompleteCommit, Crash, Die, LockFile, rows
  <2>2. \E s \in {"RUNNING", "PAUSED", "FAILED", "COMPLETED"} :
          task' = [task EXCEPT ![cur[w]] = s]
    BY <1>3
    DEF LoadTask, Claim, Beat, BeatThrows, Prepared, LockCommit, Start, Report,
        PauseRun, FailRun, CompleteRead, CompleteCommit, Settle, Crash, Die,
        LockFile, rows
  <2>3. \A t \in Tasks : t # cur[w] => attempts'[t] = attempts[t]
    BY <1>3
    DEF TypeOK, LoadTask, Claim, Beat, BeatThrows, Prepared, LockCommit, Start,
        Report, PauseRun, FailRun, CompleteRead, CompleteCommit, Crash, Die,
        LockFile, rows
  <2> QED BY <1>1, <2>1, <2>2, <2>3 DEF OrderStep, Fresh, TypeOK
<1> QED BY <1>2, <1>3

\* So does every other step.
LEMMA NextOrder ==
  ASSUME HumanOps \cap {"resume", "resolve"} = {},
         TypeOK, HoldsTask, FlowExists, ScanExists, NoResumes, [Next]_vars
  PROVE  OrderStep
<1>1. ASSUME NEW w \in Workers, Sweep(w)
      PROVE  OrderStep
  <2>1. CASE BeginSweep(w)
    BY <2>1 DEF OrderStep, Holds, Fresh, TypeOK, BeginSweep, Goto, rows
  <2>2. ASSUME NEW t \in Tasks, NEW a \in 0..MaxAttempts, ExpireTask(w, t, a)
        PROVE  OrderStep
    <3>1. task[t] # "NONE"
      BY <2>2 DEF ExpireTask, ScanExists
    <3>2. ~Fresh(t)' /\ task'[t] \notin {"NONE", "RUNNING"}
      <4>1. CASE CanRetry(a)
        BY <2>2, <4>1, RuntimeAssumption
        DEF ExpireTask, CanRetry, Fresh, TypeOK, RuntimeAssumption
      <4>2. CASE ~CanRetry(a)
        BY <2>2, <4>2 DEF ExpireTask, Fresh, TypeOK
      <4> QED BY <4>1, <4>2
    <3>3. \A u \in Tasks : u # t => task'[u] = task[u] /\ attempts'[u] = attempts[u]
      BY <2>2 DEF ExpireTask, TypeOK
    <3>4. UNCHANGED <<pc, cur>>
      BY <2>2 DEF ExpireTask
    <3> QED BY <3>1, <3>2, <3>3, <3>4 DEF OrderStep, Holds, Fresh
  <2> QED BY <1>1, <2>1, <2>2 DEF Sweep
<1>2. ASSUME NEW w \in Workers, Dispatch(w)
      PROVE  OrderStep
  <2>1. UNCHANGED <<task, attempts>>
    BY <1>2 DEF Dispatch, CheckFlow, PickTask, rows
  <2>2. \A v \in Workers : Holds(v)' => (Holds(v) /\ cur'[v] = cur[v]) \/ TakesFirst(v)
    <3>1. CASE CheckFlow(w)
      BY <3>1 DEF CheckFlow, Goto, Leave, Holds, TypeOK
    <3>2. CASE PickTask(w) /\ Leave(w)
      BY <3>2 DEF Goto, Leave, Holds, TypeOK
    <3>3. ASSUME NEW t \in Queued(home[w]),
                 \A u \in Queued(home[w]) : Rank[t] <= Rank[u],
                 pc[w] = "pick", cur' = [cur EXCEPT ![w] = t], Goto(w, "load")
          PROVE  \A v \in Workers :
                   Holds(v)' => (Holds(v) /\ cur'[v] = cur[v]) \/ TakesFirst(v)
      <4>1. /\ t \in Tasks
            /\ task[t] = "QUEUED"
            /\ \A u \in Tasks : FlowOf[u] = FlowOf[t] /\ task[u] = "QUEUED" =>
                 Rank[t] <= Rank[u]
        BY <3>3 DEF Queued, TasksOf
      <4>2. \A u \in Tasks : Earlier(u, t) => task[u] # "QUEUED"
        BY <4>1, RuntimeAssumption DEF Earlier, RuntimeAssumption
      <4>3. cur'[w] = t /\ \A v \in Workers : v # w => cur'[v] = cur[v] /\ pc'[v] = pc[v]
        BY <3>3 DEF TypeOK, Goto
      <4> QED BY <2>1, <4>1, <4>2, <4>3 DEF TakesFirst, Holds
    <3> QED BY <1>2, <3>1, <3>2, <3>3 DEF Dispatch, PickTask
  <2> QED BY <2>1, <2>2 DEF OrderStep, Fresh
<1>3. ASSUME NEW w \in Workers, Execute(w) \/ Report(w) \/ Crash(w)
      PROVE  OrderStep
  BY <1>3, RowOrder DEF Execute
<1>4. ASSUME NEW w \in Workers, Deliver(w) \/ Tick(w)
      PROVE  OrderStep
  <2>1. \A t \in Tasks : ~HandleResumed(w, t)
    BY NoneToTake
  <2> QED
    BY <1>4, <2>1
    DEF Deliver, Tick, HandleLaunched, Goto, OrderStep, Holds, Fresh, TypeOK, rows
<1>5. ASSUME NEW t \in Tasks, HandlePaused(t) \/ PauseRoute(t) \/ Age(t)
      PROVE  OrderStep
  <2>1. UNCHANGED <<pc, cur, attempts>>
    BY <1>5 DEF HandlePaused, PauseRoute, Age, local
  <2>2. task' = task \/ task' = [task EXCEPT ![t] = "PAUSED"]
    BY <1>5 DEF HandlePaused, PauseRoute, Age, Settle
  <2> QED BY <2>1, <2>2 DEF OrderStep, Holds, Fresh, TypeOK
<1>6. ASSUME NEW f \in Flows, Launch(f) \/ \E t \in Tasks : Rewind(t, f)
      PROVE  OrderStep
  <2>1. flow[f] = "NONE" /\ UNCHANGED <<pc, cur>>
    BY <1>6 DEF Launch, Rewind, local
  <2>2. \A t \in Tasks :
          \/ UNCHANGED <<task[t], attempts[t]>>
          \/ FlowOf[t] = f /\ task'[t] = "QUEUED"
    BY <1>6 DEF Launch, Rewind, TasksOf, TypeOK
  <2> QED BY <2>1, <2>2 DEF OrderStep, Holds, Fresh
<1>7. CASE KillRead \/ KillCommit
  <2>1. UNCHANGED <<pc, cur, attempts>>
    BY <1>7 DEF KillRead, KillCommit, local, rows
  <2>2. \A t \in Tasks : task'[t] = task[t] \/ task'[t] = "ABORTED"
    BY <1>7 DEF KillRead, KillCommit, rows
  <2> QED BY <2>1, <2>2 DEF OrderStep, Holds, Fresh
<1>8. CASE UNCHANGED vars
  BY <1>8 DEF vars, rows, local, OrderStep, Holds, Fresh
<1>9. \A t \in Tasks : ~ResumeRoute(t) /\ ~ResolveRoute(t)
  BY DEF ResumeRoute, ResolveRoute, HumanCall
<1> QED
  BY <1>1, <1>2, <1>3, <1>4, <1>5, <1>6, <1>7, <1>8, <1>9 DEF Next, Work, Human

\* A worker's earlier tasks stay passed: a new row belongs to no flow that a
\* worker has a task of.
LEMMA PassedStep ==
  ASSUME HoldsTask, FlowExists, Passed, OrderStep
  PROVE  Passed'
<1> SUFFICES ASSUME NEW w \in Workers, Holds(w)'
             PROVE  /\ task'[cur'[w]] # "NONE"
                    /\ \A e \in Tasks : Earlier(e, cur'[w]) => ~Fresh(e)'
  BY DEF Passed, Earlier
<1>1. CASE Holds(w) /\ cur'[w] = cur[w]
  <2>1. cur[w] \in Tasks /\ task[cur[w]] # "NONE" /\ flow[FlowOf[cur[w]]] # "NONE"
    BY <1>1 DEF Passed, HoldsTask, Holds, FlowExists
  <2>2. ASSUME NEW e \in Tasks, Earlier(e, cur[w])
        PROVE  ~Fresh(e)'
    BY <1>1, <2>1, <2>2 DEF Passed, OrderStep, Earlier
  <2> QED BY <1>1, <2>1, <2>2 DEF OrderStep
<1>2. CASE TakesFirst(w)
  BY <1>2 DEF TakesFirst, Fresh
<1> QED BY <1>1, <1>2 DEF OrderStep

\* What the dispatch loop keeps of its order: for any number of flows, tasks,
\* dispatchers of one flow, slow or dying handlers, watchdog passes, pauses,
\* kills and rewinds, and as long as no human resumes a task, no task begins
\* while an earlier one of its flow has never begun.
THEOREM Begun ==
  ASSUME HumanOps \cap {"resume", "resolve"} = {}
  PROVE  Spec => BegunInOrder
<1> DEFINE OInv == Inv /\ NoResumes /\ Passed
<1>1. Init => NoResumes /\ Passed
  BY DEF Init, NoResumes, Passed, Holds, Events
<1>2. OInv /\ [Next]_vars => NoResumes' /\ Passed'
  BY NoResumesStep, NextOrder, PassedStep DEF Inv
<1>3. OInv /\ [Next]_vars =>
        \A t, e \in Tasks :
          /\ FlowOf[e] = FlowOf[t]
          /\ Rank[e] < Rank[t]
          /\ task[t] = "QUEUED"
          /\ task'[t] = "RUNNING"
          => task[e] # "QUEUED" \/ attempts[e] > 1
  <2> SUFFICES ASSUME OInv, [Next]_vars, NEW t \in Tasks, NEW e \in Tasks,
                      FlowOf[e] = FlowOf[t], Rank[e] < Rank[t],
                      task[t] = "QUEUED", task'[t] = "RUNNING"
               PROVE  task[e] # "QUEUED" \/ attempts[e] > 1
    OBVIOUS
  <2>1. PICK w \in Workers : Holds(w) /\ cur[w] = t
    BY NextOrder DEF Inv, OrderStep
  <2>2. ~Fresh(e)
    BY <2>1 DEF Passed, Earlier
  <2> QED BY <2>2 DEF Fresh, Inv, TypeOK
<1> QED BY <1>1, <1>2, <1>3, InvHolds, PTL DEF Spec, BegunInOrder

=============================================================================
