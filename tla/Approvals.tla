----------------------------- MODULE Approvals ------------------------------
(***************************************************************************)
(* The approval checkpoints of one task: the worker of                     *)
(* app/api/inngest/route.ts that asks for an approval in three steps       *)
(* (checkpoint, agent run, task.paused), the route that resolves a         *)
(* checkpoint, the route that resumes a task, and the publish and kick by  *)
(* which both hand the task back to the worker.                            *)
(*                                                                         *)
(* An execution of the task makes one agent run, and a run at most one     *)
(* checkpoint, so a checkpoint is named by its run.  The transaction that  *)
(* resolves a checkpoint is cut in two: what it reads, with the row locks  *)
(* it takes, and its commit.                                               *)
(***************************************************************************)
EXTENDS Naturals, FiniteSets

CONSTANTS
  Runs,       \* agent runs that may be created, each with its checkpoint
  Agents,     \* logical agents a run may be given to
  Handlers,   \* requests /api/inngest serves at the same time
  Requests,   \* requests of humans served at the same time
  Budgets,    \* bound: how often humans call each route in a behaviour, and
              \* how many messages are lost and processes die
  NoRun, NoAgent, NoRequest

Terminal    == {"COMPLETED", "FAILED"}
TaskStatus  == {"QUEUED", "RUNNING", "PAUSED"} \cup Terminal
CpStatus    == {"none", "PENDING", "APPROVED", "REJECTED"}
AgentStatus == {"ACTIVE", "WAITING_HUMAN", "BLOCKED", "COMPLETED", "FAILED"}

ASSUME ApprovalsAssumption ==
  /\ Requests # {} /\ Handlers # {} /\ Runs # {}
  /\ NoRun \notin Runs /\ NoAgent \notin Agents /\ NoRequest \notin Requests
  /\ Budgets \subseteq [resolve : Nat, resume : Nat, faults : Nat]

VARIABLES
  task,    \* Task.status
  traced,  \* executionTrace.agentRuntime.agentRunId
  cp,      \* ApprovalCheckpoint.status of each run's checkpoint
  run,     \* AgentRun.status
  owner,   \* AgentRun.agentId
  agent,   \* Agent.status
  hdl,     \* requests in progress in /api/inngest
  req,     \* requests of humans in progress
  budget,  \* the calls and faults that may still happen
  early,   \* ghost: checkpoints decided before task.paused was reported
  aside,   \* ghost: checkpoints approved by a resume, of runs not in the trace
  twice,   \* ghost: checkpoints two requests decided at the same time
  loose    \* ghost: why a task may be left alone, see the actions

vars == <<task, traced, cp, run, owner, agent, hdl, req, budget, early, aside,
          twice, loose>>

Free == [pc |-> "idle", run |-> NoRun, late |-> FALSE, by |-> NoRequest]
Idle == [op |-> "none", pc |-> "idle", run |-> NoRun, yes |-> FALSE,
         ends |-> FALSE, go |-> FALSE]

HdlPc == {"claim", "look", "load", "grab", "begin", "work", "wait", "pause",
          "report", "loop"}
ReqPc == {"tx", "commit", "publish", "posted", "kick", "kicked"}

TypeOK ==
  /\ task \in TaskStatus
  /\ traced \in Runs \cup {NoRun}
  /\ cp \in [Runs -> CpStatus]
  /\ run \in [Runs -> AgentStatus \cup {"none"}]
  /\ owner \in [Runs -> Agents \cup {NoAgent}]
  /\ agent \in [Agents -> AgentStatus]
  /\ hdl \in [Handlers -> [pc : HdlPc, run : Runs \cup {NoRun}, late : BOOLEAN,
                           by : Requests \cup {NoRequest}] \cup {Free}]
  /\ req \in [Requests -> [op : {"resolve", "resume"}, pc : ReqPc,
                           run : Runs \cup {NoRun}, yes : BOOLEAN,
                           ends : BOOLEAN, go : BOOLEAN] \cup {Idle}]
  /\ budget \in [resolve : Nat, resume : Nat, faults : Nat]
  /\ early \subseteq Runs
  /\ aside \subseteq Runs
  /\ twice \subseteq Runs
  /\ loose \subseteq {"bare", "split", "fault", "forced", "seen"}

\* The worker has been handed the flow and is about to look for its tasks.
Init ==
  /\ task = "QUEUED"
  /\ traced = NoRun
  /\ cp = [r \in Runs |-> "none"]
  /\ run = [r \in Runs |-> "none"]
  /\ owner = [r \in Runs |-> NoAgent]
  /\ agent = [a \in Agents |-> "ACTIVE"]
  /\ \E h \in Handlers :
       hdl = [g \in Handlers |-> IF g = h THEN [Free EXCEPT !.pc = "loop"]
                                 ELSE Free]
  /\ req = [q \in Requests |-> Idle]
  /\ budget \in Budgets
  /\ early = {}
  /\ aside = {}
  /\ twice = {}
  /\ loose = {}

rows   == <<task, traced, cp, run, owner, agent>>
ghosts == <<early, aside, twice, loose>>

Spend(k) == budget[k] > 0 /\ budget' = [budget EXCEPT ![k] = @ - 1]

Fault ==
  /\ Spend("faults")
  /\ loose' = loose \cup {"fault"}
  /\ UNCHANGED <<early, aside, twice>>

Set(f, S, v) == [x \in DOMAIN f |-> IF x \in S THEN v ELSE f[x]]

\* The row locks of the resolving transactions that are open.
Committing    == {q \in Requests : req[q].pc = "commit"}
LockedCps     == {req[q].run : q \in Committing}
LockedRuns    == {req[q].run : q \in {s \in Committing : req[s].ends}}
LockedAgents  == {owner[req[q].run] : q \in Committing}

\* The run and the agent of the trace, those of them that are there.
TracedRuns   == {traced} \cap Runs
TracedAgents == {owner[r] : r \in TracedRuns}

\* What task.resumed and the resume route do with the traced run.
EndTraced ==
  Set(run, {r \in TracedRuns : run[r] = "WAITING_HUMAN"}, "COMPLETED")

-----------------------------------------------------------------------------
(* The worker.                                                              *)

\* The answer goes to the request that waits for it.
Answered(q) ==
  CASE req[q].pc = "posted" -> [req[q] EXCEPT !.pc = "kick"]
    [] req[q].pc = "kicked" -> Idle
    [] OTHER                -> req[q]
Reply(h) == req' = [q \in Requests |-> IF q = hdl[h].by THEN Answered(q)
                                       ELSE req[q]]

Step(h, l) == hdl' = [hdl EXCEPT ![h].pc = l]

\* handleEvent(task.resumed): the task is claimed, or the event ignored.
Claimable == {"QUEUED", "PAUSED"}

ClaimResumed(h) ==
  /\ hdl[h].pc = "claim"
  /\ IF task \in Claimable
     THEN /\ LockedRuns \cap TracedRuns = {}
          /\ LockedAgents \cap TracedAgents = {}
          /\ task' = "RUNNING"
          /\ agent' = Set(agent, TracedAgents, "ACTIVE")
          /\ run' = EndTraced
          /\ Step(h, "load")
          /\ req' = req
     ELSE /\ hdl' = [hdl EXCEPT ![h] = Free]
          /\ Reply(h)
          /\ UNCHANGED <<task, agent, run>>
  /\ UNCHANGED <<traced, cp, owner, budget, ghosts>>

\* dispatchQueuedTasksForFlow, here of one task.
Dispatch(h) ==
  /\ hdl[h].pc = "loop"
  /\ IF task = "QUEUED"
     THEN Step(h, "look") /\ req' = req
     ELSE hdl' = [hdl EXCEPT ![h] = Free] /\ Reply(h)
  /\ UNCHANGED <<rows, budget, ghosts>>

\* An agent run is created for the execution that begins.
Execute(h) ==
  \E r \in Runs, a \in Agents :
    /\ run[r] = "none"
    /\ run' = [run EXCEPT ![r] = "ACTIVE"]
    /\ owner' = [owner EXCEPT ![r] = a]
    /\ hdl' = [hdl EXCEPT ![h].pc = "begin", ![h].run = r]

\* executeTaskById: a terminal task is left alone, a QUEUED one claimed, and
\* any other one executed as it is, also when the dispatcher saw it QUEUED and
\* another handler has claimed it since.
Load(h) ==
  /\ hdl[h].pc \in {"look", "load"}
  /\ IF task \in Terminal \cup {"QUEUED"}
     THEN /\ Step(h, IF task = "QUEUED" THEN "grab" ELSE "loop")
          /\ UNCHANGED <<run, owner, loose>>
     ELSE /\ Execute(h)
          /\ loose' = IF hdl[h].pc = "look" THEN loose \cup {"seen"} ELSE loose
  /\ UNCHANGED <<task, traced, cp, agent, req, budget, early, aside, twice>>

Grab(h) ==
  /\ hdl[h].pc = "grab"
  /\ IF task = "QUEUED"
     THEN task' = "RUNNING" /\ Execute(h)
     ELSE /\ Step(h, "loop")
          /\ UNCHANGED <<task, run, owner>>
  /\ UNCHANGED <<traced, cp, agent, req, budget, ghosts>>

\* Policy, budget and tools call for a human, see Ask; or a file is locked, and
\* the task is paused without a checkpoint; or the execution starts.
Begin(h) ==
  /\ hdl[h].pc = "begin"
  /\ \/ /\ run' = [run EXCEPT ![hdl[h].run] = "BLOCKED"]
        /\ Step(h, "pause")
        /\ task' = task
     \/ /\ task' = "RUNNING"
        /\ hdl' = [hdl EXCEPT ![h].pc = "work", ![h].late = TRUE]
        /\ run' = run
  /\ UNCHANGED <<traced, cp, owner, agent, req, budget, ghosts>>

\* The agent has worked: it needs a human, see Ask, or it is done or has failed.
Work(h) ==
  /\ hdl[h].pc = "work"
  /\ \E s \in Terminal : run' = [run EXCEPT ![hdl[h].run] = s]
  /\ Step(h, "report")
  /\ UNCHANGED <<task, traced, cp, owner, agent, req, budget, ghosts>>

\* createApprovalCheckpoint, finalizeAgentRun, task.paused.
Ask(h) ==
  /\ hdl[h].pc \in {"begin", "work"}
  /\ cp' = [cp EXCEPT ![hdl[h].run] = "PENDING"]
  /\ Step(h, "wait")
  /\ UNCHANGED <<task, traced, run, owner, agent, req, budget, ghosts>>

Wait(h) ==
  /\ hdl[h].pc = "wait" /\ hdl[h].run \notin LockedRuns
  /\ run' = [run EXCEPT ![hdl[h].run] = "WAITING_HUMAN"]
  /\ Step(h, "pause")
  /\ UNCHANGED <<task, traced, cp, owner, agent, req, budget, ghosts>>

\* The rows of the transaction of task.paused beside the task's.
PauseRuns(h)   == {hdl[h].run}
PauseAgents(h) == IF hdl[h].late THEN {owner[hdl[h].run]} ELSE {}

Pause(h) ==
  LET r == hdl[h].run IN
  /\ hdl[h].pc = "pause"
  /\ LockedRuns \cap PauseRuns(h) = {} /\ LockedAgents \cap PauseAgents(h) = {}
  /\ task' = "PAUSED"
  /\ run' = [run EXCEPT ![r] = "WAITING_HUMAN"]
  /\ agent' = Set(agent, PauseAgents(h), "WAITING_HUMAN")
  /\ traced' = IF hdl[h].late THEN r ELSE traced
  /\ hdl' = [hdl EXCEPT ![h] = [Free EXCEPT !.pc = "loop", !.by = hdl[h].by]]
  /\ loose' = IF cp[r] = "none" THEN loose \cup {"bare"} ELSE loose
  /\ UNCHANGED <<cp, owner, req, budget, early, aside, twice>>

\* task.completed and task.failed.
Report(h) ==
  LET r == hdl[h].run IN
  /\ hdl[h].pc = "report"
  /\ r \notin LockedRuns /\ owner[r] \notin LockedAgents
  /\ task' = run[r]
  /\ agent' = [agent EXCEPT ![owner[r]] = run[r]]
  /\ traced' = r
  /\ hdl' = [hdl EXCEPT ![h] = [Free EXCEPT !.pc = "loop", !.by = hdl[h].by]]
  /\ UNCHANGED <<cp, run, owner, req, budget, ghosts>>

\* The worker dies: its caller gets no answer.
HandlerDies(h) ==
  /\ hdl[h] # Free
  /\ Fault
  /\ hdl' = [hdl EXCEPT ![h] = Free]
  /\ Reply(h)
  /\ UNCHANGED rows

-----------------------------------------------------------------------------
(* POST /api/approvals/checkpoints/[checkpointId]/resolve.                  *)

\* Only a checkpoint that is not resolved is decided.
\* Mutant: any checkpoint is.
UndecidedAny(r) == cp[r] # "none"
Undecided(r) == cp[r] = "PENDING"

Resolve(q, r, yes) ==
  /\ req[q] = Idle /\ Spend("resolve")
  /\ Undecided(r)
  /\ req' = [req EXCEPT ![q] = [Idle EXCEPT !.op = "resolve", !.pc = "tx",
                                            !.run = r, !.yes = yes]]
  /\ twice' = IF \E s \in Requests : req[s].op = "resolve" /\ req[s].run = r
                                     /\ req[s].pc \in {"tx", "commit"}
              THEN twice \cup {r} ELSE twice
  /\ UNCHANGED <<rows, hdl, early, aside, loose>>

Siblings(r) == {s \in Runs \ {r} : cp[s] = "PENDING"}

\* The transaction takes the rows of the checkpoint, the agent and the run,
\* waiting for those that another one has taken, and counts the siblings.
ResolveTx(q) ==
  LET r == req[q].run IN
  /\ req[q].pc = "tx"
  /\ r \notin LockedCps /\ owner[r] \notin LockedAgents
  /\ req' = [req EXCEPT ![q].pc = "commit",
                        ![q].ends = run[r] = "WAITING_HUMAN",
                        ![q].go = req[q].yes /\ Siblings(r) = {}]
  /\ loose' = IF \E s \in Committing : req[s].yes /\ req[q].yes
              THEN loose \cup {"split"} ELSE loose
  /\ early' = IF \E h \in Handlers : hdl[h].run = r THEN early \cup {r} ELSE early
  /\ UNCHANGED <<rows, hdl, budget, aside, twice>>

\* The statuses from which an approval queues the task.
\* Mutant: a running task is queued as well.
ResumableRunning == {"PAUSED", "QUEUED", "RUNNING"}
Resumable == {"PAUSED", "QUEUED"}

\* What a decision makes of the checkpoint.
Verdict(yes) == IF yes THEN "APPROVED" ELSE "REJECTED"

\* What it makes of the agent.
AgentAfter(yes, s) == IF yes THEN "ACTIVE" ELSE "BLOCKED"

\* What it makes of a run that waits.
\* Mutant: only a rejection ends the run.
EndOfRunRejected(yes) == IF yes THEN "WAITING_HUMAN" ELSE "FAILED"
EndOfRun(yes) == IF yes THEN "COMPLETED" ELSE "FAILED"

ResolveCommit(q) ==
  LET r == req[q].run
      c == req[q]
  IN
  /\ c.pc = "commit"
  /\ cp' = [cp EXCEPT ![r] = Verdict(c.yes)]
  /\ agent' = [agent EXCEPT ![owner[r]] = AgentAfter(c.yes, @)]
  /\ run' = IF c.ends THEN [run EXCEPT ![r] = EndOfRun(c.yes)] ELSE run
  /\ IF c.go /\ task \in Resumable
     THEN task' = "QUEUED" /\ req' = [req EXCEPT ![q].pc = "publish"]
     ELSE task' = task /\ req' = [req EXCEPT ![q] = Idle]
  /\ UNCHANGED <<traced, owner, hdl, budget, ghosts>>

\* task.paused holds the task and waits for the run or the agent; the
\* resolving transaction holds those and waits for the task.  The database
\* aborts one of them: the request fails, or the worker's handler does.
Deadlock(q, h) ==
  /\ req[q].pc = "commit" /\ req[q].go
  /\ hdl[h].pc = "pause"
  /\ \/ req[q].ends /\ req[q].run \in PauseRuns(h)
     \/ owner[req[q].run] \in PauseAgents(h)
  /\ \/ req' = [req EXCEPT ![q] = Idle] /\ hdl' = hdl
     \/ hdl' = [hdl EXCEPT ![h] = Free] /\ Reply(h)
  /\ loose' = loose \cup {"fault"}
  /\ UNCHANGED <<rows, budget, early, aside, twice>>

\* What the resume route has to do once the task is queued.
\* Mutant: nothing.
ResumedSilently == Idle
Resumed == [Idle EXCEPT !.op = "resume", !.pc = "publish"]

\* POST /api/tasks/[taskId]/resume, for a task in any status: one transaction,
\* which waits for the rows it needs.
Resume(q) ==
  /\ req[q] = Idle /\ Spend("resume")
  /\ Committing = {}
  /\ task' = "QUEUED"
  /\ cp' = Set(cp, {r \in Runs : cp[r] = "PENDING"}, "APPROVED")
  /\ agent' = Set(agent, TracedAgents, "ACTIVE")
  /\ run' = EndTraced
  /\ req' = [req EXCEPT ![q] = Resumed]
  /\ LET pending == {r \in Runs : cp[r] = "PENDING"}
         held    == {hdl[h].run : h \in Handlers}
     IN /\ early' = early \cup (pending \cap held)
        \* The runs of these checkpoints are not ended.
        /\ aside' = aside \cup (pending \ (held \cup TracedRuns))
  \* A decision that was read before is still made.
  /\ twice' = twice \cup {req[s].run : s \in {x \in Requests :
                                               req[x].pc = "tx"}}
  /\ loose' = loose \cup (IF task = "RUNNING" THEN {"forced"} ELSE {})
  /\ UNCHANGED <<traced, owner, hdl>>

\* publishInngestEvent and then the kick, each a request to /api/inngest that
\* is answered when the event is handled.
Post(q, h) ==
  /\ req[q].pc \in {"publish", "kick"} /\ hdl[h] = Free
  /\ hdl' = [hdl EXCEPT ![h] = [Free EXCEPT !.pc = "claim", !.by = q]]
  /\ req' = [req EXCEPT ![q].pc = IF @ = "publish" THEN "posted" ELSE "kicked"]
  /\ UNCHANGED <<rows, budget, ghosts>>

\* The request is lost, or its answer while the event is handled.
PostLost(q) ==
  /\ Fault
  /\ \/ /\ req[q].pc \in {"publish", "kick"}
        /\ req' = [req EXCEPT ![q] = IF @.pc = "kick" THEN Idle
                                     ELSE [@ EXCEPT !.pc = "kick"]]
        /\ hdl' = hdl
     \/ /\ req[q].pc \in {"posted", "kicked"}
        /\ req' = [req EXCEPT ![q] = Answered(q)]
        /\ hdl' = [h \in Handlers |-> IF hdl[h].by = q
                                      THEN [hdl[h] EXCEPT !.by = NoRequest]
                                      ELSE hdl[h]]
  /\ UNCHANGED rows

-----------------------------------------------------------------------------
Next ==
  \/ \E h \in Handlers :
       \/ ClaimResumed(h) \/ Dispatch(h) \/ Load(h) \/ Grab(h) \/ Begin(h)
       \/ Work(h) \/ Ask(h) \/ Wait(h) \/ Pause(h) \/ Report(h) \/ HandlerDies(h)
  \/ \E q \in Requests :
       \/ \E r \in Runs, b \in BOOLEAN : Resolve(q, r, b)
       \/ ResolveTx(q) \/ ResolveCommit(q) \/ Resume(q) \/ PostLost(q)
       \/ \E h \in Handlers : Post(q, h) \/ Deadlock(q, h)

Spec == Init /\ [][Next]_vars

-----------------------------------------------------------------------------
(* Properties.                                                              *)

Quiet == (\A h \in Handlers : hdl[h] = Free) /\ (\A q \in Requests : req[q] = Idle)

\* When nothing is under way, a task that is not finished is paused and waits
\* for a human: one of its checkpoints is undecided or was rejected.  What is
\* queued again, by an approval or by resuming it, is taken up.  The exceptions:
\* a message was lost, a process died, or the database aborted one of two
\* transactions that locked each other out; or the task is paused and the
\* checkpoint of a run that still waits was decided before task.paused was
\* reported, it was paused without a checkpoint, or two approvals of different
\* agents' checkpoints overlapped, each seeing the other's as PENDING.
LeftForAHuman ==
  Quiet /\ task \notin Terminal =>
    \/ "fault" \in loose
    \/ task = "PAUSED" /\ \/ \E r \in Runs : cp[r] \in {"PENDING", "REJECTED"}
                          \/ \E r \in early : run[r] = "WAITING_HUMAN"
                          \/ loose \cap {"bare", "split"} # {}
\* Approvals, their events and the kicks start one execution of the task at a
\* time; only a human who resumes a task that runs makes it two, or a dispatcher
\* that saw the task QUEUED before another handler claimed it.
Executing == {h \in Handlers : hdl[h].run # NoRun}
OneExecution ==
  Cardinality(Executing) <= 1 \/ loose \cap {"forced", "seen"} # {}

\* A decision stands, unless two requests found the checkpoint undecided.
DecisionStands ==
  [][\A r \in Runs : cp[r] \in {"APPROVED", "REJECTED"} /\ cp'[r] # cp[r]
                       => r \in twice]_vars

\* Nobody waits for a decision that has been made: a run whose checkpoint is
\* decided no longer waits, and an agent that waits has a run that waits and
\* whose checkpoint is undecided.  The exceptions are a checkpoint decided before
\* the worker had reported the pause (which then blocks run and agent for good),
\* and one that was approved by resuming the task while the trace did not name
\* its run: the resume route ends the run of the trace only.
NobodyWaitsInVain ==
  /\ \A r \in Runs :
       cp[r] \in {"APPROVED", "REJECTED"} /\ run[r] = "WAITING_HUMAN" =>
         \/ r \in early \cup aside
         \/ \E h \in Handlers : hdl[h].run = r
  /\ \A a \in Agents : agent[a] = "WAITING_HUMAN" =>
       \E r \in Runs : /\ owner[r] = a /\ run[r] = "WAITING_HUMAN"
                       /\ cp[r] = "PENDING" \/ r \in early \cup aside

=============================================================================
