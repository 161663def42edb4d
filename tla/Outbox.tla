------------------------------- MODULE Outbox -------------------------------
(***************************************************************************)
(* The strangler migration from the inline Inngest route to queues: a      *)
(* command route publishes an event (lib/inngest/publish.ts), which the    *)
(* mode of the moment mirrors to the execution outbox, posts to            *)
(* /api/inngest, or both; the route then kicks /api/inngest by itself.     *)
(* Dispatchers move outbox rows to the queues, a shadow worker consumes    *)
(* the jobs, and /api/inngest writes a shadow state of each task.          *)
(*                                                                         *)
(* An action is one statement of the database, one call of the queue or    *)
(* one HTTP request or answer.  The queues (BullMQ) are external.          *)
(***************************************************************************)
EXTENDS Naturals, FiniteSets

CONSTANTS
  Events,       \* publish calls of the command routes
  NameOf,       \* the name of each event
  TaskOf,       \* the task of each event
  Direct,       \* events another internal client PUTs to /api/inngest
  Dispatchers,  \* outbox-dispatcher processes
  Handlers,     \* requests /api/inngest serves at the same time
  Origins,      \* number of fallback origins
  Modes,        \* migration modes the process may be started in
  BatchSize,    \* rows a dispatcher claims at once
  MaxFaults,    \* bound: failed statements, requests, answers and ticks
  NoTask, NoEvent, NoHandler

Tasks == {TaskOf[e] : e \in Events} \ {NoTask}
Mode  == {"legacy", "shadow", "primary", "cutover"}

\* The job each legacy event is mapped to; other events are not mapped.
JobOf == [n \in {"flow.launched", "flow.progress", "task.resumed",
                 "task.completed", "task.failed"} |->
            CASE n = "flow.launched"  -> "RUN_CREATED"
              [] n = "flow.progress"  -> "PLAN_GENERATED"
              [] n = "task.resumed"   -> "TASK_READY"
              [] n = "task.completed" -> "TASK_COMPLETED"
              [] n = "task.failed"    -> "DEAD_LETTER"]

ASSUME OutboxAssumption ==
  /\ IsFiniteSet(Events)
  /\ NameOf \in [Events -> DOMAIN JobOf \cup {"task.paused"}]
  /\ TaskOf \in [Events -> {TaskOf[e] : e \in Events}]
  /\ \A e \in Events : NameOf[e] \notin {"flow.launched", "flow.progress"}
                         => TaskOf[e] # NoTask
  /\ Direct \subseteq Events /\ NoEvent \notin Events
  /\ NoHandler \notin Handlers
  /\ Origins \in Nat \ {0} /\ BatchSize \in Nat \ {0} /\ MaxFaults \in Nat
  /\ Modes \subseteq Mode /\ Modes # {}

Mapped(e) == NameOf[e] \in DOMAIN JobOf

\* The idempotency key: the run, the task unless the event is the flow's, and
\* the job's name.  There is one run, so it is left out.
Key(e) == <<IF NameOf[e] \in {"flow.launched", "flow.progress"}
            THEN NoTask ELSE TaskOf[e],
            JobOf[NameOf[e]]>>
Keys   == {Key(e) : e \in {x \in Events : Mapped(x)}}

\* The shadow life cycle of a task.
Lifecycle == {"CREATED", "QUEUED", "RUNNING", "WAITING_TOOL", "RETRYING",
              "FAILED", "COMPLETED"}
Allowed ==
  [s \in Lifecycle |->
     CASE s = "CREATED"      -> {"QUEUED", "FAILED"}
       [] s = "QUEUED"       -> {"RUNNING", "RETRYING", "FAILED"}
       [] s = "RUNNING"      -> {"WAITING_TOOL", "RETRYING", "COMPLETED",
                                 "FAILED"}
       [] s = "WAITING_TOOL" -> {"RUNNING", "RETRYING", "FAILED"}
       [] s = "RETRYING"     -> {"QUEUED", "FAILED"}
       [] OTHER              -> {}]
Target == [n \in {"task.resumed", "task.completed", "task.failed"} |->
             CASE n = "task.resumed"   -> "QUEUED"
               [] n = "task.completed" -> "COMPLETED"
               [] n = "task.failed"    -> "FAILED"]

CanTransition(from, to) == from = to \/ to \in Allowed[from]

RowStatus == {"none", "PENDING", "DISPATCHING", "DISPATCHED", "FAILED"}
NoRecord  == [state |-> "none", version |-> 0]

VARIABLES
  mode,     \* the flags the processes were started with
  row,      \* ExecutionOutboxEvent rows: status and event of each key
  job,      \* the BullMQ job of each key
  pub,      \* the publish call and the kick of each event
  disp,     \* rows each dispatcher has claimed, and the row it is at
  hdl,      \* requests in progress in /api/inngest
  handled,  \* times handleEvent has run for each event
  shadow,   \* TaskExecutionState rows
  attempt,  \* state of TaskExecutionAttempt 1 of each task
  faults,   \* faults so far
  left,     \* ghost: rows a dispatcher claimed and let go of
  raced     \* ghost: tasks two of whose shadow writes overlapped or one of
            \* whose shadow writes was cut short

vars == <<mode, row, job, pub, disp, hdl, handled, shadow, attempt, faults,
          left, raced>>

PubPc  == {"start", "outbox", "post", "wait", "kick", "kicked", "done"}
HdlPc  == {"handle", "find", "create", "update", "insert", "upsert"}
Idle   == [event |-> NoEvent, pc |-> "idle", seen |-> NoRecord]
Free   == [batch |-> {}, at |-> {}, ok |-> FALSE]
Record == [state : Lifecycle \cup {"none"}, version : Nat]

TypeOK ==
  /\ mode \in Modes
  /\ row \in [Keys -> [status : RowStatus, event : Events \cup {NoEvent}]]
  /\ job \in [Keys -> {"none", "waiting", "observed", "failed"}]
  /\ pub \in [Events -> [pc : PubPc, mode : Mode, ok : BOOLEAN,
                         at : 1..Origins, on : Handlers \cup {NoHandler}]]
  /\ disp \in [Dispatchers -> [batch : SUBSET Keys, at : SUBSET Keys,
                               ok : BOOLEAN]]
  /\ hdl \in [Handlers -> [event : Events, pc : HdlPc, seen : Record]
                            \cup {Idle}]
  /\ handled \in [Events -> Nat]
  /\ shadow \in [Tasks -> Record]
  /\ attempt \in [Tasks -> Lifecycle \cup {"none"}]
  /\ faults \in 0..MaxFaults
  /\ left \subseteq Keys
  /\ raced \subseteq Tasks

Init ==
  /\ mode \in Modes
  /\ row = [k \in Keys |-> [status |-> "none", event |-> NoEvent]]
  /\ job = [k \in Keys |-> "none"]
  /\ pub = [e \in Events |->
              [pc |-> IF e \in Direct THEN "kick" ELSE "start",
               mode |-> "legacy", ok |-> FALSE, at |-> 1, on |-> NoHandler]]
  /\ disp = [d \in Dispatchers |-> Free]
  /\ hdl = [h \in Handlers |-> Idle]
  /\ handled = [e \in Events |-> 0]
  /\ shadow = [t \in Tasks |-> NoRecord]
  /\ attempt = [t \in Tasks |-> "none"]
  /\ faults = 0
  /\ left = {}
  /\ raced = {}

Fault == faults < MaxFaults /\ faults' = faults + 1

-----------------------------------------------------------------------------
(* The publish call of a command route, and its local kick.                *)

\* An operator restarts the service with other flags (ramp or rollback).
\* Calls in progress are drained with the flags they began with.
SetFlags(m) ==
  /\ m # mode
  /\ Fault
  /\ mode' = m
  /\ UNCHANGED <<row, job, pub, disp, hdl, handled, shadow, attempt, left,
                 raced>>

\* decideExecutionMode, and the decision to mirror.
Decide(e) ==
  /\ pub[e].pc = "start"
  /\ pub' = [pub EXCEPT ![e].pc = IF mode = "legacy" THEN "post" ELSE "outbox",
                        ![e].mode = mode]
  /\ UNCHANGED <<mode, row, job, disp, hdl, handled, shadow, attempt, faults,
                 left, raced>>

\* What publishInngestEvent does with the answer of the outbox.
\* Mutant: the queue's answer is not looked at.
AfterOutboxUnchecked(e, ok) ==
  IF pub[e].mode = "cutover"
  THEN [pub[e] EXCEPT !.pc = "kick", !.ok = TRUE]
  ELSE [pub[e] EXCEPT !.pc = "post"]
\* Mutant: the flag that disables the legacy dispatch is not looked at.
AfterOutboxBoth(e, ok) == [pub[e] EXCEPT !.pc = "post"]
AfterOutbox(e, ok) ==
  IF pub[e].mode = "cutover" /\ ok
  THEN [pub[e] EXCEPT !.pc = "kick", !.ok = TRUE]
  ELSE [pub[e] EXCEPT !.pc = "post"]

\* dispatchLegacyEventToQueueShadow and writeOutboxEvent: the row is created,
\* or the unique key refuses it, which counts as success.
WriteOutbox(e) ==
  /\ pub[e].pc = "outbox"
  /\ IF Mapped(e)
     THEN /\ row' = IF row[Key(e)].status = "none"
                    THEN [row EXCEPT ![Key(e)] = [status |-> "PENDING",
                                                  event |-> e]]
                    ELSE row
          /\ pub' = [pub EXCEPT ![e] = AfterOutbox(e, TRUE)]
     ELSE /\ row' = row
          /\ pub' = [pub EXCEPT ![e] = AfterOutbox(e, FALSE)]
  /\ UNCHANGED <<mode, job, disp, hdl, handled, shadow, attempt, faults, left,
                 raced>>

\* The insert fails, or succeeds and its answer is lost.
OutboxFails(e) ==
  /\ pub[e].pc = "outbox" /\ Mapped(e)
  /\ Fault
  /\ \/ row' = row
     \/ /\ row[Key(e)].status = "none"
        /\ row' = [row EXCEPT ![Key(e)] = [status |-> "PENDING", event |-> e]]
  /\ pub' = [pub EXCEPT ![e] = AfterOutbox(e, FALSE)]
  /\ UNCHANGED <<mode, job, disp, hdl, handled, shadow, attempt, left, raced>>

\* postToEndpoint and the kick: a request that reaches /api/inngest.
Post(e, h) ==
  /\ pub[e].pc \in {"post", "kick"}
  /\ hdl[h] = Idle
  /\ hdl' = [hdl EXCEPT ![h] = [event |-> e, pc |-> "handle",
                                seen |-> NoRecord]]
  /\ pub' = [pub EXCEPT ![e].pc = IF pub[e].pc = "post" THEN "wait"
                                  ELSE "kicked",
                        ![e].on = h]
  /\ UNCHANGED <<mode, row, job, disp, handled, shadow, attempt, faults, left,
                 raced>>

\* What the caller does when its request is answered with ok or not: a publish
\* tries the next origin, and the kick comes last and its answer is ignored.
Answered(e, ok) ==
  LET c == [pub[e] EXCEPT !.on = NoHandler]
  IN IF pub[e].pc = "kicked" THEN [c EXCEPT !.pc = "done"]
     ELSE IF ok THEN [c EXCEPT !.pc = "kick", !.ok = TRUE]
     ELSE IF c.at < Origins THEN [c EXCEPT !.pc = "post", !.at = @ + 1]
     ELSE [c EXCEPT !.pc = "kick"]

\* fetch throws: the publish gives up without trying the other origins.
Thrown(e) ==
  [pub[e] EXCEPT !.on = NoHandler,
                 !.pc = IF pub[e].pc \in {"kick", "kicked"} THEN "done"
                        ELSE "kick"]

\* A request does not reach /api/inngest: another service answers, or nobody.
Refused(e) ==
  /\ pub[e].pc \in {"post", "kick"}
  /\ Fault
  /\ \/ pub' = [pub EXCEPT ![e] =
                  IF pub[e].pc = "kick" THEN [pub[e] EXCEPT !.pc = "done"]
                  ELSE Answered(e, FALSE)]
     \/ pub' = [pub EXCEPT ![e] = Thrown(e)]
  /\ UNCHANGED <<mode, row, job, disp, hdl, handled, shadow, attempt, left,
                 raced>>

\* The answer is lost while the request is still served.
AnswerLost(e) ==
  /\ pub[e].pc \in {"wait", "kicked"}
  /\ Fault
  /\ \/ pub' = [pub EXCEPT ![e] = Answered(e, FALSE)]
     \/ pub' = [pub EXCEPT ![e] = Thrown(e)]
  /\ UNCHANGED <<mode, row, job, disp, hdl, handled, shadow, attempt, left,
                 raced>>

-----------------------------------------------------------------------------
(* /api/inngest: handleEvent, then the shadow write.                       *)

Callers(h) == {e \in Events : pub[e].on = h}
Reply(h, ok) == pub' = [e \in Events |-> IF e \in Callers(h)
                                         THEN Answered(e, ok) ELSE pub[e]]

Busy(t) == {h \in Handlers : /\ hdl[h] # Idle
                             /\ TaskOf[hdl[h].event] = t
                             /\ hdl[h].pc \notin {"handle", "find"}}

Handle(h) ==
  /\ hdl[h] # Idle /\ hdl[h].pc = "handle"
  /\ LET e == hdl[h].event
     IN /\ handled' = [handled EXCEPT ![e] = @ + 1]
        /\ IF NameOf[e] \in DOMAIN Target
           THEN hdl' = [hdl EXCEPT ![h].pc = "find"] /\ pub' = pub
           ELSE hdl' = [hdl EXCEPT ![h] = Idle] /\ Reply(h, TRUE)
  /\ UNCHANGED <<mode, row, job, disp, shadow, attempt, faults, left, raced>>

\* handleEvent throws.
HandleFails(h) ==
  /\ hdl[h] # Idle /\ hdl[h].pc = "handle"
  /\ Fault
  /\ hdl' = [hdl EXCEPT ![h] = Idle]
  /\ Reply(h, FALSE)
  /\ UNCHANGED <<mode, row, job, disp, handled, shadow, attempt, left, raced>>

\* shadowWriteTaskStateFromLegacyEvent: the row is read.
Find(h) ==
  /\ hdl[h] # Idle /\ hdl[h].pc = "find"
  /\ LET t  == TaskOf[hdl[h].event]
         to == Target[NameOf[hdl[h].event]]
         r  == shadow[t]
     IN IF r.state = "none"
        THEN hdl' = [hdl EXCEPT ![h].pc = "create"] /\ pub' = pub
        ELSE IF CanTransition(r.state, to)
        THEN hdl' = [hdl EXCEPT ![h].pc = "update", ![h].seen = r]
             /\ pub' = pub
        ELSE hdl' = [hdl EXCEPT ![h] = Idle] /\ Reply(h, TRUE)
  /\ raced' = raced \cup {t \in {TaskOf[hdl[h].event]} : Busy(t) # {}}
  /\ UNCHANGED <<mode, row, job, disp, handled, shadow, attempt, faults, left>>

\* The row is created; if another request has created it, P2002 is thrown and
\* swallowed by the route.
Create(h) ==
  /\ hdl[h] # Idle /\ hdl[h].pc = "create"
  /\ LET t == TaskOf[hdl[h].event]
     IN IF shadow[t].state = "none"
        THEN /\ shadow' = [shadow EXCEPT ![t] =
                             [state |-> Target[NameOf[hdl[h].event]],
                              version |-> 1]]
             /\ hdl' = [hdl EXCEPT ![h].pc = "insert"]
             /\ pub' = pub
        ELSE /\ shadow' = shadow
             /\ hdl' = [hdl EXCEPT ![h] = Idle]
             /\ Reply(h, TRUE)
  /\ UNCHANGED <<mode, row, job, disp, handled, attempt, faults, left, raced>>

\* updateMany: only if state and version are those that were read.
\* Mutant: the update is made by task alone.
UnchangedSinceDropped(h) == TRUE
UnchangedSince(h) == shadow[TaskOf[hdl[h].event]] = hdl[h].seen

Update(h) ==
  /\ hdl[h] # Idle /\ hdl[h].pc = "update"
  /\ LET t == TaskOf[hdl[h].event]
     IN IF UnchangedSince(h)
        THEN /\ shadow' = [shadow EXCEPT ![t] =
                             [state |-> Target[NameOf[hdl[h].event]],
                              version |-> @.version + 1]]
             /\ hdl' = [hdl EXCEPT ![h].pc = "upsert", ![h].seen = NoRecord]
             /\ pub' = pub
        ELSE /\ shadow' = shadow
             /\ hdl' = [hdl EXCEPT ![h] = Idle]
             /\ Reply(h, TRUE)
  /\ UNCHANGED <<mode, row, job, disp, handled, attempt, faults, left, raced>>

\* taskExecutionAttempt: created by the request that created the state (refused
\* if another request's upsert was first), upserted by the others.
\* Mutant: the upsert changes nothing when the attempt exists.
WriteAttemptOnce(h) ==
  LET t == TaskOf[hdl[h].event]
  IN attempt' = IF attempt[t] = "none"
                THEN [attempt EXCEPT ![t] = Target[NameOf[hdl[h].event]]]
                ELSE attempt
WriteAttempt(h) ==
  LET t == TaskOf[hdl[h].event]
  IN attempt' = IF hdl[h].pc = "insert" /\ attempt[t] # "none"
                THEN attempt
                ELSE [attempt EXCEPT ![t] = Target[NameOf[hdl[h].event]]]

Attempt(h) ==
  /\ hdl[h] # Idle /\ hdl[h].pc \in {"insert", "upsert"}
  /\ WriteAttempt(h)
  /\ hdl' = [hdl EXCEPT ![h] = Idle]
  /\ Reply(h, TRUE)
  /\ UNCHANGED <<mode, row, job, disp, handled, shadow, faults, left, raced>>

\* A statement of the shadow write throws: the route answers as if it had not.
ShadowFails(h) ==
  /\ hdl[h] # Idle /\ hdl[h].pc # "handle"
  /\ Fault
  /\ raced' = raced \cup {TaskOf[hdl[h].event]}
  /\ hdl' = [hdl EXCEPT ![h] = Idle]
  /\ Reply(h, TRUE)
  /\ UNCHANGED <<mode, row, job, disp, handled, shadow, attempt, left>>

-----------------------------------------------------------------------------
(* The dispatchers and the shadow worker.                                  *)

Pending == {k \in Keys : row[k].status = "PENDING"}

\* What the claiming statement writes.
\* Mutant: the claim only selects the rows.
MarkClaimedMissing(S) == row' = row
MarkClaimed(S) ==
  row' = [k \in Keys |-> IF k \in S
                         THEN [row[k] EXCEPT !.status = "DISPATCHING"]
                         ELSE row[k]]

\* claimPendingRows: one statement, rows locked by another are skipped.
Claim(d) ==
  /\ disp[d] = Free
  /\ \E S \in SUBSET Pending :
       /\ S # {} /\ (S = Pending \/ Cardinality(S) = BatchSize)
       /\ Cardinality(S) <= BatchSize
       /\ MarkClaimed(S)
       /\ disp' = [disp EXCEPT ![d].batch = S]
  /\ UNCHANGED <<mode, job, pub, hdl, handled, shadow, attempt, faults, left,
                 raced>>

\* queue.add: a job whose id is known is not added again.
Add(k) == job' = IF job[k] = "none" THEN [job EXCEPT ![k] = "waiting"] ELSE job

\* publishQueueJob for the next row of the batch.
PublishJob(d, k) ==
  /\ k \in disp[d].batch /\ disp[d].at = {}
  /\ Add(k)
  /\ disp' = [disp EXCEPT ![d].at = {k}, ![d].ok = TRUE]
  /\ UNCHANGED <<mode, row, pub, hdl, handled, shadow, attempt, faults, left,
                 raced>>

\* Redis refuses, or adds the job and its answer is lost.
PublishJobFails(d, k) ==
  /\ k \in disp[d].batch /\ disp[d].at = {}
  /\ Fault
  /\ Add(k) \/ job' = job
  /\ disp' = [disp EXCEPT ![d].at = {k}, ![d].ok = FALSE]
  /\ UNCHANGED <<mode, row, pub, hdl, handled, shadow, attempt, left, raced>>

\* The status the row gets.
Mark(ok) == IF ok THEN "DISPATCHED" ELSE "FAILED"

\* markDispatched and markFailed, by id alone.  A failed row keeps a later
\* availableAt, but only PENDING rows are claimed.
MarkRow(d, k) ==
  /\ disp[d].at = {k}
  /\ row' = [row EXCEPT ![k].status = Mark(disp[d].ok)]
  /\ disp' = [disp EXCEPT ![d] = [batch |-> @.batch \ {k}, at |-> {},
                                  ok |-> FALSE]]
  /\ UNCHANGED <<mode, job, pub, hdl, handled, shadow, attempt, faults, left,
                 raced>>

\* The dispatcher dies, or a statement throws and the rest of the tick is
\* skipped: nothing claims its rows again.
TickFails(d) ==
  /\ disp[d] # Free
  /\ Fault
  /\ left' = left \cup disp[d].batch
  /\ disp' = [disp EXCEPT ![d] = Free]
  /\ UNCHANGED <<mode, row, job, pub, hdl, handled, shadow, attempt, raced>>

\* queue-shadow-worker: a job is logged; it has one attempt.
Observe(k) ==
  /\ job[k] = "waiting"
  /\ job' = [job EXCEPT ![k] = "observed"]
  /\ UNCHANGED <<mode, row, pub, disp, hdl, handled, shadow, attempt, faults,
                 left, raced>>
ObserveFails(k) ==
  /\ job[k] = "waiting"
  /\ Fault
  /\ job' = [job EXCEPT ![k] = "failed"]
  /\ UNCHANGED <<mode, row, pub, disp, hdl, handled, shadow, attempt, left,
                 raced>>

-----------------------------------------------------------------------------
Next ==
  \/ \E m \in Modes : SetFlags(m)
  \/ \E e \in Events :
       \/ Decide(e) \/ WriteOutbox(e) \/ OutboxFails(e)
       \/ \E h \in Handlers : Post(e, h)
       \/ Refused(e) \/ AnswerLost(e)
  \/ \E h \in Handlers :
       \/ Handle(h) \/ HandleFails(h)
       \/ Find(h) \/ Create(h) \/ Update(h) \/ Attempt(h) \/ ShadowFails(h)
  \/ \E d \in Dispatchers :
       \/ Claim(d) \/ TickFails(d)
       \/ \E k \in Keys : PublishJob(d, k) \/ PublishJobFails(d, k)
                           \/ MarkRow(d, k)
  \/ \E k \in Keys : Observe(k) \/ ObserveFails(k)

Spec == Init /\ [][Next]_vars

-----------------------------------------------------------------------------
(* Properties.                                                             *)

\* A row is claimed if and only if one dispatcher holds it: two that poll at the
\* same time have only the claiming statement of claimPendingRows between them.
\* Only a tick that fails strands the rows it holds, which nothing takes up
\* again (production-migration-execution.md, "Continue outbox dispatcher until
\* pending reaches zero").
ClaimedByOne ==
  /\ \A d \in Dispatchers, k \in Keys :
       k \in disp[d].batch =>
         /\ row[k].status = "DISPATCHING"
         /\ \A c \in Dispatchers \ {d} : k \notin disp[c].batch
  /\ \A k \in Keys : row[k].status = "DISPATCHING" =>
       k \in left \/ \E d \in Dispatchers : k \in disp[d].batch

\* A publish that answers ok is backed: the event has been handled, or the
\* outbox has a row of its key (not always a row of this event: a second
\* task.resumed of a task is deduped by the key of the first), and a row that is
\* DISPATCHED has its job in the queue, whatever failed or died between the two.
AcceptedIsKept ==
  /\ \A e \in Events :
       pub[e].ok => handled[e] > 0 \/ (Mapped(e) /\ row[Key(e)].status # "none")
  /\ \A k \in Keys : row[k].status = "DISPATCHED" => job[k] # "none"

\* Without faults an event is handled by /api/inngest once per way it takes:
\* by the publish, unless the legacy dispatch is disabled and the outbox has
\* it, and by the route's own kick.
DeliveryCount ==
  \A e \in Events :
    faults = 0 /\ pub[e].pc = "done" =>
      handled[e] = IF e \in Direct \/ (pub[e].mode = "cutover" /\ Mapped(e))
                   THEN 1 ELSE 2

\* The shadow state of a task moves along the life cycle only, one version at
\* a time, also when several events of the task are handled at once:
\* production-migration-execution.md, "Task shadow writes are
\* version-checked".
ShadowIsLegal ==
  [][\A t \in Tasks : shadow'[t] # shadow[t] =>
        \/ /\ shadow[t].state = "none"
           /\ shadow'[t].version = 1
        \/ /\ CanTransition(shadow[t].state, shadow'[t].state)
           /\ shadow'[t].version = shadow[t].version + 1]_vars

\* The attempt of a task agrees with its state once nobody writes it, unless
\* two shadow writes of the task overlapped or one was cut short: the state
\* and the attempt are written by two statements.
AttemptAgrees ==
  \A t \in Tasks \ raced : Busy(t) = {} => attempt[t] = shadow[t].state

=============================================================================
