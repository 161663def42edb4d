------------------------- MODULE OrchestratorProofs -------------------------
(***************************************************************************)
(* What holds of Orchestrator for every set of tasks, every number of      *)
(* events, every behaviour of Redis, and any number of lost results,       *)
(* failed steps, timeouts and expired locks; and, where no event is sent   *)
(* twice, that Orchestrator implements ReviewOnce.                         *)
(***************************************************************************)
EXTENDS Orchestrator, FiniteSetTheorems, TLAPS

-----------------------------------------------------------------------------
\* The parts of the inductive invariant.

\* Some steps belong to one function.
Fits(fn, step) ==
  /\ step \in {"register", "wait"} => fn = "runner"
  /\ step = "seed" => fn = "planner"
  /\ step = "emit" => fn \in {"runner", "planner", "executor"}
  /\ step \in {"append", "add", "count", "lock", "unwind"} \cup Locked => fn = "reviewer"
  /\ step \in {"write", "sync", "syncSave"} => fn = "writer"

RoleOK == \A r \in Run : Fits(r.job[1], pc[r])

\* A patch writes only where it has read a state.
ReadOK ==
  \A r \in Run : pc[r] \in {"add", "save", "syncSave"} => current[r] # NoState

\* Results are those of executed tasks, wherever they are kept.
ResultsOK ==
  \A t \in Task :
    /\ \A up \in BOOLEAN : t \in store[up] => t \in Executed
    /\ \A r \in Run : t \in state[r] \cup current[r] => t \in Executed

\* The work for which a job's key may be marked as SUCCEEDED.
WorkDone(j) ==
  /\ j[1] = "planner" => \A t \in Task : IsSent(Executor(t))
  /\ j[1] = "executor" => IsSent(Reviewer(j[2]))
  /\ j[1] = "runner" => reviews # <<>>
  /\ j[1] = "writer" => memory > 0

\* A run that is about to mark its key, or the final key, has done the work.
MarkOK ==
  \A r \in Run :
    /\ pc[r] \in {"mark", "sync", "syncSave"} => WorkDone(r.job)
    /\ pc[r] = "markFinal" => reviews # <<>>

\* So has whoever marked a key.
KeyOK ==
  /\ \A j \in Job : keys[j].status = "SUCCEEDED" => WorkDone(j)
  /\ keys[Final].status = "SUCCEEDED" => reviews # <<>>

\* While nothing is published, the final key is claimed by an insert, once.
UnpublishedOK ==
  reviews = <<>> =>
    /\ keys[Final].status \in {"NONE", "IN_PROGRESS"}
    /\ \A r \in Run : /\ pc[r] # "updateFinal"
                      /\ pc[r] \in Finalising => keys[Final].status # "NONE"
    /\ \A r, q \in Run : pc[r] \in Finalising /\ pc[q] \in Finalising => r = q

\* A run that is to finalise, or does, has the review lock or had it taken away.
LockOK ==
  \A r \in Run : pc[r] \in Locked \ {"release"} => lock = r \/ r \in expired

TypeInv == TypeOK /\ RoleOK /\ ReadOK

-----------------------------------------------------------------------------
\* Jobs, keys and runs.

\* A job names its function, and, for executors and reviewers, a task.
LEMMA JobFacts ==
  /\ \A j \in Job :
       /\ j \in Key /\ j # Final
       /\ j[1] \in {"runner", "planner", "executor", "reviewer", "writer"}
       /\ j[1] = "runner" => j = TheRunner
       /\ j[1] = "planner" => j = ThePlanner
       /\ j[1] = "writer" => j = TheWriter
       /\ j[1] = "executor" => j[2] \in Task /\ j = Executor(j[2])
       /\ j[1] = "reviewer" => j[2] \in Task /\ j = Reviewer(j[2])
  /\ Final \in Key
  /\ TheRunner \in Job /\ TheRunner[1] = "runner"
  /\ ThePlanner \in Job /\ ThePlanner[1] = "planner"
  /\ TheWriter \in Job /\ TheWriter[1] = "writer"
  /\ \A t \in Task : /\ Executor(t) \in Job /\ Executor(t)[1] = "executor"
                     /\ Executor(t)[2] = t
                     /\ Reviewer(t) \in Job /\ Reviewer(t)[1] = "reviewer"
                     /\ Reviewer(t)[2] = t
  BY DEF Job, Key, Final, TheRunner, ThePlanner, TheWriter, Executor, Reviewer

\* A run has a job and a copy; each job and copy make a run.
LEMMA RunFacts ==
  /\ \A r \in Run : r.job \in Job /\ r.copy \in 1..Copies
  /\ \A j \in Job, c \in 1..Copies :
       /\ [job |-> j, copy |-> c] \in Run
       /\ [job |-> j, copy |-> c].job = j
       /\ [job |-> j, copy |-> c].copy = c
  BY DEF Run

-----------------------------------------------------------------------------
\* What the building blocks of the actions do to the variables they change.

\* A step moves one run, to the next step or to where it executes it again.
LEMMA GotoEffect ==
  ASSUME NEW r \in Run, NEW next, NEW again, lost \in Nat, Goto(r, next, again)
  PROVE  /\ lost' \in Nat
         /\ \E to \in {next, again} : pc' = [pc EXCEPT ![r] = to]
<1>1. PICK to \in {next, again} :
         Outcome(r, to, next, again) /\ pc' = [pc EXCEPT ![r] = to]
  BY DEF Goto
<1>2. lost' \in Nat
  BY <1>1 DEF Outcome
<1> QED
  BY <1>1, <1>2

\* An emission moves the sender and starts one run of each of the jobs.
LEMMA EmitEffect ==
  ASSUME NEW r \in Run, NEW here, NEW jobs, NEW next, lost \in Nat,
         EmitStep(r, here, jobs, next)
  PROVE  /\ lost' \in Nat
         /\ pc[r] = here
         /\ \E c \in 1..Copies, to \in {next, here} :
              /\ \A j \in jobs : pc[[job |-> j, copy |-> c]] = "none"
              /\ pc' = [q \in Run |-> IF q = r THEN to
                                      ELSE IF q.job \in jobs /\ q.copy = c
                                      THEN "claim" ELSE pc[q]]
<1> DEFINE Moved(c, to) == [q \in Run |-> IF q = r THEN to
                                         ELSE IF q.job \in jobs /\ q.copy = c
                                         THEN "claim" ELSE pc[q]]
<1>1. PICK c \in 1..Copies, to \in {next, here} :
         /\ \A j \in jobs : IsNext(j, c)
         /\ Outcome(r, to, next, here)
         /\ pc' = Moved(c, to)
  BY DEF EmitStep
<1>2. lost' \in Nat
  BY <1>1 DEF Outcome
<1>3. \A j \in jobs : pc[[job |-> j, copy |-> c]] = "none"
  BY <1>1 DEF IsNext, Sent
<1>4. pc[r] = here
  BY DEF EmitStep
<1> QED
  BY <1>1, <1>2, <1>3, <1>4

\* Settling a key changes the status of its row.
LEMMA SettleEffect ==
  ASSUME TypeOK, NEW k \in Key, NEW status \in KeyStatus, NEW up \in BOOLEAN,
         Settle(k, status, up)
  PROVE  /\ keys' \in [Key -> Entry] /\ cache' \in [Key -> Entry]
         /\ keys'[k].status = status
         /\ \A j \in Key \ {k} : keys'[j] = keys[j]
  BY DEF TypeOK, Settle, Entry

\* A claim that looks leaves the rows alone; if it goes on, it was not blocked.
LEMMA LookEffect ==
  ASSUME TypeOK, NEW r \in Run, NEW k \in Key, NEW hash,
         NEW refused, NEW insert, NEW update,
         LookAt(r, k, hash, refused, insert, update)
  PROVE  /\ keys' = keys /\ cache' \in [Key -> Entry] /\ lost' \in Nat
         /\ \E to \in {refused, insert, update, pc[r]} :
              /\ pc' = [pc EXCEPT ![r] = to]
              /\ to \notin {refused, pc[r]} =>
                   /\ ~Blocks(keys[k], hash)
                   /\ to = IF IsNew(k) THEN insert ELSE update
<1>0. lost \in Nat /\ cache \in [Key -> Entry] /\ keys \in [Key -> Entry]
  BY DEF TypeOK
<1>1. PICK up \in RedisUp :
        \/ /\ Free(k, hash, up)
           /\ pc' = [pc EXCEPT ![r] = IF IsNew(k) THEN insert ELSE update]
           /\ UNCHANGED <<idempotency, lost>>
        \/ Goto(r, refused, pc[r]) /\ Refuse(k, hash, up)
  BY DEF LookAt
<1>2. CASE Goto(r, refused, pc[r]) /\ Refuse(k, hash, up)
  <2>1. keys' = keys /\ cache' \in [Key -> Entry]
    BY <1>0, <1>2 DEF Refuse
  <2> QED
    BY <1>0, <1>2, <2>1, GotoEffect
<1>3. CASE /\ Free(k, hash, up)
           /\ pc' = [pc EXCEPT ![r] = IF IsNew(k) THEN insert ELSE update]
           /\ UNCHANGED <<idempotency, lost>>
  BY <1>0, <1>3 DEF Free, idempotency
<1> QED
  BY <1>1, <1>2, <1>3

\* A claim that writes leaves the row in progress, and an insert finds none; or it
\* throws and leaves the rows alone.
LEMMA WriteEffect ==
  ASSUME TypeOK, NEW r \in Run, NEW k \in Key, NEW hash \in Nat,
         NEW insert, NEW next, NEW again,
         WriteClaim(r, k, hash, insert, next, again)
  PROVE  /\ keys' \in [Key -> Entry] /\ cache' \in [Key -> Entry] /\ lost' \in Nat
         /\ \A j \in Key \ {k} : keys'[j] = keys[j]
         /\ \E to \in {next, again} : pc' = [pc EXCEPT ![r] = to]
         /\ \/ keys' = keys /\ pc' = [pc EXCEPT ![r] = again]
            \/ /\ keys'[k].status = "IN_PROGRESS" /\ keys'[k].hash = hash
               /\ pc[r] = insert => IsNew(k)
<1>0. lost \in Nat /\ cache \in [Key -> Entry] /\ keys \in [Key -> Entry]
  BY DEF TypeOK
<1>1. CASE /\ pc[r] = insert /\ ~IsNew(k)
           /\ pc' = [pc EXCEPT ![r] = again]
           /\ UNCHANGED <<idempotency, lost>>
  BY <1>0, <1>1 DEF idempotency
<1>2. CASE /\ pc[r] = insert => IsNew(k)
           /\ Acquire(k, hash)
           /\ Goto(r, next, again)
  <2>1. [status |-> "IN_PROGRESS", hash |-> hash] \in Entry
    BY DEF Entry, KeyStatus
  <2>2. /\ keys' \in [Key -> Entry] /\ cache' \in [Key -> Entry]
        /\ keys'[k] = [status |-> "IN_PROGRESS", hash |-> hash]
        /\ \A j \in Key \ {k} : keys'[j] = keys[j]
    BY <1>0, <1>2, <2>1 DEF Acquire
  <2>3. keys'[k].status = "IN_PROGRESS" /\ keys'[k].hash = hash
    BY <2>2
  <2> QED
    BY <1>0, <1>2, <2>2, <2>3, GotoEffect
<1> QED
  BY <1>1, <1>2 DEF WriteClaim
-----------------------------------------------------------------------------
\* Types.  Every action moves one run, and besides it only starts runs and
\* answers runners that wait.

OthersStay(r) ==
  \A q \in Run \ {r} : \/ pc'[q] = pc[q]
                       \/ pc[q] = "none" /\ pc'[q] = "claim"
                       \/ pc[q] = "wait" /\ pc'[q] = "mark"

\* A step by Goto keeps every run at a step of its function.
LEMMA GotoType ==
  ASSUME TypeInv, NEW r \in Run, NEW next \in PCs, NEW again \in PCs,
         Fits(r.job[1], next), Fits(r.job[1], again), Goto(r, next, again)
  PROVE  /\ lost' \in Nat /\ pc' \in [Run -> PCs] /\ RoleOK'
         /\ OthersStay(r) /\ pc'[r] \in {next, again}
<1>1. PICK to \in {next, again} : pc' = [pc EXCEPT ![r] = to]
  BY GotoEffect DEF TypeInv, TypeOK
<1>2. lost' \in Nat
  BY GotoEffect DEF TypeInv, TypeOK
<1>3. pc' \in [Run -> PCs] /\ pc'[r] = to /\ \A q \in Run \ {r} : pc'[q] = pc[q]
  BY <1>1 DEF TypeInv, TypeOK
<1>4. RoleOK'
  BY <1>3 DEF TypeInv, RoleOK
<1> QED
  BY <1>2, <1>3, <1>4 DEF OthersStay

\* So does a move to any such step.
LEMMA MoveType ==
  ASSUME TypeInv, NEW r \in Run, NEW to \in PCs, Fits(r.job[1], to),
         pc' = [pc EXCEPT ![r] = to]
  PROVE  pc' \in [Run -> PCs] /\ RoleOK' /\ OthersStay(r) /\ pc'[r] = to
<1>1. pc' \in [Run -> PCs] /\ pc'[r] = to /\ \A q \in Run \ {r} : pc'[q] = pc[q]
  BY DEF TypeInv, TypeOK
<1>2. RoleOK'
  BY <1>1 DEF TypeInv, RoleOK
<1> QED
  BY <1>1, <1>2 DEF OthersStay

\* So does an emission.
LEMMA EmitType ==
  ASSUME TypeInv, NEW r \in Run, NEW here \in PCs, NEW next \in PCs, NEW jobs,
         jobs \subseteq Job, here # "none", Fits(r.job[1], next),
         EmitStep(r, here, jobs, next)
  PROVE  /\ lost' \in Nat /\ pc' \in [Run -> PCs] /\ RoleOK'
         /\ OthersStay(r) /\ pc[r] = here /\ pc'[r] \in {next, here}
         /\ \A j \in jobs : IsSent(j)'
<1>0. lost \in Nat
  BY DEF TypeInv, TypeOK
<1>1. PICK c \in 1..Copies, to \in {next, here} :
         /\ \A j \in jobs : pc[[job |-> j, copy |-> c]] = "none"
         /\ pc' = [q \in Run |-> IF q = r THEN to
                                 ELSE IF q.job \in jobs /\ q.copy = c
                                 THEN "claim" ELSE pc[q]]
  BY <1>0, EmitEffect
<1>2. lost' \in Nat /\ pc[r] = here
  BY <1>0, EmitEffect
<1>3. pc'[r] = to /\ \A q \in Run \ {r} :
         pc'[q] = IF q.job \in jobs /\ q.copy = c THEN "claim" ELSE pc[q]
  BY <1>1
<1>4. \A q \in Run : q = [job |-> q.job, copy |-> q.copy]
  BY DEF Run
<1>5. OthersStay(r)
  BY <1>1, <1>3, <1>4 DEF OthersStay
<1>6. pc' \in [Run -> PCs]
  BY <1>1 DEF TypeInv, TypeOK, PCs
<1>7. RoleOK'
  <2>1. Fits(r.job[1], here)
    BY <1>2 DEF TypeInv, RoleOK
  <2>2. \A q \in Run : Fits(q.job[1], "claim")
    BY DEF Fits, Locked, Finalising
  <2> QED
    BY <1>3, <2>1, <2>2 DEF TypeInv, RoleOK
<1>8. \A j \in jobs : IsSent(j)'
  <2> SUFFICES ASSUME NEW j \in jobs PROVE IsSent(j)'
    OBVIOUS
  <2> DEFINE q == [job |-> j, copy |-> c]
  <2>1. q \in Run /\ q.job = j /\ q.copy = c /\ pc[q] = "none"
    BY <1>1, RunFacts
  <2>2. q # r /\ pc'[q] = "claim"
    BY <1>2, <1>3, <2>1
  <2> QED
    BY <2>2 DEF IsSent, Sent
<1> QED
  BY <1>2, <1>3, <1>5, <1>6, <1>7, <1>8

\* So does a step that names where it starts.
LEMMA StepType ==
  ASSUME TypeInv, NEW r \in Run, NEW here \in PCs, NEW next \in PCs,
         Fits(r.job[1], here) => Fits(r.job[1], next), Step(r, here, next)
  PROVE  /\ lost' \in Nat /\ pc' \in [Run -> PCs] /\ RoleOK' /\ OthersStay(r)
         /\ pc[r] = here /\ pc'[r] \in {next, here}
  BY GotoType DEF Step, TypeInv, RoleOK

\* A run that is not about to write back a state may have read none.
LEMMA ReadKept ==
  ASSUME TypeInv, NEW r \in Run, OthersStay(r), current' = current,
         pc'[r] \notin {"add", "save", "syncSave"}
  PROVE  ReadOK'
  BY DEF TypeInv, ReadOK, OthersStay

\* A step of a run keeps the types, the roles and what patches have read.
LEMMA TypeRun ==
  ASSUME TypeInv, NEW r \in Run, RunStep(r)
  PROVE  TypeInv' /\ OthersStay(r) /\ pc'[r] # "none"
<1> DEFINE Moved == /\ lost' \in Nat /\ pc' \in [Run -> PCs] /\ RoleOK'
                    /\ OthersStay(r)
<1> DEFINE Writing == {"add", "save", "syncSave"}
<1>0. r.job \in Job /\ r.job \in Key /\ RedisUp \subseteq BOOLEAN
  BY JobFacts, RunFacts, OrchestratorAssumption
<1>1. CASE Claim(r)
  <2>0. /\ FirstStep(r.job[1]) \in {"emit", "seed", "append", "write"}
        /\ Fits(r.job[1], FirstStep(r.job[1])) /\ Fits(r.job[1], "claim")
    BY <1>0, JobFacts DEF FirstStep, Fits, Locked, Finalising
  <2>4. Hash(r) \in Nat
    BY <1>0, RunFacts, OrchestratorAssumption DEF Hash
  <2>5. /\ keys' \in [Key -> Entry] /\ cache' \in [Key -> Entry] /\ lost' \in Nat
        /\ \E to \in {FirstStep(r.job[1]), "claim"} : pc' = [pc EXCEPT ![r] = to]
    BY <1>0, <1>1, <2>4, WriteEffect DEF Claim, TypeInv
  <2>6. {"claim", "emit", "seed", "append", "write"} \subseteq PCs
    BY DEF PCs
  <2>1. Moved /\ pc'[r] \notin Writing \cup {"none"}
    BY <2>0, <2>5, <2>6, MoveType
  <2>2. TypeOK'
    BY <1>1, <2>1, <2>5 DEF Claim, TypeInv, TypeOK, idempotency, redis, local
  <2>3. ReadOK'
    BY <1>1, <2>1, ReadKept DEF Claim, local
  <2> QED
    BY <2>1, <2>2, <2>3 DEF TypeInv
<1>23. CASE Look(r)
  <2>5. /\ keys' = keys /\ cache' \in [Key -> Entry] /\ lost' \in Nat
        /\ \E to \in {"refused", "insert", "update", "claim"} : pc' = [pc EXCEPT ![r] = to]
    BY <1>0, <1>23, LookEffect DEF Look, TypeInv
  <2>6. \A to \in {"refused", "insert", "update", "claim"} :
          to \in PCs /\ Fits(r.job[1], to)
    BY DEF PCs, Ended, Fits, Locked, Finalising
  <2>1. Moved /\ pc'[r] \notin Writing \cup {"none"}
    BY <2>5, <2>6, MoveType
  <2>2. TypeOK'
    BY <1>23, <2>1, <2>5 DEF Look, TypeInv, TypeOK, idempotency, redis, local
  <2>3. ReadOK'
    BY <1>23, <2>1, ReadKept DEF Look, local
  <2> QED
    BY <2>1, <2>2, <2>3 DEF TypeInv
<1>2. CASE MarkSuccess(r)
  <2>1. Moved /\ pc'[r] \in {"mark", "done", "markLocked", "release"}
    BY <1>2, StepType DEF MarkSuccess, PCs, Fits, Locked, Finalising, Ended
  <2>4. PICK up \in BOOLEAN : Settle(r.job, "SUCCEEDED", up)
    BY <1>0, <1>2 DEF MarkSuccess
  <2>5. keys' \in [Key -> Entry] /\ cache' \in [Key -> Entry]
    BY <1>0, <2>4, JobFacts, SettleEffect DEF TypeInv, KeyStatus
  <2>2. TypeOK'
    BY <1>2, <2>1, <2>5 DEF MarkSuccess, TypeInv, TypeOK, idempotency, redis, local
  <2>3. ReadOK'
    BY <1>2, <2>1, ReadKept DEF MarkSuccess, local
  <2> QED
    BY <2>1, <2>2, <2>3 DEF TypeInv
<1>3. CASE MarkFailed(r)
  <2>1. Moved /\ pc'[r] \in {"markFailed", "failed"}
    BY <1>3, StepType DEF MarkFailed, PCs, Fits, Locked, Finalising, Ended
  <2>4. PICK up \in BOOLEAN : Settle(r.job, "FAILED", up)
    BY <1>0, <1>3 DEF MarkFailed
  <2>5. keys' \in [Key -> Entry] /\ cache' \in [Key -> Entry]
    BY <1>0, <2>4, JobFacts, SettleEffect DEF TypeInv, KeyStatus
  <2>2. TypeOK'
    BY <1>3, <2>1, <2>5 DEF MarkFailed, TypeInv, TypeOK, idempotency, redis, local
  <2>3. ReadOK'
    BY <1>3, <2>1, ReadKept DEF MarkFailed, local
  <2> QED
    BY <2>1, <2>2, <2>3 DEF TypeInv
<1>4. CASE MarkFinal(r)
  <2>1. Moved /\ pc'[r] \in {"markFinal", "markLocked"}
    BY <1>4, StepType DEF MarkFinal, PCs, Fits, Locked, Finalising, Ended
  <2>4. PICK up \in BOOLEAN : Settle(Final, "SUCCEEDED", up)
    BY <1>0, <1>4 DEF MarkFinal
  <2>5. keys' \in [Key -> Entry] /\ cache' \in [Key -> Entry]
    BY <1>0, <2>4, JobFacts, SettleEffect DEF TypeInv, KeyStatus
  <2>2. TypeOK'
    BY <1>4, <2>1, <2>5 DEF MarkFinal, TypeInv, TypeOK, idempotency, redis, local
  <2>3. ReadOK'
    BY <1>4, <2>1, ReadKept DEF MarkFinal, local
  <2> QED
    BY <2>1, <2>2, <2>3 DEF TypeInv
<1>5. CASE StartPlanner(r)
  <2>4. {ThePlanner} \subseteq Job /\ EmitStep(r, "emit", {ThePlanner}, "register")
    BY <1>0, <1>5, JobFacts DEF StartPlanner
  <2>5. Fits(r.job[1], "register")
    BY <1>5, JobFacts DEF StartPlanner, Fits, Locked, Finalising
  <2>1. Moved /\ pc'[r] \in {"emit", "register"}
    <3>1. "emit" \in PCs /\ "register" \in PCs /\ "emit" # "none"
      BY DEF PCs
    <3> QED
      BY <2>4, <2>5, <3>1, EmitType
  <2>2. TypeOK'
    BY <1>5, <2>1 DEF StartPlanner, TypeInv, TypeOK, idempotency, redis, local
  <2>3. ReadOK'
    BY <1>5, <2>1, ReadKept DEF StartPlanner, local
  <2> QED
    BY <2>1, <2>2, <2>3 DEF TypeInv
<1>6. CASE StartExecutors(r)
  <2>4. {Executor(t) : t \in Task} \subseteq Job /\ EmitStep(r, "emit", {Executor(t) : t \in Task}, "mark")
    BY <1>0, <1>6, JobFacts DEF StartExecutors
  <2>5. Fits(r.job[1], "mark")
    BY <1>6, JobFacts DEF StartExecutors, Fits, Locked, Finalising
  <2>1. Moved /\ pc'[r] \in {"emit", "mark"}
    <3>1. "emit" \in PCs /\ "mark" \in PCs /\ "emit" # "none"
      BY DEF PCs
    <3> QED
      BY <2>4, <2>5, <3>1, EmitType
  <2>2. TypeOK'
    BY <1>6, <2>1 DEF StartExecutors, TypeInv, TypeOK, idempotency, redis, local
  <2>3. ReadOK'
    BY <1>6, <2>1, ReadKept DEF StartExecutors, local
  <2> QED
    BY <2>1, <2>2, <2>3 DEF TypeInv
<1>7. CASE StartReviewer(r)
  <2>4. {Reviewer(r.job[2])} \subseteq Job /\ EmitStep(r, "emit", {Reviewer(r.job[2])}, "mark")
    BY <1>0, <1>7, JobFacts DEF StartReviewer
  <2>5. Fits(r.job[1], "mark")
    BY <1>7, JobFacts DEF StartReviewer, Fits, Locked, Finalising
  <2>1. Moved /\ pc'[r] \in {"emit", "mark"}
    <3>1. "emit" \in PCs /\ "mark" \in PCs /\ "emit" # "none"
      BY DEF PCs
    <3> QED
      BY <2>4, <2>5, <3>1, EmitType
  <2>2. TypeOK'
    BY <1>7, <2>1 DEF StartReviewer, TypeInv, TypeOK, idempotency, redis, local
  <2>3. ReadOK'
    BY <1>7, <2>1, ReadKept DEF StartReviewer, local
  <2> QED
    BY <2>1, <2>2, <2>3 DEF TypeInv
<1>8. CASE Register(r)
  <2>1. Moved /\ pc'[r] = "wait"
    BY <1>8 DEF Register, TypeInv, TypeOK, RoleOK, OthersStay, PCs, Fits, Locked, Finalising, Ended
  <2>2. TypeOK'
    BY <1>8, <2>1 DEF Register, TypeInv, TypeOK, idempotency, redis, local
  <2>3. ReadOK'
    BY <1>8, <2>1, ReadKept DEF Register, local
  <2> QED
    BY <2>1, <2>2, <2>3 DEF TypeInv
<1>9. CASE Seed(r)
  <2>1. Moved /\ pc'[r] \in {"seed", "emit"}
    BY <1>9, StepType DEF Seed, PCs, Fits, Locked, Finalising, Ended
  <2>4. store' \in [BOOLEAN -> WorkflowState \cup {NoState}]
    BY <1>0, <1>9 DEF Seed, TypeInv, TypeOK, WorkflowState
  <2>2. TypeOK'
    BY <1>9, <2>1, <2>4 DEF Seed, TypeInv, TypeOK, idempotency, redis, local
  <2>3. ReadOK'
    BY <1>9, <2>1, ReadKept DEF Seed, local
  <2> QED
    BY <2>1, <2>2, <2>3 DEF TypeInv
<1>10. CASE AppendRead(r)
  <2>1. Moved /\ pc'[r] \in {"add", "markFailed", "append"}
    <3>1. \A to \in {"add", "markFailed", "append"} : to \in PCs /\ Fits(r.job[1], to)
      BY <1>10 DEF AppendRead, TypeInv, RoleOK, PCs, Fits, Locked, Finalising, Ended
    <3> QED
      BY <1>10, <3>1, GotoType DEF AppendRead
  <2>4. PICK up \in BOOLEAN :
           /\ current' = [current EXCEPT ![r] = store[up]]
           /\ store[up] = NoState => Goto(r, "markFailed", "append")
    BY <1>0, <1>10 DEF AppendRead
  <2>2. TypeOK'
    BY <1>10, <2>1, <2>4 DEF AppendRead, TypeInv, TypeOK, idempotency, redis, local
  <2>5. store[up] = NoState => pc'[r] # "add"
    BY <2>4, GotoEffect DEF TypeInv, TypeOK
  <2>3. ReadOK'
    BY <2>1, <2>4, <2>5 DEF TypeInv, TypeOK, ReadOK, OthersStay
  <2> QED
    BY <2>1, <2>2, <2>3 DEF TypeInv
<1>11. CASE PersistRead(r)
  <2>1. Moved /\ pc'[r] \in {"save", "tellWriter", "persist"}
    <3>1. \A to \in {"save", "tellWriter", "persist"} : to \in PCs /\ Fits(r.job[1], to)
      BY <1>11 DEF PersistRead, TypeInv, RoleOK, PCs, Fits, Locked, Finalising, Ended
    <3> QED
      BY <1>11, <3>1, GotoType DEF PersistRead
  <2>4. PICK up \in BOOLEAN :
           /\ current' = [current EXCEPT ![r] = store[up]]
           /\ store[up] = NoState => Goto(r, "tellWriter", "persist")
    BY <1>0, <1>11 DEF PersistRead
  <2>2. TypeOK'
    BY <1>11, <2>1, <2>4 DEF PersistRead, TypeInv, TypeOK, idempotency, redis, local
  <2>5. store[up] = NoState => pc'[r] # "save"
    BY <2>4, GotoEffect DEF TypeInv, TypeOK
  <2>3. ReadOK'
    BY <2>1, <2>4, <2>5 DEF TypeInv, TypeOK, ReadOK, OthersStay
  <2> QED
    BY <2>1, <2>2, <2>3 DEF TypeInv
<1>12. CASE SyncRead(r)
  <2>1. Moved /\ pc'[r] \in {"syncSave", "mark", "sync"}
    <3>1. \A to \in {"syncSave", "mark", "sync"} : to \in PCs /\ Fits(r.job[1], to)
      BY <1>12 DEF SyncRead, TypeInv, RoleOK, PCs, Fits, Locked, Finalising, Ended
    <3> QED
      BY <1>12, <3>1, GotoType DEF SyncRead
  <2>4. PICK up \in BOOLEAN :
           /\ current' = [current EXCEPT ![r] = store[up]]
           /\ store[up] = NoState => Goto(r, "mark", "sync")
    BY <1>0, <1>12 DEF SyncRead
  <2>2. TypeOK'
    BY <1>12, <2>1, <2>4 DEF SyncRead, TypeInv, TypeOK, idempotency, redis, local
  <2>5. store[up] = NoState => pc'[r] # "syncSave"
    BY <2>4, GotoEffect DEF TypeInv, TypeOK
  <2>3. ReadOK'
    BY <2>1, <2>4, <2>5 DEF TypeInv, TypeOK, ReadOK, OthersStay
  <2> QED
    BY <2>1, <2>2, <2>3 DEF TypeInv
<1>13. CASE AppendWrite(r)
  <2>1. Moved /\ pc'[r] \in {"count", "append"}
    <3>1. \A to \in {"count", "append"} : to \in PCs /\ Fits(r.job[1], to)
      BY <1>13 DEF AppendWrite, TypeInv, RoleOK, PCs, Fits, Locked, Finalising, Ended
    <3> QED
      BY <1>13, <3>1, GotoType DEF AppendWrite
  <2>4. current[r] \cup {r.job[2]} \in WorkflowState
    BY <1>0, <1>13, JobFacts DEF AppendWrite, TypeInv, TypeOK, RoleOK, ReadOK, Fits, WorkflowState
  <2>5. PICK up \in BOOLEAN :
           /\ store' = [store EXCEPT ![up] = current[r] \cup {r.job[2]}]
           /\ state' = [state EXCEPT ![r] = current[r] \cup {r.job[2]}]
    BY <1>0, <1>13 DEF AppendWrite
  <2>2. TypeOK'
    BY <1>13, <2>1, <2>4, <2>5 DEF AppendWrite, TypeInv, TypeOK, idempotency, redis, local
  <2>3. ReadOK'
    BY <1>13, <2>1 DEF AppendWrite, TypeInv, TypeOK, ReadOK, OthersStay
  <2> QED
    BY <2>1, <2>2, <2>3 DEF TypeInv
<1>14. CASE PersistWrite(r)
  <2>1. Moved /\ pc'[r] \in {"tellWriter", "persist"}
    <3>1. \A to \in {"tellWriter", "persist"} : to \in PCs /\ Fits(r.job[1], to)
      BY <1>14 DEF PersistWrite, TypeInv, RoleOK, PCs, Fits, Locked, Finalising, Ended
    <3> QED
      BY <1>14, <3>1, GotoType DEF PersistWrite
  <2>4. current[r] \in WorkflowState
    BY <1>14 DEF PersistWrite, TypeInv, TypeOK, ReadOK
  <2>5. PICK up \in BOOLEAN : store' = [store EXCEPT ![up] = current[r]]
    BY <1>0, <1>14 DEF PersistWrite
  <2>2. TypeOK'
    BY <1>14, <2>1, <2>4, <2>5 DEF PersistWrite, TypeInv, TypeOK, idempotency, redis, local
  <2>3. ReadOK'
    BY <1>14, <2>1 DEF PersistWrite, TypeInv, TypeOK, ReadOK, OthersStay
  <2> QED
    BY <2>1, <2>2, <2>3 DEF TypeInv
<1>15. CASE SyncWrite(r)
  <2>1. Moved /\ pc'[r] \in {"mark", "sync"}
    <3>1. \A to \in {"mark", "sync"} : to \in PCs /\ Fits(r.job[1], to)
      BY <1>15 DEF SyncWrite, TypeInv, RoleOK, PCs, Fits, Locked, Finalising, Ended
    <3> QED
      BY <1>15, <3>1, GotoType DEF SyncWrite
  <2>4. current[r] \in WorkflowState
    BY <1>15 DEF SyncWrite, TypeInv, TypeOK, ReadOK
  <2>5. PICK up \in BOOLEAN : store' = [store EXCEPT ![up] = current[r]]
    BY <1>0, <1>15 DEF SyncWrite
  <2>2. TypeOK'
    BY <1>15, <2>1, <2>4, <2>5 DEF SyncWrite, TypeInv, TypeOK, idempotency, redis, local
  <2>3. ReadOK'
    BY <1>15, <2>1 DEF SyncWrite, TypeInv, TypeOK, ReadOK, OthersStay
  <2> QED
    BY <2>1, <2>2, <2>3 DEF TypeInv
<1>16. CASE Count(r)
  <2>4. PICK up \in BOOLEAN, completed \in Nat :
           /\ counter' = IF up THEN counter + 1 ELSE counter
           /\ count' = [count EXCEPT ![r] = completed]
           /\ Goto(r, IF completed < Cardinality(Task) THEN "mark" ELSE "lock", "count")
    <3>1. IsFiniteSet(state[r])
      <4>1. IsFiniteSet(NoState)
        BY FS_Singleton DEF NoState
      <4>2. state[r] \in WorkflowState \/ state[r] = NoState
        BY DEF TypeInv, TypeOK
      <4> QED
        BY <4>1, <4>2, FS_Subset, OrchestratorAssumption DEF WorkflowState
    <3>2. Cardinality(state[r]) \in Nat
      BY <3>1, FS_CardinalityType
    <3>3. PICK up \in BOOLEAN :
             LET completed == IF up THEN counter + 1 ELSE Cardinality(state[r])
             IN /\ counter' = IF up THEN counter + 1 ELSE counter
                /\ count' = [count EXCEPT ![r] = completed]
                /\ Goto(r, IF completed < Cardinality(Task) THEN "mark" ELSE "lock", "count")
      BY <1>0, <1>16 DEF Count
    <3>4. (IF up THEN counter + 1 ELSE Cardinality(state[r])) \in Nat
      BY <3>2 DEF TypeInv, TypeOK
    <3> QED
      BY <3>3, <3>4
  <2>1. Moved /\ pc'[r] \in {"mark", "lock", "count"}
    <3>1. \A to \in {"mark", "lock", "count"} : to \in PCs /\ Fits(r.job[1], to)
      BY <1>16 DEF Count, TypeInv, RoleOK, PCs, Fits, Locked, Finalising, Ended
    <3> QED
      BY <2>4, <3>1, GotoType
  <2>2. TypeOK'
    BY <1>16, <2>1, <2>4 DEF Count, TypeInv, TypeOK, idempotency, redis, local
  <2>3. ReadOK'
    BY <1>16, <2>1, ReadKept DEF Count, local
  <2> QED
    BY <2>1, <2>2, <2>3 DEF TypeInv
<1>17. CASE AcquireLock(r)
  <2>1. Moved /\ pc'[r] \in {"lock", "claimFinal", "mark"}
    BY <1>17, StepType DEF AcquireLock, PCs, Fits, Locked, Finalising, Ended
  <2>2. TypeOK'
    BY <1>17, <2>1 DEF AcquireLock, TypeInv, TypeOK, idempotency, redis, local
  <2>3. ReadOK'
    BY <1>17, <2>1, ReadKept DEF AcquireLock, local
  <2> QED
    BY <2>1, <2>2, <2>3 DEF TypeInv
<1>18. CASE ClaimFinal(r)
  <2>0. Final \in Key /\ count[r] \in Nat /\ r.job[1] = "reviewer"
    BY <1>18, JobFacts DEF ClaimFinal, TypeInv, TypeOK, RoleOK, Fits, Locked
  <2>5. /\ keys' \in [Key -> Entry] /\ cache' \in [Key -> Entry] /\ lost' \in Nat
        /\ \E to \in {"persist", "claimFinal"} : pc' = [pc EXCEPT ![r] = to]
    BY <1>18, <2>0, WriteEffect DEF ClaimFinal, TypeInv
  <2>6. \A to \in {"persist", "claimFinal"} : to \in PCs /\ Fits(r.job[1], to)
    BY <2>0 DEF PCs, Ended, Fits, Locked, Finalising
  <2>1. Moved /\ pc'[r] \notin Writing \cup {"none"}
    BY <2>5, <2>6, MoveType
  <2>2. TypeOK'
    BY <1>18, <2>1, <2>5 DEF ClaimFinal, TypeInv, TypeOK, idempotency, redis, local
  <2>3. ReadOK'
    BY <1>18, <2>1, ReadKept DEF ClaimFinal, local
  <2> QED
    BY <2>1, <2>2, <2>3 DEF TypeInv
<1>24. CASE LookFinal(r)
  <2>0. Final \in Key /\ r.job[1] = "reviewer"
    BY <1>24, JobFacts DEF LookFinal, TypeInv, RoleOK, Fits, Locked
  <2>5. /\ keys' = keys /\ cache' \in [Key -> Entry] /\ lost' \in Nat
        /\ \E to \in {"markLocked", "insertFinal", "updateFinal", "claimFinal"} :
             pc' = [pc EXCEPT ![r] = to]
    BY <1>24, <2>0, LookEffect DEF LookFinal, TypeInv
  <2>6. \A to \in {"markLocked", "insertFinal", "updateFinal", "claimFinal"} :
          to \in PCs /\ Fits(r.job[1], to)
    BY <2>0 DEF PCs, Ended, Fits, Locked, Finalising
  <2>1. Moved /\ pc'[r] \notin Writing \cup {"none"}
    BY <2>5, <2>6, MoveType
  <2>2. TypeOK'
    BY <1>24, <2>1, <2>5 DEF LookFinal, TypeInv, TypeOK, idempotency, redis, local
  <2>3. ReadOK'
    BY <1>24, <2>1, ReadKept DEF LookFinal, local
  <2> QED
    BY <2>1, <2>2, <2>3 DEF TypeInv
<1>19. CASE TellWriter(r)
  <2>4. {TheWriter} \subseteq Job /\ EmitStep(r, "tellWriter", {TheWriter}, "tellRunner")
    BY <1>19, JobFacts DEF TellWriter
  <2>5. pc[r] = "tellWriter"
    BY <2>4 DEF EmitStep
  <2>6. Fits(r.job[1], "tellRunner")
    BY <2>5 DEF TypeInv, RoleOK, PCs, Fits, Locked, Finalising, Ended
  <2>1. Moved /\ pc'[r] \in {"tellWriter", "tellRunner"}
    <3>1. "tellWriter" \in PCs /\ "tellRunner" \in PCs /\ "tellWriter" # "none"
      BY DEF PCs, Locked, Finalising
    <3> QED
      BY <2>4, <2>6, <3>1, EmitType
  <2>2. TypeOK'
    BY <1>19, <2>1 DEF TellWriter, TypeInv, TypeOK, idempotency, redis, local
  <2>3. ReadOK'
    BY <1>19, <2>1, ReadKept DEF TellWriter, local
  <2> QED
    BY <2>1, <2>2, <2>3 DEF TypeInv
<1>20. CASE TellRunner(r)
  <2>4. PICK to \in {"markFinal", "tellRunner"} :
           /\ Outcome(r, to, "markFinal", "tellRunner")
           /\ pc' = [q \in Run |-> IF q = r THEN to
                                   ELSE IF pc[q] = "wait" THEN "mark" ELSE pc[q]]
    BY <1>20 DEF TellRunner
  <2>1. Moved /\ pc'[r] \in {"markFinal", "tellRunner"}
    <3>1. lost' \in Nat
      BY <2>4 DEF Outcome, TypeInv, TypeOK
    <3>2. pc' \in [Run -> PCs] /\ pc'[r] = to
      BY <2>4 DEF TypeInv, TypeOK, PCs, Fits, Locked, Finalising, Ended
    <3>3. RoleOK'
      BY <1>20, <2>4 DEF TellRunner, TypeInv, RoleOK, PCs, Fits, Locked, Finalising, Ended
    <3>4. OthersStay(r)
      BY <2>4 DEF OthersStay
    <3> QED
      BY <3>1, <3>2, <3>3, <3>4
  <2>5. Review(state[r]) \in Verdict
    BY DEF Review, Verdict
  <2>2. TypeOK'
    BY <1>20, <2>1, <2>5 DEF TellRunner, TypeInv, TypeOK, idempotency, redis, local
  <2>3. ReadOK'
    BY <1>20, <2>1, ReadKept DEF TellRunner, local
  <2> QED
    BY <2>1, <2>2, <2>3 DEF TypeInv
<1>21. CASE Release(r)
  <2>1. Moved /\ pc'[r] \in {"release", "done", "unwind", "markFailed"}
    BY <1>21, StepType DEF Release, PCs, Fits, Locked, Finalising, Ended
  <2>2. TypeOK'
    BY <1>21, <2>1 DEF Release, TypeInv, TypeOK, idempotency, redis, local
  <2>3. ReadOK'
    BY <1>21, <2>1, ReadKept DEF Release, local
  <2> QED
    BY <2>1, <2>2, <2>3 DEF TypeInv
<1>22. CASE WriteReview(r)
  <2>1. Moved /\ pc'[r] \in {"write", "sync"}
    BY <1>22, StepType DEF WriteReview, PCs, Fits, Locked, Finalising, Ended
  <2>2. TypeOK'
    BY <1>22, <2>1 DEF WriteReview, TypeInv, TypeOK, idempotency, redis, local
  <2>3. ReadOK'
    BY <1>22, <2>1, ReadKept DEF WriteReview, local
  <2> QED
    BY <2>1, <2>2, <2>3 DEF TypeInv
<1> HIDE DEF Moved, Writing
<1> QED
  BY <1>1, <1>2, <1>3, <1>4, <1>5, <1>6, <1>7, <1>8, <1>9, <1>10, <1>11, <1>12, <1>13, <1>14, <1>15, <1>16, <1>17, <1>18, <1>19, <1>20, <1>21, <1>22, <1>23, <1>24 DEF RunStep

\* Every action keeps the types, and no run goes back to "none".
LEMMA TypeNext ==
  ASSUME TypeInv, [Next]_vars
  PROVE  TypeInv' /\ \A r \in Run : pc[r] # "none" => pc'[r] # "none"
<1>1. CASE Request
  <2>1. PICK c \in 1..Copies :
           LET q == [job |-> TheRunner, copy |-> c]
           IN pc[q] = "none" /\ pc' = [pc EXCEPT ![q] = "claim"]
    <3>1. Requests \in Nat /\ Copies \in Nat /\ Requests <= Copies
      BY OrchestratorAssumption
    <3>2. PICK c \in 1..Requests :
             /\ IsNext(TheRunner, c)
             /\ pc' = [pc EXCEPT ![[job |-> TheRunner, copy |-> c]] = "claim"]
      BY <1>1 DEF Request
    <3>3. c \in 1..Copies
      BY <3>1, <3>2
    <3> QED
      BY <3>2, <3>3 DEF IsNext, Sent
  <2>2. pc' \in [Run -> PCs] /\ RoleOK' /\ ReadOK'
    BY <1>1, <2>1 DEF Request, TypeInv, TypeOK, RoleOK, ReadOK, local,
                      PCs, Fits, Locked, Finalising
  <2> QED
    BY <1>1, <2>1, <2>2 DEF Request, TypeInv, TypeOK, idempotency, redis, local
<1>2. CASE LockExpires
  BY <1>2 DEF LockExpires, TypeInv, TypeOK, RoleOK, ReadOK, idempotency, local
<1>3. ASSUME NEW r \in Run, RunStep(r)
      PROVE  TypeInv' /\ \A q \in Run : pc[q] # "none" => pc'[q] # "none"
  BY <1>3, TypeRun DEF OthersStay
<1>4. ASSUME NEW r \in Run, Timeout(r)
      PROVE  TypeInv' /\ \A q \in Run : pc[q] # "none" => pc'[q] # "none"
  <2>1. pc' \in [Run -> PCs] /\ RoleOK' /\ ReadOK'
    BY <1>4 DEF Timeout, TypeInv, TypeOK, RoleOK, ReadOK, local,
                PCs, Fits, Locked, Finalising
  <2> QED
    BY <1>4, <2>1 DEF Timeout, TypeInv, TypeOK, idempotency, redis, local
<1>5. ASSUME NEW r \in Run, StepFails(r)
      PROVE  TypeInv' /\ \A q \in Run : pc[q] # "none" => pc'[q] # "none"
  <2>1. PICK to \in {"unwind", "failed", "markFailed"} :
           /\ pc' = [pc EXCEPT ![r] = to]
           /\ to = "unwind" => pc[r] \in Locked
    BY <1>5 DEF StepFails
  <2>2. pc' \in [Run -> PCs] /\ RoleOK' /\ ReadOK'
    BY <1>5, <2>1 DEF StepFails, TypeInv, TypeOK, RoleOK, ReadOK, local,
                      PCs, Fits, Locked, Finalising, Ended
  <2> QED
    BY <1>5, <2>1, <2>2 DEF StepFails, TypeInv, TypeOK, idempotency, redis, local
<1>6. CASE UNCHANGED vars
  BY <1>6 DEF vars, TypeInv, TypeOK, RoleOK, ReadOK, idempotency, redis, local
<1> QED
  BY <1>1, <1>2, <1>3, <1>4, <1>5, <1>6 DEF Next

\* An event that was sent stays sent, and executed tasks stay executed.
LEMMA SentGrows ==
  ASSUME TypeInv, [Next]_vars
  PROVE  /\ \A j \in Job : IsSent(j) => IsSent(j)'
         /\ \A t \in Task : t \in Executed => t \in Executed'
<1>1. \A j \in Job : IsSent(j) => IsSent(j)'
  <2> SUFFICES ASSUME NEW j \in Job, IsSent(j) PROVE IsSent(j)'
    OBVIOUS
  <2>1. PICK c \in 1..Copies : pc[[job |-> j, copy |-> c]] # "none"
    BY DEF IsSent, Sent
  <2>2. pc'[[job |-> j, copy |-> c]] # "none"
    BY <2>1, RunFacts, TypeNext
  <2> QED
    BY <2>2 DEF IsSent, Sent
<1> QED
  BY <1>1, JobFacts DEF Executed

\* Initially no event is sent and nothing has been read.
LEMMA TypeInit == Init => TypeInv
  BY DEF Init, TypeInv, TypeOK, RoleOK, ReadOK, Fits, PCs, Ended, Locked, Finalising,
         NoEntry, Entry, KeyStatus

\* The variables have their types in every reachable state.
THEOREM TypeCorrect == Spec => []TypeOK
<1>1. Spec => []TypeInv
  BY TypeInit, TypeNext, PTL DEF Spec
<1> QED
  BY <1>1, PTL DEF TypeInv
-----------------------------------------------------------------------------
\* Approved reviews.

\* The actions that publish a review, write one, or change a workflow state.
LEMMA Footprint ==
  ASSUME [Next]_vars
  PROVE  /\ UNCHANGED reviews \/ \E r \in Run : TellRunner(r)
         /\ UNCHANGED memory \/ \E r \in Run : WriteReview(r)
         /\ \/ UNCHANGED <<store, state, current>>
            \/ \E r \in Run : \/ Seed(r) \/ AppendRead(r) \/ AppendWrite(r)
                             \/ PersistRead(r) \/ PersistWrite(r) \/ TellWriter(r)
                             \/ SyncRead(r) \/ SyncWrite(r)
<1>1. CASE Request \/ LockExpires \/ UNCHANGED vars
  BY <1>1 DEF Request, LockExpires, vars, redis, local
<1>2. ASSUME NEW r \in Run, Timeout(r) \/ StepFails(r)
      PROVE  UNCHANGED <<reviews, memory, store, state, current>>
  BY <1>2 DEF Timeout, StepFails, redis, local
<1>3. ASSUME NEW r \in Run, RunStep(r)
      PROVE  /\ UNCHANGED reviews \/ TellRunner(r)
             /\ UNCHANGED memory \/ WriteReview(r)
             /\ \/ UNCHANGED <<store, state, current>>
                \/ Seed(r) \/ AppendRead(r) \/ AppendWrite(r)
                \/ PersistRead(r) \/ PersistWrite(r) \/ TellWriter(r)
                \/ SyncRead(r) \/ SyncWrite(r)
  BY <1>3 DEF RunStep, redis, local, Look, Claim, MarkSuccess, MarkFailed, StartPlanner, Register, Seed,
              StartExecutors, StartReviewer, AppendRead, AppendWrite, Count,
              AcquireLock, LookFinal, ClaimFinal, PersistRead, PersistWrite, TellWriter,
              TellRunner, MarkFinal, Release, WriteReview, SyncRead,
              SyncWrite
<1> QED
  BY <1>1, <1>2, <1>3 DEF Next

\* A run that has been started for a reviewer shows that its task is executed.
LEMMA ReviewerExecuted ==
  ASSUME NEW r \in Run, r.job[1] = "reviewer", pc[r] # "none"
  PROVE  r.job[2] \in Task /\ r.job[2] \in Executed
<1>1. r = [job |-> r.job, copy |-> r.copy] /\ r.copy \in 1..Copies /\ r.job \in Job
  BY DEF Run
<1>2. r.job[2] \in Task /\ r.job = Reviewer(r.job[2])
  BY <1>1, JobFacts
<1>3. IsSent(r.job)
  BY <1>1 DEF IsSent, Sent
<1> QED
  BY <1>2, <1>3 DEF Executed

\* No result is kept anywhere before its task is executed.
LEMMA ResultsNext ==
  ASSUME TypeInv, ResultsOK, [Next]_vars
  PROVE  ResultsOK'
<1> SUFFICES ASSUME NEW t \in Task
             PROVE  /\ \A up \in BOOLEAN : t \in store'[up] => t \in Executed
                    /\ \A q \in Run : t \in state'[q] \cup current'[q] => t \in Executed
  BY SentGrows DEF ResultsOK
<1>1. /\ \A up \in BOOLEAN : t \in store[up] => t \in Executed
      /\ \A q \in Run : t \in state[q] \cup current[q] => t \in Executed
      /\ t \notin NoState
  BY OrchestratorAssumption DEF ResultsOK, NoState
<1>2. RedisUp \subseteq BOOLEAN
  BY OrchestratorAssumption
<1>3. CASE UNCHANGED <<store, state, current>>
  BY <1>1, <1>3
<1>4. ASSUME NEW r \in Run, Seed(r) \/ PersistWrite(r) \/ SyncWrite(r)
      PROVE  /\ \A up \in BOOLEAN : t \in store'[up] => t \in Executed
             /\ \A q \in Run : t \in state'[q] \cup current'[q] => t \in Executed
  BY <1>1, <1>2, <1>4 DEF Seed, PersistWrite, SyncWrite, TypeInv, TypeOK, local
<1>5. ASSUME NEW r \in Run, AppendRead(r) \/ PersistRead(r) \/ SyncRead(r)
      PROVE  /\ \A up \in BOOLEAN : t \in store'[up] => t \in Executed
             /\ \A q \in Run : t \in state'[q] \cup current'[q] => t \in Executed
  <2>1. store' = store /\ state' = state
    BY <1>5 DEF AppendRead, PersistRead, SyncRead, redis
  <2>2. PICK up \in RedisUp : current' = [current EXCEPT ![r] = store[up]]
    BY <1>5 DEF AppendRead, PersistRead, SyncRead
  <2> QED
    BY <1>1, <1>2, <2>1, <2>2 DEF TypeInv, TypeOK
<1>6. ASSUME NEW r \in Run, AppendWrite(r)
      PROVE  /\ \A up \in BOOLEAN : t \in store'[up] => t \in Executed
             /\ \A q \in Run : t \in state'[q] \cup current'[q] => t \in Executed
  <2>1. r.job[2] \in Executed
    BY <1>6, ReviewerExecuted DEF AppendWrite, TypeInv, RoleOK, Fits
  <2>2. PICK up \in BOOLEAN :
           /\ store' = [store EXCEPT ![up] = current[r] \cup {r.job[2]}]
           /\ state' = [state EXCEPT ![r] = current[r] \cup {r.job[2]}]
           /\ current' = [current EXCEPT ![r] = NoState]
    BY <1>2, <1>6 DEF AppendWrite
  <2> QED
    BY <1>1, <2>1, <2>2 DEF TypeInv, TypeOK
<1>7. ASSUME NEW r \in Run, TellWriter(r)
      PROVE  /\ \A up \in BOOLEAN : t \in store'[up] => t \in Executed
             /\ \A q \in Run : t \in state'[q] \cup current'[q] => t \in Executed
  BY <1>1, <1>7 DEF TellWriter, redis
<1> QED
  BY <1>3, <1>4, <1>5, <1>6, <1>7, Footprint

\* A review that is published as approved was made of a result of every task.
LEMMA ApprovedNext ==
  ASSUME TypeInv, ResultsOK, ApprovedIsTrue, [Next]_vars
  PROVE  ApprovedIsTrue'
<1>1. Executed = Task => Executed' = Task
  BY SentGrows DEF Executed
<1>2. CASE UNCHANGED reviews
  BY <1>1, <1>2 DEF ApprovedIsTrue
<1>3. ASSUME NEW r \in Run, TellRunner(r)
      PROVE  ApprovedIsTrue'
  <2>1. reviews' = Append(reviews, Review(state[r])) /\ reviews \in Seq(Verdict)
    BY <1>3 DEF TellRunner, TypeInv, TypeOK
  <2>2. Review(state[r]) = "approved" => Executed = Task
    BY DEF Review, ResultsOK, Executed
  <2>3. ASSUME NEW i \in DOMAIN reviews', reviews'[i] = "approved"
        PROVE  Executed = Task
    <3>1. CASE i \in DOMAIN reviews
      BY <2>1, <2>3, <3>1 DEF ApprovedIsTrue
    <3>2. CASE i \notin DOMAIN reviews
      BY <2>1, <2>2, <2>3, <3>2
    <3> QED
      BY <3>1, <3>2
  <2> QED
    BY <1>1, <2>3 DEF ApprovedIsTrue
<1> QED
  BY <1>2, <1>3, Footprint

\* A review is published as approved only when every task is executed, whatever
\* is lost, repeated, overwritten or counted twice on the way.
THEOREM ApprovedHolds == Spec => []ApprovedIsTrue
<1> DEFINE Inv == TypeInv /\ ResultsOK /\ ApprovedIsTrue
<1>1. Init => Inv
  BY TypeInit, OrchestratorAssumption DEF Init, ResultsOK, ApprovedIsTrue, NoState
<1>2. Inv /\ [Next]_vars => Inv'
  BY TypeNext, ResultsNext, ApprovedNext
<1> QED
  BY <1>1, <1>2, PTL DEF Spec
-----------------------------------------------------------------------------
\* Where runs come from, and what happens to the keys.

\* The moves into the steps that the other invariants speak of.
Entering(r) ==
  /\ pc'[r] \in Finalising => pc[r] \in Finalising \/ ClaimFinal(r)
  /\ pc'[r] = "markFinal" => pc[r] = "markFinal" \/ TellRunner(r)
  /\ pc'[r] \in {"mark", "sync", "syncSave"} =>
       \/ pc[r] \in {"mark", "sync", "syncSave"}
       \/ r.job[1] = "reviewer"
       \/ StartExecutors(r) \/ StartReviewer(r) \/ WriteReview(r)
  /\ \A q \in Run \ {r} : pc'[q] = "mark" => pc[q] = "mark" \/ TellRunner(r)

\* Every step of a run enters those steps in one of these ways.
LEMMA EnteringRun ==
  ASSUME TypeInv, NEW r \in Run, RunStep(r)
  PROVE  Entering(r)
<1>0. lost \in Nat /\ pc \in [Run -> PCs] /\ Fits(r.job[1], pc[r])
  BY DEF TypeInv, TypeOK, RoleOK
<1> DEFINE Goes(S) == \E to \in S : pc' = [pc EXCEPT ![r] = to]
<1>1. CASE Claim(r)
  <2>0. FirstStep(r.job[1]) \in {"emit", "seed", "append", "write"}
    BY JobFacts, RunFacts DEF FirstStep
  <2>3. Hash(r) \in Nat /\ TypeOK /\ r.job \in Key
    BY JobFacts, RunFacts, OrchestratorAssumption DEF Hash, TypeInv
  <2>1. pc[r] \in {"insert", "update"} /\ Goes({"claim", "emit", "seed", "append", "write"})
    BY <1>1, <2>0, <2>3, WriteEffect DEF Claim
  <2> QED
    BY <1>0, <1>1, <2>1 DEF Entering, Fits, Locked, Finalising
<1>2. CASE MarkSuccess(r)
  <2>1. pc[r] \in {"mark", "markLocked"} /\ Goes({"mark", "markLocked", "done", "release"})
    BY <1>0, <1>2, GotoEffect DEF MarkSuccess, Step
  <2> QED
    BY <1>0, <1>2, <2>1 DEF Entering, Fits, Locked, Finalising
<1>3. CASE MarkFailed(r)
  <2>1. pc[r] \in {"markFailed"} /\ Goes({"markFailed", "failed"})
    BY <1>0, <1>3, GotoEffect DEF MarkFailed, Step
  <2> QED
    BY <1>0, <1>3, <2>1 DEF Entering, Fits, Locked, Finalising
<1>4. CASE Seed(r)
  <2>1. pc[r] \in {"seed"} /\ Goes({"seed", "emit"})
    BY <1>0, <1>4, GotoEffect DEF Seed, Step
  <2> QED
    BY <1>0, <1>4, <2>1 DEF Entering, Fits, Locked, Finalising
<1>5. CASE AppendRead(r)
  <2>1. pc[r] \in {"append"} /\ Goes({"append", "add", "markFailed"})
    BY <1>0, <1>5, GotoEffect DEF AppendRead, Step
  <2> QED
    BY <1>0, <1>5, <2>1 DEF Entering, Fits, Locked, Finalising
<1>6. CASE AppendWrite(r)
  <2>1. pc[r] \in {"add"} /\ Goes({"append", "count"})
    BY <1>0, <1>6, GotoEffect DEF AppendWrite, Step
  <2> QED
    BY <1>0, <1>6, <2>1 DEF Entering, Fits, Locked, Finalising
<1>7. CASE Count(r)
  <2>1. pc[r] \in {"count"} /\ Goes({"count", "mark", "lock"})
    BY <1>0, <1>7, GotoEffect DEF Count, Step
  <2> QED
    BY <1>0, <1>7, <2>1 DEF Entering, Fits, Locked, Finalising
<1>8. CASE AcquireLock(r)
  <2>1. pc[r] \in {"lock"} /\ Goes({"lock", "claimFinal", "mark"})
    BY <1>0, <1>8, GotoEffect DEF AcquireLock, Step
  <2> QED
    BY <1>0, <1>8, <2>1 DEF Entering, Fits, Locked, Finalising
<1>9. CASE ClaimFinal(r)
  <2>0. count[r] \in Nat /\ TypeOK /\ Final \in Key
    BY JobFacts DEF TypeInv, TypeOK
  <2>1. pc[r] \in {"insertFinal", "updateFinal"} /\ Goes({"claimFinal", "persist"})
    BY <1>9, <2>0, WriteEffect DEF ClaimFinal
  <2> QED
    BY <1>0, <1>9, <2>1 DEF Entering, Fits, Locked, Finalising
<1>10. CASE PersistRead(r)
  <2>1. pc[r] \in {"persist"} /\ Goes({"persist", "save", "tellWriter"})
    BY <1>0, <1>10, GotoEffect DEF PersistRead, Step
  <2> QED
    BY <1>0, <1>10, <2>1 DEF Entering, Fits, Locked, Finalising
<1>11. CASE PersistWrite(r)
  <2>1. pc[r] \in {"save"} /\ Goes({"persist", "tellWriter"})
    BY <1>0, <1>11, GotoEffect DEF PersistWrite, Step
  <2> QED
    BY <1>0, <1>11, <2>1 DEF Entering, Fits, Locked, Finalising
<1>12. CASE MarkFinal(r)
  <2>1. pc[r] \in {"markFinal"} /\ Goes({"markFinal", "markLocked"})
    BY <1>0, <1>12, GotoEffect DEF MarkFinal, Step
  <2> QED
    BY <1>0, <1>12, <2>1 DEF Entering, Fits, Locked, Finalising
<1>13. CASE Release(r)
  <2>1. pc[r] \in {"release", "unwind"} /\ Goes({"release", "unwind", "done", "markFailed"})
    BY <1>0, <1>13, GotoEffect DEF Release, Step
  <2> QED
    BY <1>0, <1>13, <2>1 DEF Entering, Fits, Locked, Finalising
<1>14. CASE WriteReview(r)
  <2>1. pc[r] \in {"write"} /\ Goes({"write", "sync"})
    BY <1>0, <1>14, GotoEffect DEF WriteReview, Step
  <2> QED
    BY <1>0, <1>14, <2>1 DEF Entering, Fits, Locked, Finalising
<1>15. CASE SyncRead(r)
  <2>1. pc[r] \in {"sync"} /\ Goes({"sync", "syncSave", "mark"})
    BY <1>0, <1>15, GotoEffect DEF SyncRead, Step
  <2> QED
    BY <1>0, <1>15, <2>1 DEF Entering, Fits, Locked, Finalising
<1>16. CASE SyncWrite(r)
  <2>1. pc[r] \in {"syncSave"} /\ Goes({"sync", "mark"})
    BY <1>0, <1>16, GotoEffect DEF SyncWrite, Step
  <2> QED
    BY <1>0, <1>16, <2>1 DEF Entering, Fits, Locked, Finalising
<1>17. CASE Register(r)
  BY <1>0, <1>17 DEF Register, Entering, Finalising
<1>18. CASE StartPlanner(r)
  <2>1. PICK to \in {"emit", "register"} :
           /\ pc'[r] = to
           /\ \A q \in Run \ {r} : pc'[q] \in {"claim", pc[q]}
    BY <1>0, <1>18, EmitEffect DEF StartPlanner
  <2>2. pc[r] = "emit"
    BY <1>18 DEF StartPlanner, EmitStep
  <2> QED
    BY <1>0, <1>18, <2>1, <2>2 DEF Entering, Fits, Locked, Finalising
<1>19. CASE StartExecutors(r)
  <2>1. PICK to \in {"emit", "mark"} :
           /\ pc'[r] = to
           /\ \A q \in Run \ {r} : pc'[q] \in {"claim", pc[q]}
    BY <1>0, <1>19, EmitEffect DEF StartExecutors
  <2>2. pc[r] = "emit"
    BY <1>19 DEF StartExecutors, EmitStep
  <2> QED
    BY <1>0, <1>19, <2>1, <2>2 DEF Entering, Fits, Locked, Finalising
<1>20. CASE StartReviewer(r)
  <2>1. PICK to \in {"emit", "mark"} :
           /\ pc'[r] = to
           /\ \A q \in Run \ {r} : pc'[q] \in {"claim", pc[q]}
    BY <1>0, <1>20, EmitEffect DEF StartReviewer
  <2>2. pc[r] = "emit"
    BY <1>20 DEF StartReviewer, EmitStep
  <2> QED
    BY <1>0, <1>20, <2>1, <2>2 DEF Entering, Fits, Locked, Finalising
<1>21. CASE TellWriter(r)
  <2>1. PICK to \in {"tellWriter", "tellRunner"} :
           /\ pc'[r] = to
           /\ \A q \in Run \ {r} : pc'[q] \in {"claim", pc[q]}
    BY <1>0, <1>21, EmitEffect DEF TellWriter
  <2>2. pc[r] = "tellWriter"
    BY <1>21 DEF TellWriter, EmitStep
  <2> QED
    BY <1>0, <1>21, <2>1, <2>2 DEF Entering, Fits, Locked, Finalising
<1>23. CASE Look(r)
  <2>0. TypeOK /\ r.job \in Key
    BY JobFacts, RunFacts DEF TypeInv
  <2>1. pc[r] \in {"claim"} /\ Goes({"refused", "insert", "update", "claim"})
    BY <1>23, <2>0, LookEffect DEF Look
  <2> QED
    BY <1>0, <1>23, <2>1 DEF Entering, Fits, Locked, Finalising
<1>24. CASE LookFinal(r)
  <2>0. TypeOK /\ Final \in Key
    BY JobFacts DEF TypeInv
  <2>1. /\ pc[r] \in {"claimFinal"}
        /\ Goes({"markLocked", "insertFinal", "updateFinal", "claimFinal"})
    BY <1>24, <2>0, LookEffect DEF LookFinal
  <2> QED
    BY <1>0, <1>24, <2>1 DEF Entering, Fits, Locked, Finalising
<1>22. CASE TellRunner(r)
  BY <1>0, <1>22 DEF TellRunner, Entering, Fits, Locked, Finalising
<1> QED
  BY <1>1, <1>2, <1>3, <1>4, <1>5, <1>6, <1>7, <1>8, <1>9, <1>10, <1>11, <1>12, <1>13, <1>14, <1>15, <1>16, <1>17, <1>18, <1>19, <1>20, <1>21, <1>22, <1>23, <1>24 DEF RunStep

\* The only ways of all into those steps.
LEMMA EnteringNext ==
  ASSUME TypeInv, [Next]_vars, NEW q \in Run
  PROVE  /\ pc'[q] \in Finalising => pc[q] \in Finalising \/ ClaimFinal(q)
         /\ pc'[q] = "markFinal" =>
              pc[q] = "markFinal" \/ \E r \in Run : TellRunner(r)
         /\ pc'[q] \in {"mark", "sync", "syncSave"} =>
              \/ pc[q] \in {"mark", "sync", "syncSave"}
              \/ q.job[1] = "reviewer"
              \/ StartExecutors(q) \/ StartReviewer(q) \/ WriteReview(q)
              \/ q.job[1] = "runner" /\ \E r \in Run : TellRunner(r)
<1>0. pc \in [Run -> PCs] /\ Fits(q.job[1], pc[q])
  BY DEF TypeInv, TypeOK, RoleOK
<1>1. CASE LockExpires \/ UNCHANGED vars
  BY <1>1 DEF LockExpires, vars
<1>2. CASE Request
  <2>1. pc'[q] \in {"claim", pc[q]}
    BY <1>0, <1>2 DEF Request
  <2> QED
    BY <2>1 DEF Finalising
<1>3. ASSUME NEW r \in Run, Timeout(r) \/ StepFails(r)
      PROVE  pc'[q] \in {"unwind", "failed", "markFailed", pc[q]}
  BY <1>0, <1>3 DEF Timeout, StepFails
<1>4. CASE RunStep(q)
  BY <1>4, EnteringRun DEF Entering, Finalising
<1>5. ASSUME NEW r \in Run \ {q}, RunStep(r)
      PROVE  /\ pc'[q] \in {pc[q], "claim", "mark"}
             /\ pc'[q] = "mark" =>
                  pc[q] = "mark" \/ (q.job[1] = "runner" /\ TellRunner(r))
  <2>1. \/ pc'[q] = pc[q]
        \/ pc[q] = "none" /\ pc'[q] = "claim"
        \/ pc[q] = "wait" /\ pc'[q] = "mark"
    BY <1>5, TypeRun DEF OthersStay
  <2>2. pc'[q] = "mark" => pc[q] = "mark" \/ TellRunner(r)
    BY <1>5, EnteringRun DEF Entering
  <2>3. pc[q] = "wait" => q.job[1] = "runner"
    BY <1>0 DEF Fits
  <2> QED
    BY <2>1, <2>2, <2>3
<1> QED
  BY <1>1, <1>2, <1>3, <1>4, <1>5 DEF Next, Finalising

\* The actions that change the row of a key.
LEMMA KeysFootprint ==
  ASSUME [Next]_vars
  PROVE  \/ UNCHANGED keys
         \/ \E r \in Run : \/ Claim(r) \/ MarkSuccess(r) \/ MarkFailed(r)
                           \/ ClaimFinal(r) \/ MarkFinal(r)
<1>1. CASE Request \/ LockExpires \/ UNCHANGED vars
  BY <1>1 DEF Request, LockExpires, vars, idempotency
<1>2. ASSUME NEW r \in Run, Timeout(r) \/ StepFails(r)
      PROVE  UNCHANGED keys
  BY <1>2 DEF Timeout, StepFails, idempotency
<1>3. ASSUME NEW r \in Run, RunStep(r)
      PROVE  \/ UNCHANGED keys
             \/ Claim(r) \/ MarkSuccess(r) \/ MarkFailed(r)
             \/ ClaimFinal(r) \/ MarkFinal(r)
  <2>1. CASE Look(r) \/ LookFinal(r)
    BY <2>1 DEF Look, LookFinal, LookAt, Refuse, idempotency
  <2> QED
    BY <1>3, <2>1 DEF RunStep, idempotency, StartPlanner, Register, Seed, StartExecutors,
              StartReviewer, AppendRead, AppendWrite, Count, AcquireLock,
              PersistRead, PersistWrite, TellWriter, TellRunner, Release,
              WriteReview, SyncRead, SyncWrite
<1> QED
  BY <1>1, <1>2, <1>3 DEF Next

\* A key turns SUCCEEDED only by a mark of a run that is entitled to it, and the
\* final key changes only by a claim or a mark of the final review.
LEMMA KeyChange ==
  ASSUME TypeInv, [Next]_vars
  PROVE  /\ \A k \in Key : keys'[k].status = "SUCCEEDED" =>
              \/ keys[k].status = "SUCCEEDED"
              \/ \E r \in Run : MarkSuccess(r) /\ k = r.job
              \/ \E r \in Run : MarkFinal(r) /\ k = Final
         /\ \/ keys'[Final] = keys[Final]
            \/ \E r \in Run : ClaimFinal(r) \/ MarkFinal(r)
<1>0. RedisUp \subseteq BOOLEAN /\ {"SUCCEEDED", "FAILED"} \subseteq KeyStatus /\ TypeOK
  BY OrchestratorAssumption DEF KeyStatus, TypeInv
<1>1. CASE UNCHANGED keys
  BY <1>1
<1>2. ASSUME NEW r \in Run, Claim(r)
      PROVE  /\ \A k \in Key : keys'[k].status = "SUCCEEDED" => keys[k].status = "SUCCEEDED"
             /\ keys'[Final] = keys[Final]
  <2>0. r.job \in Key /\ r.job # Final /\ Hash(r) \in Nat /\ Final \in Key
    BY JobFacts, RunFacts, OrchestratorAssumption DEF Hash
  <2>1. /\ \A j \in Key \ {r.job} : keys'[j] = keys[j]
        /\ keys' = keys \/ keys'[r.job].status = "IN_PROGRESS"
    BY <1>0, <1>2, <2>0, WriteEffect DEF Claim
  <2> QED
    BY <2>0, <2>1
<1>3. ASSUME NEW r \in Run, MarkSuccess(r)
      PROVE  /\ \A k \in Key \ {r.job} : keys'[k] = keys[k]
             /\ keys'[Final] = keys[Final]
  <2>0. r.job \in Key /\ r.job # Final /\ Final \in Key
    BY JobFacts, RunFacts
  <2>1. PICK up \in BOOLEAN : Settle(r.job, "SUCCEEDED", up)
    BY <1>0, <1>3 DEF MarkSuccess
  <2> QED
    BY <1>0, <2>0, <2>1, SettleEffect
<1>4. ASSUME NEW r \in Run, MarkFailed(r)
      PROVE  /\ \A k \in Key : keys'[k].status = "SUCCEEDED" => keys[k].status = "SUCCEEDED"
             /\ keys'[Final] = keys[Final]
  <2>0. r.job \in Key /\ r.job # Final /\ Final \in Key
    BY JobFacts, RunFacts
  <2>1. PICK up \in BOOLEAN : Settle(r.job, "FAILED", up)
    BY <1>0, <1>4 DEF MarkFailed
  <2> QED
    BY <1>0, <2>0, <2>1, SettleEffect
<1>5. ASSUME NEW r \in Run, ClaimFinal(r)
      PROVE  \A k \in Key : keys'[k].status = "SUCCEEDED" => keys[k].status = "SUCCEEDED"
  <2>0. Final \in Key /\ count[r] \in Nat
    BY JobFacts DEF TypeInv, TypeOK
  <2>1. /\ \A j \in Key \ {Final} : keys'[j] = keys[j]
        /\ keys' = keys \/ keys'[Final].status = "IN_PROGRESS"
    BY <1>0, <1>5, <2>0, WriteEffect DEF ClaimFinal
  <2> QED
    BY <2>0, <2>1
<1>6. ASSUME NEW r \in Run, MarkFinal(r)
      PROVE  \A k \in Key \ {Final} : keys'[k] = keys[k]
  <2>1. PICK up \in BOOLEAN : Settle(Final, "SUCCEEDED", up)
    BY <1>0, <1>6 DEF MarkFinal
  <2> QED
    BY <1>0, <2>1, JobFacts, SettleEffect
<1> QED
  BY <1>1, <1>2, <1>3, <1>4, <1>5, <1>6, KeysFootprint
-----------------------------------------------------------------------------
\* Keys that stand for work.

\* Work that is done stays done.
LEMMA WorkGrows ==
  ASSUME TypeInv, [Next]_vars, NEW j \in Job, WorkDone(j)
  PROVE  WorkDone(j)'
<1>1. reviews # <<>> => reviews' # <<>>
  <2>1. ASSUME NEW r \in Run, TellRunner(r) PROVE reviews' # <<>>
    BY <2>1 DEF TellRunner, TypeInv, TypeOK
  <2> QED
    BY <2>1, Footprint
<1>2. memory > 0 => memory' > 0
  BY Footprint DEF WriteReview, TypeInv, TypeOK
<1>3. \A k \in Job : IsSent(k) => IsSent(k)'
  BY SentGrows
<1> QED
  BY <1>1, <1>2, <1>3, JobFacts DEF WorkDone

\* A run reaches the mark of its key only after its work.
LEMMA MarkNext ==
  ASSUME TypeInv, MarkOK, [Next]_vars
  PROVE  MarkOK'
<1> SUFFICES ASSUME NEW q \in Run
             PROVE  /\ pc'[q] \in {"mark", "sync", "syncSave"} => WorkDone(q.job)'
                    /\ pc'[q] = "markFinal" => reviews' # <<>>
  BY DEF MarkOK
<1>0. q.job \in Job /\ lost \in Nat /\ memory \in Nat
  BY RunFacts DEF TypeInv, TypeOK
<1>1. ASSUME NEW r \in Run, TellRunner(r) PROVE reviews' # <<>>
  BY <1>1 DEF TellRunner, TypeInv, TypeOK
<1>2. pc'[q] = "markFinal" => reviews' # <<>>
  <2>1. reviews # <<>> => reviews' # <<>>
    BY <1>1, Footprint
  <2> QED
    BY <1>1, <2>1, EnteringNext DEF MarkOK
<1>3. CASE pc[q] \in {"mark", "sync", "syncSave"}
  BY <1>0, <1>2, <1>3, WorkGrows DEF MarkOK
<1>4. CASE q.job[1] = "reviewer"
  BY <1>2, <1>4 DEF WorkDone
<1>5. CASE q.job[1] = "runner" /\ \E r \in Run : TellRunner(r)
  BY <1>1, <1>2, <1>5 DEF WorkDone
<1>6. CASE StartExecutors(q)
  <2>1. q.job = ThePlanner /\ EmitStep(q, "emit", {Executor(t) : t \in Task}, "mark")
    BY <1>6 DEF StartExecutors
  <2>2. /\ {Executor(t) : t \in Task} \subseteq Job /\ q.job[1] = "planner"
        /\ Fits(q.job[1], "mark") /\ "emit" \in PCs /\ "mark" \in PCs
    BY <2>1, JobFacts DEF Fits, Locked, Finalising, PCs
  <2>3. \A j \in {Executor(t) : t \in Task} : IsSent(j)'
    BY <2>1, <2>2, EmitType
  <2> QED
    BY <1>2, <2>2, <2>3 DEF WorkDone
<1>7. CASE StartReviewer(q)
  <2>1. q.job[1] = "executor" /\ EmitStep(q, "emit", {Reviewer(q.job[2])}, "mark")
    BY <1>7 DEF StartReviewer
  <2>2. /\ {Reviewer(q.job[2])} \subseteq Job
        /\ Fits(q.job[1], "mark") /\ "emit" \in PCs /\ "mark" \in PCs
    BY <1>0, <2>1, JobFacts DEF Fits, Locked, Finalising, PCs
  <2>3. IsSent(Reviewer(q.job[2]))'
    BY <2>1, <2>2, EmitType
  <2> QED
    BY <1>2, <2>1, <2>3 DEF WorkDone
<1>8. CASE WriteReview(q)
  <2>1. q.job[1] = "writer" /\ memory' > 0
    BY <1>0, <1>8, JobFacts DEF WriteReview
  <2> QED
    BY <1>2, <2>1 DEF WorkDone
<1> QED
  BY <1>2, <1>3, <1>4, <1>5, <1>6, <1>7, <1>8, EnteringNext

\* So does whoever marks a key.
LEMMA KeyNext ==
  ASSUME TypeInv, MarkOK, KeyOK, [Next]_vars
  PROVE  KeyOK'
<1>1. ASSUME NEW j \in Job, keys'[j].status = "SUCCEEDED"
      PROVE  WorkDone(j)'
  <2>0. j \in Key /\ j # Final
    BY JobFacts
  <2>1. CASE keys[j].status = "SUCCEEDED"
    BY <2>1, WorkGrows DEF KeyOK
  <2>2. ASSUME NEW r \in Run, MarkSuccess(r), j = r.job
        PROVE  WorkDone(j)
    <3>1. CASE pc[r] = "mark"
      BY <2>2, <3>1 DEF MarkOK
    <3>2. CASE pc[r] = "markLocked"
      BY <2>2, <3>2 DEF TypeInv, RoleOK, Fits, Locked, WorkDone
    <3> QED
      BY <2>2, <3>1, <3>2 DEF MarkSuccess, Step
  <2> QED
    BY <1>1, <2>0, <2>1, <2>2, KeyChange, WorkGrows
<1>2. keys'[Final].status = "SUCCEEDED" => reviews' # <<>>
  <2>1. reviews # <<>> => reviews' # <<>>
    <3>1. ASSUME NEW r \in Run, TellRunner(r) PROVE reviews' # <<>>
      BY <3>1 DEF TellRunner, TypeInv, TypeOK
    <3> QED
      BY <3>1, Footprint
  <2>2. ASSUME NEW r \in Run, MarkFinal(r) PROVE reviews # <<>>
    BY <2>2 DEF MarkFinal, Step, MarkOK
  <2>3. \A r \in Run : r.job # Final
    BY JobFacts, RunFacts
  <2> QED
    BY <2>1, <2>2, <2>3, KeyChange, JobFacts DEF KeyOK
<1> QED
  BY <1>1, <1>2 DEF KeyOK

\* A key that is marked as SUCCEEDED, for which later claims are refused, stands
\* for work that was done.
THEOREM SuccessMeansWorkHolds == Spec => []SuccessMeansWork
<1> DEFINE Inv == TypeInv /\ MarkOK /\ KeyOK
<1>1. Init => Inv
  BY TypeInit, JobFacts DEF Init, MarkOK, KeyOK, NoEntry
<1>2. Inv /\ [Next]_vars => Inv'
  BY TypeNext, MarkNext, KeyNext
<1>3. Inv => SuccessMeansWork
  BY JobFacts DEF KeyOK, WorkDone, SuccessMeansWork
<1> QED
  BY <1>1, <1>2, <1>3, PTL DEF Spec
-----------------------------------------------------------------------------
\* How runs move.

\* Steps of a run that has not got its key, that has not started others, that
\* has not counted its task, that claims the final key, and that reviews the
\* workflow.
Idle      == {"none", "claim", "insert", "update", "refused"}
Early     == Idle \cup {"seed", "emit", "write"}
Uncounted == {"none", "claim", "insert", "update", "append", "add", "count"}
Claiming  == {"claimFinal", "insertFinal", "updateFinal"}
Reviewing == {"persist", "save", "tellWriter"}

Begun(r) == pc[r] \notin Idle

\* The moves into those steps.
Passing(r) ==
  /\ pc'[r] \in Early => pc[r] \in Early
  /\ pc'[r] \notin Idle => pc[r] \notin Idle \/ pc[r] \in {"claim", "insert", "update"}
  /\ pc'[r] \in Uncounted => pc[r] \in Uncounted
  /\ pc'[r] = "count" => pc[r] = "count" \/ AppendWrite(r)
  /\ pc'[r] = "lock" => pc[r] = "lock" \/ Count(r)
  /\ pc'[r] \in Claiming => pc[r] \in Claiming \cup {"lock"}
  /\ pc'[r] = "update" => pc[r] = "update" \/ Look(r)
  /\ pc'[r] = "updateFinal" => pc[r] = "updateFinal" \/ LookFinal(r)
  /\ pc'[r] \in Locked \ {"release"} => pc[r] \in Locked \ {"release"} \/ AcquireLock(r)
  /\ pc'[r] \in Reviewing => pc[r] \in Reviewing \/ ClaimFinal(r)
  /\ pc'[r] = "tellRunner" => pc[r] = "tellRunner" \/ TellWriter(r)

\* Every step of a run enters them in one of these ways.
LEMMA PassingRun ==
  ASSUME TypeInv, NEW r \in Run, RunStep(r)
  PROVE  /\ Passing(r) /\ pc[r] # "none"
         /\ pc'[r] = "markFailed" => pc[r] \in {"append", "unwind", "markFailed"}
<1>0. lost \in Nat /\ pc \in [Run -> PCs] /\ Fits(r.job[1], pc[r])
  BY DEF TypeInv, TypeOK, RoleOK
<1> DEFINE Goes(S) == \E to \in S : pc' = [pc EXCEPT ![r] = to]
<1>1. CASE Claim(r)
  <2>0. FirstStep(r.job[1]) \in {"emit", "seed", "append", "write"}
    BY JobFacts, RunFacts DEF FirstStep
  <2>3. Hash(r) \in Nat /\ TypeOK /\ r.job \in Key
    BY JobFacts, RunFacts, OrchestratorAssumption DEF Hash, TypeInv
  <2>1. pc[r] \in {"insert", "update"} /\ Goes({"claim", "emit", "seed", "append", "write"})
    BY <1>1, <2>0, <2>3, WriteEffect DEF Claim
  <2> QED
    BY <1>0, <1>1, <2>1 DEF Passing, Idle, Early, Uncounted, Claiming, Reviewing,
                               Locked, Finalising
<1>2. CASE MarkSuccess(r)
  <2>1. \/ pc[r] = "mark" /\ Goes({"mark", "done"})
        \/ pc[r] = "markLocked" /\ Goes({"markLocked", "release"})
    BY <1>0, <1>2, GotoEffect DEF MarkSuccess, Step
  <2> QED
    BY <1>0, <1>2, <2>1 DEF Passing, Idle, Early, Uncounted, Claiming, Reviewing,
                               Locked, Finalising
<1>3. CASE MarkFailed(r)
  <2>1. pc[r] \in {"markFailed"} /\ Goes({"markFailed", "failed"})
    BY <1>0, <1>3, GotoEffect DEF MarkFailed, Step
  <2> QED
    BY <1>0, <1>3, <2>1 DEF Passing, Idle, Early, Uncounted, Claiming, Reviewing,
                               Locked, Finalising
<1>4. CASE Seed(r)
  <2>1. pc[r] \in {"seed"} /\ Goes({"seed", "emit"})
    BY <1>0, <1>4, GotoEffect DEF Seed, Step
  <2> QED
    BY <1>0, <1>4, <2>1 DEF Passing, Idle, Early, Uncounted, Claiming, Reviewing,
                               Locked, Finalising
<1>5. CASE AppendRead(r)
  <2>1. pc[r] \in {"append"} /\ Goes({"append", "add", "markFailed"})
    BY <1>0, <1>5, GotoEffect DEF AppendRead, Step
  <2> QED
    BY <1>0, <1>5, <2>1 DEF Passing, Idle, Early, Uncounted, Claiming, Reviewing,
                               Locked, Finalising
<1>6. CASE AppendWrite(r)
  <2>1. pc[r] \in {"add"} /\ Goes({"append", "count"})
    BY <1>0, <1>6, GotoEffect DEF AppendWrite, Step
  <2> QED
    BY <1>0, <1>6, <2>1 DEF Passing, Idle, Early, Uncounted, Claiming, Reviewing,
                               Locked, Finalising
<1>7. CASE Count(r)
  <2>1. pc[r] \in {"count"} /\ Goes({"count", "mark", "lock"})
    BY <1>0, <1>7, GotoEffect DEF Count, Step
  <2> QED
    BY <1>0, <1>7, <2>1 DEF Passing, Idle, Early, Uncounted, Claiming, Reviewing,
                               Locked, Finalising
<1>8. CASE AcquireLock(r)
  <2>1. pc[r] \in {"lock"} /\ Goes({"lock", "claimFinal", "mark"})
    BY <1>0, <1>8, GotoEffect DEF AcquireLock, Step
  <2> QED
    BY <1>0, <1>8, <2>1 DEF Passing, Idle, Early, Uncounted, Claiming, Reviewing,
                               Locked, Finalising
<1>9. CASE ClaimFinal(r)
  <2>0. count[r] \in Nat /\ TypeOK /\ Final \in Key
    BY JobFacts DEF TypeInv, TypeOK
  <2>1. pc[r] \in {"insertFinal", "updateFinal"} /\ Goes({"claimFinal", "persist"})
    BY <1>9, <2>0, WriteEffect DEF ClaimFinal
  <2> QED
    BY <1>0, <1>9, <2>1 DEF Passing, Idle, Early, Uncounted, Claiming, Reviewing,
                               Locked, Finalising
<1>10. CASE PersistRead(r)
  <2>1. pc[r] \in {"persist"} /\ Goes({"persist", "save", "tellWriter"})
    BY <1>0, <1>10, GotoEffect DEF PersistRead, Step
  <2> QED
    BY <1>0, <1>10, <2>1 DEF Passing, Idle, Early, Uncounted, Claiming, Reviewing,
                               Locked, Finalising
<1>11. CASE PersistWrite(r)
  <2>1. pc[r] \in {"save"} /\ Goes({"persist", "tellWriter"})
    BY <1>0, <1>11, GotoEffect DEF PersistWrite, Step
  <2> QED
    BY <1>0, <1>11, <2>1 DEF Passing, Idle, Early, Uncounted, Claiming, Reviewing,
                               Locked, Finalising
<1>12. CASE MarkFinal(r)
  <2>1. pc[r] \in {"markFinal"} /\ Goes({"markFinal", "markLocked"})
    BY <1>0, <1>12, GotoEffect DEF MarkFinal, Step
  <2> QED
    BY <1>0, <1>12, <2>1 DEF Passing, Idle, Early, Uncounted, Claiming, Reviewing,
                               Locked, Finalising
<1>13. CASE Release(r)
  <2>1. \/ pc[r] = "release" /\ Goes({"release", "done"})
        \/ pc[r] = "unwind" /\ Goes({"unwind", "markFailed"})
    BY <1>0, <1>13, GotoEffect DEF Release, Step
  <2> QED
    BY <1>0, <2>1 DEF Passing, Idle, Early, Uncounted, Claiming, Reviewing,
                               Locked, Finalising
<1>14. CASE WriteReview(r)
  <2>1. pc[r] \in {"write"} /\ Goes({"write", "sync"})
    BY <1>0, <1>14, GotoEffect DEF WriteReview, Step
  <2> QED
    BY <1>0, <1>14, <2>1 DEF Passing, Idle, Early, Uncounted, Claiming, Reviewing,
                               Locked, Finalising
<1>15. CASE SyncRead(r)
  <2>1. pc[r] \in {"sync"} /\ Goes({"sync", "syncSave", "mark"})
    BY <1>0, <1>15, GotoEffect DEF SyncRead, Step
  <2> QED
    BY <1>0, <1>15, <2>1 DEF Passing, Idle, Early, Uncounted, Claiming, Reviewing,
                               Locked, Finalising
<1>16. CASE SyncWrite(r)
  <2>1. pc[r] \in {"syncSave"} /\ Goes({"sync", "mark"})
    BY <1>0, <1>16, GotoEffect DEF SyncWrite, Step
  <2> QED
    BY <1>0, <1>16, <2>1 DEF Passing, Idle, Early, Uncounted, Claiming, Reviewing,
                               Locked, Finalising
<1>17. CASE Register(r)
  BY <1>0, <1>17 DEF Register, Passing, Idle, Early, Uncounted, Claiming,
                         Reviewing, Locked, Finalising
<1>18. CASE StartPlanner(r)
  <2>1. PICK to \in {"emit", "register"} :
           /\ pc'[r] = to
           /\ \A q \in Run \ {r} : pc'[q] \in {"claim", pc[q]}
    BY <1>0, <1>18, EmitEffect DEF StartPlanner
  <2>2. pc[r] = "emit"
    BY <1>18 DEF StartPlanner, EmitStep
  <2> QED
    BY <1>0, <1>18, <2>1, <2>2 DEF Passing, Idle, Early, Uncounted, Claiming, Reviewing,
                               Locked, Finalising
<1>19. CASE StartExecutors(r)
  <2>1. PICK to \in {"emit", "mark"} :
           /\ pc'[r] = to
           /\ \A q \in Run \ {r} : pc'[q] \in {"claim", pc[q]}
    BY <1>0, <1>19, EmitEffect DEF StartExecutors
  <2>2. pc[r] = "emit"
    BY <1>19 DEF StartExecutors, EmitStep
  <2> QED
    BY <1>0, <1>19, <2>1, <2>2 DEF Passing, Idle, Early, Uncounted, Claiming, Reviewing,
                               Locked, Finalising
<1>20. CASE StartReviewer(r)
  <2>1. PICK to \in {"emit", "mark"} :
           /\ pc'[r] = to
           /\ \A q \in Run \ {r} : pc'[q] \in {"claim", pc[q]}
    BY <1>0, <1>20, EmitEffect DEF StartReviewer
  <2>2. pc[r] = "emit"
    BY <1>20 DEF StartReviewer, EmitStep
  <2> QED
    BY <1>0, <1>20, <2>1, <2>2 DEF Passing, Idle, Early, Uncounted, Claiming, Reviewing,
                               Locked, Finalising
<1>21. CASE TellWriter(r)
  <2>1. PICK to \in {"tellWriter", "tellRunner"} :
           /\ pc'[r] = to
           /\ \A q \in Run \ {r} : pc'[q] \in {"claim", pc[q]}
    BY <1>0, <1>21, EmitEffect DEF TellWriter
  <2>2. pc[r] = "tellWriter"
    BY <1>21 DEF TellWriter, EmitStep
  <2> QED
    BY <1>0, <1>21, <2>1, <2>2 DEF Passing, Idle, Early, Uncounted, Claiming, Reviewing,
                               Locked, Finalising
<1>23. CASE Look(r)
  <2>0. TypeOK /\ r.job \in Key
    BY JobFacts, RunFacts DEF TypeInv
  <2>1. pc[r] \in {"claim"} /\ Goes({"refused", "insert", "update", "claim"})
    BY <1>23, <2>0, LookEffect DEF Look
  <2> QED
    BY <1>0, <1>23, <2>1 DEF Passing, Idle, Early, Uncounted, Claiming, Reviewing,
                               Locked, Finalising
<1>24. CASE LookFinal(r)
  <2>0. TypeOK /\ Final \in Key
    BY JobFacts DEF TypeInv
  <2>1. /\ pc[r] \in {"claimFinal"}
        /\ Goes({"markLocked", "insertFinal", "updateFinal", "claimFinal"})
    BY <1>24, <2>0, LookEffect DEF LookFinal
  <2> QED
    BY <1>0, <1>24, <2>1 DEF Passing, Idle, Early, Uncounted, Claiming, Reviewing,
                               Locked, Finalising
<1>22. CASE TellRunner(r)
  BY <1>0, <1>22 DEF TellRunner, Passing, Idle, Early, Uncounted, Claiming,
                         Reviewing, Locked, Finalising
<1> QED
  BY <1>1, <1>2, <1>3, <1>4, <1>5, <1>6, <1>7, <1>8, <1>9, <1>10, <1>11, <1>12, <1>13, <1>14, <1>15, <1>16, <1>17, <1>18, <1>19, <1>20, <1>21, <1>22, <1>23, <1>24 DEF RunStep


\* The only ways of all into them; a run moves by an action of its own, or is
\* started, or answered.
LEMMA PassingNext ==
  ASSUME TypeInv, [Next]_vars, NEW q \in Run
  PROVE  /\ Passing(q)
         /\ MaxFails = 0 /\ pc'[q] = "markFailed" =>
              pc[q] \in {"append", "unwind", "markFailed"}
         /\ \/ pc'[q] = pc[q]
            \/ pc[q] = "none" /\ pc'[q] = "claim"
            \/ pc[q] = "wait" /\ pc'[q] = "mark"
            \/ RunStep(q) \/ Timeout(q) \/ StepFails(q)
<1>0. pc \in [Run -> PCs] /\ fails \in Nat /\ MaxFails \in Nat
  BY OrchestratorAssumption DEF TypeInv, TypeOK
<1> DEFINE Other == \/ pc'[q] = pc[q]
                    \/ pc[q] = "none" /\ pc'[q] = "claim"
                    \/ pc[q] = "wait" /\ pc'[q] = "mark"
<1>1. CASE Other
  <2>1. Passing(q)
    BY <1>1 DEF Passing, Idle, Early, Uncounted, Claiming, Reviewing,
                               Locked, Finalising
  <2> QED
    BY <1>1, <2>1
<1>2. CASE LockExpires \/ UNCHANGED vars
  BY <1>1, <1>2 DEF LockExpires, vars
<1>3. CASE Request
  <2>1. PICK c \in 1..Requests :
           /\ pc[[job |-> TheRunner, copy |-> c]] = "none"
           /\ pc' = [pc EXCEPT ![[job |-> TheRunner, copy |-> c]] = "claim"]
    BY <1>3 DEF Request, IsNext, Sent
  <2> QED
    BY <1>0, <1>1, <2>1
<1>4. CASE RunStep(q)
  BY <1>4, PassingRun
<1>5. CASE Timeout(q) \/ StepFails(q)
  <2>1. /\ pc'[q] \in {"unwind", "failed", "markFailed"}
        /\ pc[q] \notin {"none", "refused"}
        /\ MaxFails # 0
    BY <1>0, <1>5 DEF Timeout, StepFails, Ended
  <2> QED
    BY <1>5, <2>1 DEF Passing, Idle, Early, Uncounted, Claiming, Reviewing,
                               Locked, Finalising
<1>6. ASSUME NEW r \in Run \ {q}, RunStep(r)
      PROVE  Other
  BY <1>6, TypeRun DEF OthersStay
<1>7. ASSUME NEW r \in Run \ {q}, Timeout(r) \/ StepFails(r)
      PROVE  Other
  BY <1>0, <1>7 DEF Timeout, StepFails
<1> QED
  BY <1>1, <1>2, <1>3, <1>4, <1>5, <1>6, <1>7 DEF Next

\* The actions that change the review lock.
LEMMA LockFootprint ==
  ASSUME [Next]_vars
  PROVE  \/ UNCHANGED <<lock, expired>> \/ LockExpires
         \/ \E r \in Run : AcquireLock(r) \/ Release(r)
<1>1. CASE Request \/ UNCHANGED vars
  BY <1>1 DEF Request, vars, redis
<1>2. ASSUME NEW r \in Run, Timeout(r) \/ StepFails(r)
      PROVE  UNCHANGED <<lock, expired>>
  BY <1>2 DEF Timeout, StepFails, redis
<1>3. ASSUME NEW r \in Run, RunStep(r)
      PROVE  UNCHANGED <<lock, expired>> \/ AcquireLock(r) \/ Release(r)
  BY <1>3 DEF RunStep, redis, Look, Claim, MarkSuccess, MarkFailed, StartPlanner,
              Register, Seed, StartExecutors, StartReviewer, AppendRead, AppendWrite,
              Count, LookFinal, ClaimFinal, PersistRead, PersistWrite, TellWriter,
              TellRunner, MarkFinal, WriteReview, SyncRead, SyncWrite
<1> QED
  BY <1>1, <1>2, <1>3 DEF Next

-----------------------------------------------------------------------------
\* The final claim.

\* A claim of the final key that finds no row is an insert, and alone.
LEMMA FinalInsert ==
  ASSUME TypeInv, NEW r \in Run, ClaimFinal(r), pc[r] # "updateFinal"
  PROVE  /\ \A q \in Run \ {r} : pc'[q] = pc[q]
         /\ \/ keys' = keys /\ pc'[r] = "claimFinal"
            \/ /\ IsNew(Final) /\ pc'[r] \in {"persist", "claimFinal"}
               /\ keys'[Final].status = "IN_PROGRESS"
               /\ keys'[Final].hash = count[r]
<1>0. Final \in Key /\ count[r] \in Nat /\ TypeOK /\ pc \in [Run -> PCs]
  BY JobFacts DEF TypeInv, TypeOK
<1>1. pc[r] = "insertFinal"
  BY DEF ClaimFinal
<1>2. WriteClaim(r, Final, count[r], "insertFinal", "persist", "claimFinal")
  BY DEF ClaimFinal
<1>3. \/ keys' = keys /\ pc' = [pc EXCEPT ![r] = "claimFinal"]
      \/ /\ IsNew(Final)
         /\ keys'[Final].status = "IN_PROGRESS" /\ keys'[Final].hash = count[r]
  BY <1>0, <1>1, <1>2, WriteEffect
<1>4. PICK to \in {"persist", "claimFinal"} : pc' = [pc EXCEPT ![r] = to]
  BY <1>0, <1>2, WriteEffect
<1> QED
  BY <1>0, <1>3, <1>4

\* A run gets to an update of a key when it sees a row that does not block it.
LEMMA UpdateSeen ==
  ASSUME TypeInv, [Next]_vars, NEW q \in Run
  PROVE  /\ pc'[q] = "update" /\ pc[q] # "update" =>
              /\ pc[q] = "claim" /\ keys' = keys
              /\ ~IsNew(q.job) /\ ~Blocks(keys[q.job], Hash(q))
         /\ pc'[q] = "updateFinal" /\ pc[q] # "updateFinal" =>
              /\ pc[q] = "claimFinal" /\ keys' = keys
              /\ ~IsNew(Final) /\ ~Blocks(keys[Final], count[q])
<1>0. pc \in [Run -> PCs] /\ TypeOK /\ Final \in Key /\ q.job \in Key
  BY JobFacts, RunFacts DEF TypeInv, TypeOK
<1>1. ASSUME pc'[q] = "update", pc[q] # "update"
      PROVE  /\ pc[q] = "claim" /\ keys' = keys
             /\ ~IsNew(q.job) /\ ~Blocks(keys[q.job], Hash(q))
  <2>1. Look(q)
    BY <1>1, PassingNext DEF Passing
  <2>2. /\ pc[q] = "claim"
        /\ LookAt(q, q.job, Hash(q), "refused", "insert", "update")
    BY <2>1 DEF Look
  <2>3. PICK to \in {"refused", "insert", "update", "claim"} :
          /\ keys' = keys
          /\ pc' = [pc EXCEPT ![q] = to]
          /\ to \notin {"refused", "claim"} =>
               /\ ~Blocks(keys[q.job], Hash(q))
               /\ to = IF IsNew(q.job) THEN "insert" ELSE "update"
    BY <1>0, <2>2, LookEffect
  <2> QED
    BY <1>0, <1>1, <2>2, <2>3
<1>2. ASSUME pc'[q] = "updateFinal", pc[q] # "updateFinal"
      PROVE  /\ pc[q] = "claimFinal" /\ keys' = keys
             /\ ~IsNew(Final) /\ ~Blocks(keys[Final], count[q])
  <2>1. LookFinal(q)
    BY <1>2, PassingNext DEF Passing
  <2>2. /\ pc[q] = "claimFinal"
        /\ LookAt(q, Final, count[q], "markLocked", "insertFinal", "updateFinal")
    BY <2>1 DEF LookFinal
  <2>3. PICK to \in {"markLocked", "insertFinal", "updateFinal", "claimFinal"} :
          /\ keys' = keys
          /\ pc' = [pc EXCEPT ![q] = to]
          /\ to \notin {"markLocked", "claimFinal"} =>
               /\ ~Blocks(keys[Final], count[q])
               /\ to = IF IsNew(Final) THEN "insertFinal" ELSE "updateFinal"
    BY <1>0, <2>2, LookEffect
  <2> QED
    BY <1>0, <1>2, <2>2, <2>3
<1> QED
  BY <1>1, <1>2

\* Until a review is published, one run at most gets past the insert.
LEMMA UnpublishedNext ==
  ASSUME TypeInv, MarkOK, UnpublishedOK, [Next]_vars
  PROVE  UnpublishedOK'
<1>a. reviews # <<>> => reviews' # <<>>
  <2>1. ASSUME NEW r \in Run, TellRunner(r) PROVE reviews' # <<>>
    BY <2>1 DEF TellRunner, TypeInv, TypeOK
  <2> QED
    BY <2>1, Footprint
<1> SUFFICES ASSUME reviews' = <<>> PROVE UnpublishedOK'
  BY DEF UnpublishedOK
<1>0. Final \in Key /\ \A q \in Run : q.job # Final
  BY JobFacts, RunFacts
<1>1. reviews = <<>>
  BY <1>a
<1>2. /\ keys[Final].status \in {"NONE", "IN_PROGRESS"}
      /\ \A q \in Run : /\ pc[q] # "updateFinal"
                        /\ pc[q] \in Finalising => keys[Final].status # "NONE"
      /\ \A q, p \in Run : pc[q] \in Finalising /\ pc[p] \in Finalising => q = p
  BY <1>1 DEF UnpublishedOK
<1>3. \A q \in Run : pc'[q] \in Finalising => pc[q] \in Finalising \/ ClaimFinal(q)
  BY EnteringNext
<1>4. \A r \in Run : ~MarkFinal(r)
  BY <1>1 DEF MarkFinal, Step, MarkOK
<1>5. ASSUME NEW q \in Run PROVE pc'[q] # "updateFinal"
  <2>1. ASSUME pc'[q] = "updateFinal" PROVE FALSE
    <3>1. ~IsNew(Final) /\ ~Blocks(keys[Final], count[q])
      BY <1>2, <2>1, UpdateSeen
    <3> QED
      BY <1>2, <3>1 DEF IsNew, Blocks
  <2> QED
    BY <2>1
<1>6. CASE ~\E r \in Run : ClaimFinal(r)
  <2>1. keys'[Final] = keys[Final]
    BY <1>4, <1>6, KeyChange
  <2>2. \A q \in Run : pc'[q] \in Finalising => pc[q] \in Finalising
    BY <1>3, <1>6
  <2> QED
    BY <1>2, <1>5, <2>1, <2>2 DEF UnpublishedOK
<1>7. ASSUME NEW r \in Run, ClaimFinal(r) PROVE UnpublishedOK'
  <2>1. /\ \A q \in Run \ {r} : pc'[q] = pc[q]
        /\ \/ keys' = keys /\ pc'[r] = "claimFinal"
           \/ IsNew(Final) /\ keys'[Final].status = "IN_PROGRESS"
    BY <1>2, <1>7, FinalInsert
  <2>2. CASE keys' = keys /\ pc'[r] = "claimFinal"
    <3>1. "claimFinal" \notin Finalising
      BY DEF Finalising
    <3> QED
      BY <1>2, <1>5, <2>1, <2>2, <3>1 DEF UnpublishedOK
  <2>3. CASE IsNew(Final) /\ keys'[Final].status = "IN_PROGRESS"
    <3>1. \A q \in Run \ {r} : pc'[q] \notin Finalising
      BY <1>2, <2>1, <2>3 DEF IsNew
    <3> QED
      BY <1>5, <2>3, <3>1 DEF UnpublishedOK
  <2> QED
    BY <2>1, <2>2, <2>3
<1> QED
  BY <1>6, <1>7

\* A run loses the review lock only when it runs out.
LEMMA LockNext ==
  ASSUME TypeInv, LockOK, [Next]_vars
  PROVE  LockOK'
<1> SUFFICES ASSUME NEW q \in Run, pc'[q] \in Locked \ {"release"}
             PROVE  lock' = q \/ q \in expired'
  BY DEF LockOK
<1>0. pc \in [Run -> PCs] /\ lost \in Nat
  BY DEF TypeInv, TypeOK
<1>1. CASE AcquireLock(q)
  <2>1. PICK up \in RedisUp :
          \/ Step(q, "lock", "claimFinal") /\ lock' = q
          \/ Step(q, "lock", "mark")
    BY <1>1 DEF AcquireLock
  <2>2. CASE Step(q, "lock", "mark")
    <3>1. pc'[q] \in {"lock", "mark"}
      BY <1>0, <2>2, GotoEffect DEF Step
    <3> QED
      BY <3>1 DEF Locked, Finalising
  <2> QED
    BY <2>1, <2>2
<1>2. CASE ~AcquireLock(q)
  <2>1. lock = q \/ q \in expired
    <3>1. pc[q] \in Locked \ {"release"}
      BY <1>2, PassingNext DEF Passing
    <3> QED
      BY <3>1 DEF LockOK
  <2>2. CASE LockExpires
    BY <2>1, <2>2 DEF LockExpires
  <2>3. ASSUME NEW r \in Run, AcquireLock(r) PROVE lock' = q \/ q \in expired'
    <3>1. expired' = expired /\ (lock' = lock \/ lock = NoRun)
      BY <2>3 DEF AcquireLock
    <3> QED
      BY <2>1, <3>1, NoRunAssumption
  <2>4. ASSUME NEW r \in Run, Release(r) PROVE lock' = q \/ q \in expired'
    <3>1. expired' = expired /\ (lock' = lock \/ lock = r)
      BY <2>4 DEF Release
    <3>2. r # q
      <4>1. pc'[r] \in {"release", "done", "unwind", "markFailed"}
        BY <1>0, <2>4, GotoEffect DEF Release, Step
      <4> QED
        BY <4>1 DEF Locked, Finalising
    <3> QED
      BY <2>1, <3>1, <3>2
  <2>5. CASE UNCHANGED <<lock, expired>>
    BY <2>1, <2>5
  <2> QED
    BY <2>2, <2>3, <2>4, <2>5, LockFootprint
<1> QED
  BY <1>1, <1>2

\* Two reviewers finalise the workflow side by side only after a review has been
\* published, and only if the review lock has run out under one of them.
THEOREM OneFinaliserHolds == Spec => []OneFinaliser
<1> DEFINE Inv == TypeInv /\ MarkOK /\ UnpublishedOK /\ LockOK
<1>1. Init => Inv
  <2> SUFFICES ASSUME Init PROVE Inv
    OBVIOUS
  <2>1. keys[Final].status = "NONE" /\ \A r \in Run : pc[r] = "none"
    BY JobFacts DEF Init, NoEntry
  <2> QED
    BY <2>1, TypeInit DEF MarkOK, UnpublishedOK, LockOK, Locked, Finalising
<1>2. Inv /\ [Next]_vars => Inv'
  BY TypeNext, MarkNext, UnpublishedNext, LockNext
<1>3. Inv => OneFinaliser
  BY DEF UnpublishedOK, LockOK, OneFinaliser, Locked, Finalising
<1> QED
  BY <1>1, <1>2, <1>3, PTL DEF Spec
-----------------------------------------------------------------------------
\* One request, and no result that is lost: the orchestrator implements
\* ReviewOnce.

\* No event is sent twice: the results of steps arrive, and the client sends its
\* request once, or nothing fails and no wait times out.
NoResends == Lossy = {} /\ (Requests = 1 \/ MaxFails = 0)

\* Some run of the job has started those that come after it.
Past(j) == \E r \in Run : r.job = j /\ pc[r] \notin Early

\* A key that is held for a claim with this hash, for good.
Held(k, hash) == keys[k].status \in {"IN_PROGRESS", "SUCCEEDED"} /\ keys[k].hash = hash

\* At most one run of a job gets to work.
OneBegun == \A r, q \in Run : r.job = q.job /\ Begun(r) /\ Begun(q) => r = q

\* A second request is not sent, or it is refused.
RunnerOK ==
  /\ Requests = 1 => \A r \in Run : r.job = TheRunner /\ pc[r] # "none" => r.copy = 1
  /\ MaxFails = 0 =>
       /\ IsNew(TheRunner) \/ Held(TheRunner, 1)
       /\ \A r \in Run : r.job = TheRunner =>
            /\ pc[r] # "update"
            /\ Begun(r) => pc[r] # "markFailed" /\ ~IsNew(TheRunner)

SentOnce == \A r \in Run : r.job # TheRunner /\ pc[r] # "none" => r.copy = 1

\* What is sent, or written, was sent by a run that is past it.
SentOK ==
  /\ IsSent(ThePlanner) => Past(TheRunner)
  /\ \A t \in Task : /\ IsSent(Executor(t)) => Past(ThePlanner)
                     /\ IsSent(Reviewer(t)) => Past(Executor(t))
  /\ memory > 0 => Past(TheWriter)

\* The counter counts each task at most once, and after its result is appended.
Counted ==
  {t \in Task : \E r \in Run : r.job = Reviewer(t) /\ pc[r] \notin Uncounted}

CountOK ==
  /\ counter <= Cardinality(Counted)
  /\ \A r \in Run : /\ count[r] <= Cardinality(Task)
                    /\ pc[r] = "count" => state[r] \subseteq Task

\* A reviewer that gets to the lock has counted the last task.
LastOK ==
  \A r \in Run : /\ pc[r] \in {"lock"} \cup Claiming => count[r] = Cardinality(Task)
                 /\ pc[r] \in {"lock"} \cup Claiming \cup Finalising => Executed = Task

\* A run that finalises holds the final key, and is alone.
FinalHeld == \A r \in Run : pc[r] \in Finalising => keys[Final].status = "IN_PROGRESS"
Alone     == \A r, q \in Run : pc[r] \in Finalising /\ pc[q] \in Finalising => r = q

\* The final key, once claimed, is not claimed again; before it is, nothing is
\* published and the writer is not started.
PublishOK ==
  /\ keys[Final].status # "NONE" => Held(Final, Cardinality(Task))
  /\ IsSent(TheWriter) => keys[Final].status # "NONE" /\ Executed = Task
  /\ reviews # <<>> => keys[Final].status # "NONE"
  /\ \A r \in Run : /\ pc[r] # "updateFinal"
                    /\ pc[r] \in Reviewing => ~IsSent(TheWriter)
                    /\ pc[r] \in Reviewing \cup {"tellRunner"} => reviews = <<>>

OnceInv ==
  /\ TypeInv /\ ResultsOK /\ FinalHeld /\ Alone
  /\ OneBegun /\ RunnerOK /\ SentOnce /\ SentOK
  /\ CountOK /\ LastOK /\ PublishOK

\* A run gets to work by a claim that writes its key, or fails in its claim, and
\* no other one does in that step.
LEMMA BegunBy ==
  ASSUME TypeInv, [Next]_vars, NEW q \in Run, ~Begun(q), Begun(q)'
  PROVE  /\ \/ StepFails(q)
            \/ /\ Claim(q) /\ (pc[q] = "insert" => IsNew(q.job))
               /\ keys'[q.job].status = "IN_PROGRESS"
         /\ \A p \in Run \ {q} : Begun(p)' => Begun(p)
<1>0. pc \in [Run -> PCs] /\ lost \in Nat
  BY DEF TypeInv, TypeOK
<1>1. pc[q] \in {"claim", "insert", "update"} /\ pc'[q] \notin Idle
  BY PassingNext DEF Passing, Begun
<1>2. CASE RunStep(q)
  <2>0. TypeOK /\ q.job \in Key /\ Hash(q) \in Nat
    BY JobFacts, RunFacts, OrchestratorAssumption DEF Hash, TypeInv
  <2>1. Claim(q)
    <3>1. ~Look(q)
      <4>1. ASSUME Look(q) PROVE pc'[q] \in Idle
        <5>1. \E to \in {"refused", "insert", "update", "claim"} : pc' = [pc EXCEPT ![q] = to]
          BY <2>0, <4>1, LookEffect DEF Look
        <5> QED
          BY <1>0, <5>1 DEF Idle
      <4> QED
        BY <1>1, <4>1
    <3> QED
      BY <1>1, <1>2, <3>1 DEF RunStep, MarkSuccess, MarkFailed, StartPlanner, Register, Seed,
              StartExecutors, StartReviewer, AppendRead, AppendWrite, Count,
              AcquireLock, LookFinal, ClaimFinal, PersistRead, PersistWrite, TellWriter,
              TellRunner, MarkFinal, Release, WriteReview, SyncRead, SyncWrite,
              Step, EmitStep
  <2>2. WriteClaim(q, q.job, Hash(q), "insert", FirstStep(q.job[1]), "claim")
    BY <2>1 DEF Claim
  <2>6. ~(pc' = [pc EXCEPT ![q] = "claim"])
    BY <1>0, <1>1 DEF Idle
  <2>3. /\ pc[q] = "insert" => IsNew(q.job)
        /\ keys'[q.job].status = "IN_PROGRESS"
    BY <2>0, <2>2, <2>6, WriteEffect
  <2>4. \A p \in Run \ {q} : Begun(p)' => Begun(p)
    BY <1>2, TypeRun DEF OthersStay, Begun, Idle
  <2> QED
    BY <2>1, <2>3, <2>4
<1>3. CASE StepFails(q)
  <2>1. \A p \in Run \ {q} : pc'[p] = pc[p]
    BY <1>0, <1>3 DEF StepFails
  <2>2. \A p \in Run \ {q} : Begun(p)' => Begun(p)
    BY <2>1 DEF Begun
  <2> QED
    BY <1>3, <2>2
<1>4. ~Timeout(q) /\ pc'[q] # pc[q] /\ pc'[q] # "claim" /\ pc[q] # "wait"
  BY <1>1 DEF Timeout, Idle
<1> QED
  BY <1>1, <1>2, <1>3, <1>4, PassingNext

\* The row of a key changes by a claim, or by a mark, which leaves the hash.
LEMMA RowChange ==
  ASSUME TypeInv, [Next]_vars, NEW k \in Key, keys'[k] # keys[k]
  PROVE  \/ \E r \in Run : /\ Claim(r) /\ k = r.job
                           /\ keys'[k].status = "IN_PROGRESS" /\ keys'[k].hash = Hash(r)
         \/ \E r \in Run : /\ ClaimFinal(r) /\ k = Final
                           /\ keys'[k].status = "IN_PROGRESS" /\ keys'[k].hash = count[r]
         \/ /\ keys'[k].hash = keys[k].hash
            /\ \E r \in Run : \/ /\ MarkSuccess(r) /\ k = r.job
                                 /\ keys'[k].status = "SUCCEEDED"
                              \/ /\ MarkFinal(r) /\ k = Final
                                 /\ keys'[k].status = "SUCCEEDED"
                              \/ MarkFailed(r) /\ k = r.job
<1>0. keys \in [Key -> Entry] /\ RedisUp \subseteq BOOLEAN /\ Final \in Key
  BY OrchestratorAssumption, JobFacts DEF TypeInv, TypeOK
<1>1. ASSUME NEW r \in Run, Claim(r)
      PROVE  k = r.job /\ keys'[k].status = "IN_PROGRESS" /\ keys'[k].hash = Hash(r)
  <2>0. r.job \in Key /\ Hash(r) \in Nat /\ TypeOK
    BY JobFacts, RunFacts, OrchestratorAssumption DEF Hash, TypeInv
  <2>1. /\ keys'[r.job].status = "IN_PROGRESS" /\ keys'[r.job].hash = Hash(r)
        /\ \A j \in Key \ {r.job} : keys'[j] = keys[j]
    BY <1>1, <2>0, WriteEffect DEF Claim
  <2>2. k = r.job
    BY <2>1
  <2> QED
    BY <2>1, <2>2
<1>2. ASSUME NEW r \in Run, ClaimFinal(r)
      PROVE  k = Final /\ keys'[k].status = "IN_PROGRESS" /\ keys'[k].hash = count[r]
  <2>0. count[r] \in Nat /\ TypeOK
    BY DEF TypeInv, TypeOK
  <2>1. /\ keys'[Final].status = "IN_PROGRESS" /\ keys'[Final].hash = count[r]
        /\ \A j \in Key \ {Final} : keys'[j] = keys[j]
    BY <1>0, <1>2, <2>0, WriteEffect DEF ClaimFinal
  <2>2. k = Final
    BY <2>1
  <2> QED
    BY <2>1, <2>2
<1>3. ASSUME NEW j \in Key, NEW status, NEW up \in BOOLEAN, Settle(j, status, up)
      PROVE  k = j /\ keys'[k].status = status /\ keys'[k].hash = keys[k].hash
  <2>1. keys' = [keys EXCEPT ![j].status = status]
    BY <1>3 DEF Settle
  <2> QED
    BY <1>0, <2>1 DEF Entry
<1>4. ASSUME NEW r \in Run, MarkSuccess(r)
      PROVE  k = r.job /\ keys'[k].status = "SUCCEEDED" /\ keys'[k].hash = keys[k].hash
  BY <1>0, <1>3, <1>4, JobFacts, RunFacts DEF MarkSuccess
<1>5. ASSUME NEW r \in Run, MarkFinal(r)
      PROVE  k = Final /\ keys'[k].status = "SUCCEEDED" /\ keys'[k].hash = keys[k].hash
  BY <1>0, <1>3, <1>5 DEF MarkFinal
<1>6. ASSUME NEW r \in Run, MarkFailed(r)
      PROVE  k = r.job /\ keys'[k].hash = keys[k].hash
  BY <1>0, <1>3, <1>6, JobFacts, RunFacts DEF MarkFailed
<1> QED
  BY <1>1, <1>2, <1>4, <1>5, <1>6, KeysFootprint

\* An event is sent by a request or by the function that comes before, and its
\* copy is the next one.
LEMMA StartedBy ==
  ASSUME TypeInv, [Next]_vars, NEW q \in Run, pc[q] = "none", pc'[q] # "none"
  PROVE  /\ pc'[q] = "claim" /\ IsNext(q.job, q.copy)
         /\ \/ q.job = TheRunner /\ q.copy \in 1..Requests
            \/ \E r \in Run : \/ StartPlanner(r) /\ q.job = ThePlanner
                              \/ /\ StartExecutors(r)
                                 /\ \E t \in Task : q.job = Executor(t)
                              \/ StartReviewer(r) /\ q.job = Reviewer(r.job[2])
                              \/ TellWriter(r) /\ q.job = TheWriter
<1>0. pc \in [Run -> PCs] /\ lost \in Nat
  BY DEF TypeInv, TypeOK
<1>1. pc'[q] = "claim"
  <2>1. ~RunStep(q)
    BY PassingRun
  <2>2. ~Timeout(q) /\ ~StepFails(q)
    BY DEF Timeout, StepFails
  <2> QED
    BY <2>1, <2>2, PassingNext
<1>2. ASSUME NEW r \in Run, NEW here, here # "none", NEW jobs, NEW next,
             EmitStep(r, here, jobs, next)
      PROVE  q.job \in jobs /\ IsNext(q.job, q.copy)
  <2>1. PICK c \in 1..Copies, to \in {next, here} :
           /\ \A j \in jobs : IsNext(j, c)
           /\ pc' = [p \in Run |-> IF p = r THEN to
                                   ELSE IF p.job \in jobs /\ p.copy = c
                                   THEN "claim" ELSE pc[p]]
    BY <1>2 DEF EmitStep
  <2>2. q # r
    BY <1>2 DEF EmitStep
  <2>3. q.job \in jobs /\ q.copy = c
    BY <2>1, <2>2
  <2> QED
    BY <2>1, <2>3
<1>3. CASE Request
  <2>1. PICK c \in 1..Requests :
           /\ IsNext(TheRunner, c)
           /\ pc' = [pc EXCEPT ![[job |-> TheRunner, copy |-> c]] = "claim"]
    BY <1>3 DEF Request
  <2>2. q = [job |-> TheRunner, copy |-> c]
    BY <1>0, <2>1
  <2> QED
    BY <1>1, <2>1, <2>2
<1>4. ASSUME NEW r \in Run, StartPlanner(r)
      PROVE  q.job = ThePlanner /\ IsNext(q.job, q.copy)
  BY <1>2, <1>4 DEF StartPlanner
<1>5. ASSUME NEW r \in Run, StartExecutors(r)
      PROVE  (\E t \in Task : q.job = Executor(t)) /\ IsNext(q.job, q.copy)
  <2>1. q.job \in {Executor(t) : t \in Task} /\ IsNext(q.job, q.copy)
    BY <1>2, <1>5 DEF StartExecutors
  <2> QED
    BY <2>1
<1>6. ASSUME NEW r \in Run, StartReviewer(r)
      PROVE  q.job = Reviewer(r.job[2]) /\ IsNext(q.job, q.copy)
  BY <1>2, <1>6 DEF StartReviewer
<1>7. ASSUME NEW r \in Run, TellWriter(r)
      PROVE  q.job = TheWriter /\ IsNext(q.job, q.copy)
  BY <1>2, <1>7 DEF TellWriter
<1>8. CASE LockExpires \/ UNCHANGED vars
  BY <1>8 DEF LockExpires, vars
<1>9. ASSUME NEW r \in Run, Timeout(r) \/ StepFails(r)
      PROVE  FALSE
  <2>1. pc[r] # "none" /\ \A p \in Run \ {r} : pc'[p] = pc[p]
    BY <1>0, <1>9 DEF Timeout, StepFails
  <2> QED
    BY <2>1
<1>10. ASSUME NEW r \in Run, RunStep(r)
       PROVE  StartPlanner(r) \/ StartExecutors(r) \/ StartReviewer(r) \/ TellWriter(r)
  <2>1. q # r
    BY <1>10, PassingRun
  <2>2. SUFFICES ASSUME NEW to, pc' = [pc EXCEPT ![r] = to]
                 PROVE  FALSE
    <3>1. CASE TellRunner(r)
      BY <1>1, <2>1, <3>1 DEF TellRunner
    <3>2. CASE Register(r)
      BY <3>2, <2>2 DEF Register
    <3>3. TypeOK /\ r.job \in Key /\ Final \in Key /\ Hash(r) \in Nat /\ count[r] \in Nat
      <4>1. r.job \in Key /\ Final \in Key /\ Hash(r) \in Nat
        BY JobFacts, RunFacts, OrchestratorAssumption DEF Hash
      <4> QED
        BY <4>1 DEF TypeInv, TypeOK
    <3>4. CASE Look(r) \/ LookFinal(r)
      BY <2>2, <3>3, <3>4, LookEffect DEF Look, LookFinal
    <3>5. CASE Claim(r) \/ ClaimFinal(r)
      BY <2>2, <3>3, <3>5, WriteEffect DEF Claim, ClaimFinal
    <3> QED
      BY <1>0, <1>10, <3>1, <3>2, <3>4, <3>5, <2>2, GotoEffect
         DEF RunStep, MarkSuccess, MarkFailed, Seed, AppendRead,
             AppendWrite, Count, AcquireLock, PersistRead, PersistWrite,
             MarkFinal, Release, WriteReview, SyncRead, SyncWrite, Step
  <2> QED
    BY <1>0, <2>1, <2>2
<1> QED
  BY <1>1, <1>3, <1>4, <1>5, <1>6, <1>7, <1>8, <1>9, <1>10 DEF Next
-----------------------------------------------------------------------------
\* Every job but the runner's is sent once, and one run of each gets to work.

\* Where results arrive, a step leads to the next one.
LEMMA Lossless ==
  ASSUME NoResends, NEW r \in Run, NEW next, NEW again, Goto(r, next, again)
  PROVE  pc' = [pc EXCEPT ![r] = next]
  BY DEF NoResends, Goto, Outcome

LEMMA LosslessStart ==
  ASSUME NoResends, NEW r \in Run, NEW here, NEW jobs, NEW next,
         EmitStep(r, here, jobs, next)
  PROVE  pc[r] = here /\ pc'[r] = next
<1>1. PICK c \in 1..Copies, to \in {next, here} :
         /\ Outcome(r, to, next, here)
         /\ pc' = [q \in Run |-> IF q = r THEN to
                                 ELSE IF q.job \in jobs /\ q.copy = c
                                 THEN "claim" ELSE pc[q]]
  BY DEF EmitStep
<1>2. to = next
  BY <1>1 DEF Outcome, NoResends
<1> QED
  BY <1>1, <1>2 DEF EmitStep

\* A run that is about to start others is the first of its job to do so.
LEMMA NotPast ==
  ASSUME OneBegun, NEW r \in Run, pc[r] \in {"emit", "write"}
  PROVE  ~Past(r.job)
  BY DEF OneBegun, Past, Begun, Early, Idle

\* A job that nobody was sent for gets its first copy.
LEMMA FirstCopy ==
  ASSUME NEW j \in Job, NEW c \in 1..Copies, IsNext(j, c), ~IsSent(j)
  PROVE  c = 1
<1>0. Copies \in Nat
  BY OrchestratorAssumption
<1>1. ASSUME c # 1 PROVE FALSE
  <2>1. 1 \in 1..(c - 1) /\ 1 \in 1..Copies
    BY <1>0, <1>1
  <2>2. Sent(j, 1)
    BY <2>1 DEF IsNext
  <2> QED
    BY <2>1, <2>2 DEF IsSent
<1> QED
  BY <1>1

\* A job that is sent for the first time is sent by the one that comes before.
LEMMA NewlySent ==
  ASSUME TypeInv, [Next]_vars, NEW j \in Job, j # TheRunner, ~IsSent(j), IsSent(j)'
  PROVE  \E r \in Run : \/ StartPlanner(r) /\ j = ThePlanner
                        \/ StartExecutors(r) /\ \E t \in Task : j = Executor(t)
                        \/ StartReviewer(r) /\ j = Reviewer(r.job[2])
                        \/ TellWriter(r) /\ j = TheWriter
<1>1. PICK c \in 1..Copies : pc'[[job |-> j, copy |-> c]] # "none"
  BY DEF IsSent, Sent
<1> DEFINE q == [job |-> j, copy |-> c]
<1>2. q \in Run /\ q.job = j /\ pc[q] = "none" /\ pc'[q] # "none"
  BY <1>1, RunFacts DEF IsSent, Sent
<1> HIDE DEF q
<1> QED
  BY <1>2, StartedBy

LEMMA SentOnceNext ==
  ASSUME NoResends, OnceInv, [Next]_vars
  PROVE  SentOnce'
<1> SUFFICES ASSUME NEW q \in Run, q.job # TheRunner, pc'[q] # "none"
             PROVE  q.copy = 1
  BY DEF SentOnce
<1>0. TypeInv /\ OneBegun /\ SentOnce /\ SentOK /\ PublishOK
  BY DEF OnceInv
<1>1. CASE pc[q] # "none"
  BY <1>0, <1>1 DEF SentOnce
<1>2. CASE pc[q] = "none"
  <2>1. IsNext(q.job, q.copy) /\ q.job \in Job /\ q.copy \in 1..Copies
    BY <1>0, <1>2, StartedBy, RunFacts
  <2>2. ASSUME NEW r \in Run, StartPlanner(r), q.job = ThePlanner
        PROVE  ~IsSent(q.job)
    <3>1. pc[r] = "emit" /\ r.job = TheRunner
      BY <2>2 DEF StartPlanner, EmitStep
    <3> QED
      BY <1>0, <2>2, <3>1, NotPast DEF SentOK
  <2>3. ASSUME NEW r \in Run, StartExecutors(r), NEW t \in Task, q.job = Executor(t)
        PROVE  ~IsSent(q.job)
    <3>1. pc[r] = "emit" /\ r.job = ThePlanner
      BY <2>3 DEF StartExecutors, EmitStep
    <3> QED
      BY <1>0, <2>3, <3>1, NotPast DEF SentOK
  <2>4. ASSUME NEW r \in Run, StartReviewer(r), q.job = Reviewer(r.job[2])
        PROVE  ~IsSent(q.job)
    <3>1. pc[r] = "emit" /\ r.job[1] = "executor"
      BY <2>4 DEF StartReviewer, EmitStep
    <3>2. r.job[2] \in Task /\ r.job = Executor(r.job[2])
      BY <3>1, JobFacts, RunFacts
    <3> QED
      BY <1>0, <2>4, <3>1, <3>2, NotPast DEF SentOK
  <2>5. ASSUME NEW r \in Run, TellWriter(r), q.job = TheWriter
        PROVE  ~IsSent(q.job)
    BY <1>0, <2>5 DEF TellWriter, EmitStep, PublishOK, Reviewing
  <2>6. ~IsSent(q.job)
    BY <1>0, <1>2, <2>2, <2>3, <2>4, <2>5, StartedBy
  <2> QED
    BY <2>1, <2>6, FirstCopy
<1> QED
  BY <1>1, <1>2

LEMMA RunnerNext ==
  ASSUME NoResends, OnceInv, [Next]_vars
  PROVE  RunnerOK'
<1>0. TypeInv /\ RunnerOK /\ TheRunner \in Key
  BY JobFacts DEF OnceInv
<1>1. ASSUME Requests = 1, NEW r \in Run, r.job = TheRunner, pc'[r] # "none"
      PROVE  r.copy = 1
  <2>1. CASE pc[r] # "none"
    BY <1>0, <1>1, <2>1 DEF RunnerOK
  <2>2. CASE pc[r] = "none"
    <3>1. ThePlanner # TheRunner /\ TheWriter # TheRunner
          /\ \A t \in Task : Executor(t) # TheRunner
      BY JobFacts
    <3>2. ASSUME NEW q \in Run, StartReviewer(q) PROVE Reviewer(q.job[2]) # TheRunner
      BY <3>2, JobFacts, RunFacts DEF StartReviewer
    <3> QED
      BY <1>0, <1>1, <2>2, <3>1, <3>2, StartedBy
  <2> QED
    BY <2>1, <2>2
<1>2. ASSUME MaxFails = 0
      PROVE  /\ IsNew(TheRunner)' \/ Held(TheRunner, 1)'
             /\ ~IsNew(TheRunner) => ~IsNew(TheRunner)'
  <2>1. ASSUME NEW q \in Run, MarkSuccess(q), TheRunner = q.job
        PROVE  Held(TheRunner, 1)
    <3>1. pc[q] \in {"mark", "markLocked"}
      BY <2>1 DEF MarkSuccess, Step
    <3> QED
      BY <1>0, <1>2, <2>1, <3>1 DEF RunnerOK, Begun, Idle
  <2>2. ASSUME NEW q \in Run, MarkFailed(q) PROVE q.job # TheRunner
    <3>1. pc[q] = "markFailed" /\ Begun(q)
      BY <2>2 DEF MarkFailed, Step, Begun, Idle
    <3> QED
      BY <1>0, <1>2, <3>1 DEF RunnerOK
  <2>3. TheRunner # Final
    BY JobFacts
  <2>4. CASE keys'[TheRunner] = keys[TheRunner]
    BY <1>0, <1>2, <2>4 DEF RunnerOK, Held, IsNew
  <2>5. CASE keys'[TheRunner] # keys[TheRunner]
    <3>1. \/ \E q \in Run : /\ Claim(q) /\ TheRunner = q.job
                            /\ keys'[TheRunner].status = "IN_PROGRESS"
                            /\ keys'[TheRunner].hash = Hash(q)
          \/ /\ keys'[TheRunner].hash = keys[TheRunner].hash
             /\ \E q \in Run : /\ MarkSuccess(q) /\ TheRunner = q.job
                               /\ keys'[TheRunner].status = "SUCCEEDED"
      BY <1>0, <2>2, <2>3, <2>5, RowChange
    <3>2. \A q \in Run : TheRunner = q.job => Hash(q) = 1
      BY DEF Hash
    <3> QED
      BY <2>1, <3>1, <3>2 DEF Held, IsNew
  <2> QED
    BY <2>4, <2>5
<1>3. ASSUME MaxFails = 0, NEW r \in Run, r.job = TheRunner
      PROVE  /\ pc'[r] # "update"
             /\ Begun(r)' => pc'[r] # "markFailed" /\ ~IsNew(TheRunner)'
  <2>0. /\ \A q \in Run : ~StepFails(q)
        /\ pc[r] # "update" /\ (Begun(r) => pc[r] # "markFailed" /\ ~IsNew(TheRunner))
        /\ IsNew(TheRunner) \/ Held(TheRunner, 1)
    BY <1>0, <1>3 DEF TypeInv, TypeOK, StepFails, RunnerOK
  <2>1. pc'[r] # "update"
    <3>1. ASSUME pc'[r] = "update" PROVE FALSE
      <4>1. ~IsNew(TheRunner) /\ ~Blocks(keys[TheRunner], Hash(r))
        BY <1>0, <1>3, <2>0, <3>1, UpdateSeen
      <4>2. Hash(r) = 1
        BY <1>3 DEF Hash
      <4> QED
        BY <2>0, <4>1, <4>2 DEF Held, Blocks
    <3> QED
      BY <3>1
  <2>2. ASSUME Begun(r)' PROVE pc'[r] # "markFailed"
    <3>1. pc[r] \notin {"append", "unwind"}
      BY <1>0, <1>3 DEF TypeInv, RoleOK, Fits, TheRunner
    <3>2. pc[r] = "markFailed" => Begun(r)
      BY DEF Begun, Idle
    <3> QED
      BY <1>0, <1>3, <2>0, <3>1, <3>2, PassingNext
  <2>3. ASSUME Begun(r)' PROVE ~IsNew(TheRunner)'
    <3>1. CASE Begun(r)
      BY <1>2, <1>3, <2>0, <3>1
    <3>2. CASE ~Begun(r)
      <4>1. keys'[TheRunner].status = "IN_PROGRESS"
        BY <1>0, <1>3, <2>0, <2>3, <3>2, BegunBy
      <4> QED
        BY <4>1 DEF IsNew
    <3> QED
      BY <3>1, <3>2
  <2> QED
    BY <2>1, <2>2, <2>3
<1> QED
  BY <1>1, <1>2, <1>3 DEF RunnerOK

LEMMA OneBegunNext ==
  ASSUME NoResends, OnceInv, [Next]_vars
  PROVE  OneBegun'
<1>0. TypeInv /\ OneBegun /\ RunnerOK /\ SentOnce' /\ RunnerOK'
  BY SentOnceNext, RunnerNext DEF OnceInv
<1>1. ASSUME NEW r \in Run, NEW q \in Run, r.job = q.job, r.copy = q.copy
      PROVE  r = q
  BY <1>1 DEF Run
<1>2. ASSUME NEW r \in Run, NEW q \in Run, r.job = q.job, r # q, Begun(r)', Begun(q)'
      PROVE  FALSE
  <2>1. pc'[r] # "none" /\ pc'[q] # "none"
    BY <1>2 DEF Begun, Idle
  <2>2. q.job = TheRunner
    BY <1>0, <1>1, <1>2, <2>1 DEF SentOnce
  <2>3. Requests # 1
    BY <1>0, <1>1, <1>2, <2>1, <2>2 DEF RunnerOK
  <2>4. MaxFails = 0
    BY <2>3 DEF NoResends
  <2>5. \A p \in Run : ~StepFails(p)
    BY <1>0, <2>4 DEF TypeInv, TypeOK, StepFails
  <2>6. ASSUME NEW p \in Run, NEW o \in Run, p # o, p.job = TheRunner, o.job = TheRunner,
               Begun(p)', Begun(o)', ~Begun(p)
        PROVE  FALSE
    <3>1. /\ Claim(p) /\ (pc[p] = "insert" => IsNew(TheRunner))
          /\ Begun(o)
      BY <1>0, <2>5, <2>6, BegunBy
    <3>2. pc[p] = "insert"
      BY <1>0, <2>4, <2>6, <3>1 DEF Claim, RunnerOK
    <3> QED
      BY <1>0, <2>4, <2>6, <3>1, <3>2 DEF RunnerOK
  <2>7. Begun(r) /\ Begun(q)
    BY <1>2, <2>2, <2>6
  <2> QED
    BY <1>0, <1>2, <2>7 DEF OneBegun
<1> QED
  BY <1>2 DEF OneBegun

LEMMA SentNext ==
  ASSUME NoResends, OnceInv, [Next]_vars
  PROVE  SentOK'
<1>0. TypeInv /\ SentOK
  BY DEF OnceInv
<1>1. ASSUME NEW j \in Job, Past(j) PROVE Past(j)'
  <2>1. PICK r \in Run : r.job = j /\ pc[r] \notin Early
    BY <1>1 DEF Past
  <2>2. pc'[r] \notin Early
    BY <1>0, <2>1, PassingNext DEF Passing
  <2> QED
    BY <2>1, <2>2 DEF Past
<1>2. ASSUME NEW r \in Run, pc'[r] \in {"register", "mark", "sync"} PROVE Past(r.job)'
  BY <1>2 DEF Past, Early, Idle
<1>3. ASSUME IsSent(ThePlanner)' PROVE Past(TheRunner)'
  <2>1. CASE IsSent(ThePlanner)
    BY <1>0, <1>1, <2>1, JobFacts DEF SentOK
  <2>2. CASE ~IsSent(ThePlanner)
    <3>0. /\ ThePlanner \in Job /\ ThePlanner # TheRunner /\ ThePlanner # TheWriter
          /\ \A r \in Run : StartReviewer(r) => ThePlanner # Reviewer(r.job[2])
          /\ \A u \in Task : ThePlanner # Executor(u)
      BY JobFacts, RunFacts DEF StartReviewer
    <3>1. PICK r \in Run : StartPlanner(r)
      BY <1>0, <1>3, <2>2, <3>0, NewlySent
    <3>2. r.job = TheRunner /\ pc'[r] = "register"
      BY <3>1, LosslessStart DEF StartPlanner
    <3> QED
      BY <1>2, <3>2
  <2> QED
    BY <2>1, <2>2
<1>4. ASSUME NEW t \in Task, IsSent(Executor(t))' PROVE Past(ThePlanner)'
  <2>1. CASE IsSent(Executor(t))
    BY <1>0, <1>1, <2>1, JobFacts DEF SentOK
  <2>2. CASE ~IsSent(Executor(t))
    <3>0. /\ Executor(t) \in Job /\ Executor(t) # TheRunner /\ Executor(t) # TheWriter
          /\ \A r \in Run : StartReviewer(r) => Executor(t) # Reviewer(r.job[2])
          /\ Executor(t) # ThePlanner
      BY JobFacts, RunFacts DEF StartReviewer
    <3>1. PICK r \in Run : StartExecutors(r)
      BY <1>0, <1>4, <2>2, <3>0, NewlySent
    <3>2. r.job = ThePlanner /\ pc'[r] = "mark"
      BY <3>1, LosslessStart DEF StartExecutors
    <3> QED
      BY <1>2, <3>2
  <2> QED
    BY <2>1, <2>2
<1>5. ASSUME NEW t \in Task, IsSent(Reviewer(t))' PROVE Past(Executor(t))'
  <2>1. CASE IsSent(Reviewer(t))
    BY <1>0, <1>1, <2>1, JobFacts DEF SentOK
  <2>2. CASE ~IsSent(Reviewer(t))
    <3>1. PICK r \in Run : StartReviewer(r) /\ Reviewer(t) = Reviewer(r.job[2])
      BY <1>0, <1>5, <2>2, NewlySent, JobFacts
    <3>2. r.job[1] = "executor" /\ pc'[r] = "mark"
      BY <3>1, LosslessStart DEF StartReviewer
    <3>3. r.job = Executor(t)
      <4>1. r.job[2] \in Task /\ r.job = Executor(r.job[2])
        BY <3>2, JobFacts, RunFacts
      <4>2. r.job[2] = t
        BY <3>1 DEF Reviewer
      <4> QED
        BY <4>1, <4>2
    <3> QED
      BY <1>2, <3>2, <3>3
  <2> QED
    BY <2>1, <2>2
<1>6. ASSUME memory' > 0 PROVE Past(TheWriter)'
  <2>1. CASE memory' = memory
    BY <1>0, <1>1, <1>6, <2>1, JobFacts DEF SentOK
  <2>2. CASE memory' # memory
    <3>1. PICK r \in Run : WriteReview(r)
      BY <2>2, Footprint
    <3>2. r.job = TheWriter /\ pc'[r] = "sync"
      BY <1>0, <3>1, Lossless DEF WriteReview, Step, TypeInv, TypeOK
    <3> QED
      BY <1>2, <3>2
  <2> QED
    BY <2>1, <2>2
<1> QED
  BY <1>3, <1>4, <1>5, <1>6 DEF SentOK
-----------------------------------------------------------------------------
\* Each task is counted once, and the last one is counted when all are executed.

LEMMA FiniteTasks ==
  /\ IsFiniteSet(Task) /\ Cardinality(Task) \in Nat
  /\ \A S \in SUBSET Task :
       /\ IsFiniteSet(S) /\ Cardinality(S) \in Nat
       /\ Cardinality(S) <= Cardinality(Task)
       /\ Cardinality(S) = Cardinality(Task) => S = Task
<1>1. IsFiniteSet(Task)
  BY OrchestratorAssumption
<1> QED
  BY <1>1, FS_Subset, FS_CardinalityType

\* What is counted stays counted, and its task is executed.
LEMMA CountedGrows ==
  ASSUME TypeInv, [Next]_vars
  PROVE  /\ Counted \subseteq Counted' /\ Counted' \subseteq Task
         /\ Counted' \subseteq Executed'
<1>1. Counted \subseteq Counted'
  <2> SUFFICES ASSUME NEW t \in Counted PROVE t \in Counted'
    OBVIOUS
  <2>1. PICK r \in Run : r.job = Reviewer(t) /\ pc[r] \notin Uncounted
    BY DEF Counted
  <2>2. pc'[r] \notin Uncounted
    BY <2>1, PassingNext DEF Passing
  <2> QED
    BY <2>1, <2>2 DEF Counted
<1>2. ASSUME NEW t \in Counted' PROVE t \in Executed'
  <2>1. PICK r \in Run : r.job = Reviewer(t) /\ pc'[r] \notin Uncounted
    BY DEF Counted
  <2>2. TypeInv' /\ t \in Task /\ r.job[1] = "reviewer" /\ r.job[2] = t
    BY <2>1, TypeNext, JobFacts DEF Counted
  <2>3. r = [job |-> Reviewer(t), copy |-> r.copy] /\ r.copy \in 1..Copies
    BY <2>1 DEF Run
  <2>4. IsSent(Reviewer(t))'
    BY <2>1, <2>3 DEF IsSent, Sent, Uncounted
  <2> QED
    BY <2>2, <2>4 DEF Executed
<1> QED
  BY <1>1, <1>2 DEF Counted

\* A count adds a task to the ones that are counted.
LEMMA CountEffect ==
  ASSUME NoResends, OnceInv, [Next]_vars, NEW r \in Run, Count(r)
  PROVE  /\ counter' <= Cardinality(Counted')
         /\ count'[r] <= Cardinality(Task)
         /\ \A q \in Run \ {r} : count'[q] = count[q] /\ pc'[q] = pc[q]
         /\ pc'[r] = "lock" => count'[r] = Cardinality(Task) /\ Executed' = Task
<1>0. /\ TypeInv /\ TypeOK /\ ResultsOK /\ SentOnce /\ CountOK
      /\ counter \in Nat /\ pc[r] = "count" /\ r.job[1] = "reviewer"
      /\ r.job[2] \in Task /\ r.job = Reviewer(r.job[2])
  <2>1. pc[r] = "count" /\ r.job[1] = "reviewer"
    BY DEF Count, OnceInv, TypeInv, RoleOK, Fits
  <2> QED
    BY <2>1, JobFacts, RunFacts DEF OnceInv, TypeInv, TypeOK
<1> DEFINE t == r.job[2]
<1> DEFINE N == Cardinality(Task)
<1>1. PICK up \in RedisUp :
         /\ counter' = IF up THEN counter + 1 ELSE counter
         /\ count' = [count EXCEPT ![r] = IF up THEN counter + 1 ELSE Cardinality(state[r])]
         /\ Goto(r, IF (IF up THEN counter + 1 ELSE Cardinality(state[r])) < N
                    THEN "mark" ELSE "lock", "count")
  BY DEF Count
<1>2. pc' = [pc EXCEPT ![r] = IF (IF up THEN counter + 1 ELSE Cardinality(state[r])) < N
                              THEN "mark" ELSE "lock"]
  BY <1>1, Lossless
<1>3. t \notin Counted
  <2>1. ASSUME NEW q \in Run, q.job = Reviewer(t), pc[q] # "none" PROVE q = r
    <3>1. q.copy = 1 /\ r.copy = 1
      BY <1>0, <2>1, JobFacts DEF SentOnce
    <3> QED
      BY <1>0, <2>1, <3>1 DEF Run
  <2> QED
    BY <1>0, <2>1 DEF Counted, Uncounted
<1>4. t \in Counted'
  <2>1. pc'[r] \notin Uncounted
    BY <1>0, <1>2 DEF Uncounted, TypeOK
  <2> QED
    BY <1>0, <2>1 DEF Counted
<1>5. /\ Cardinality(Counted) \in Nat /\ Cardinality(Counted') \in Nat
      /\ Cardinality(Counted) + 1 <= Cardinality(Counted')
  <2>1. /\ Counted \subseteq Counted' /\ Counted \in SUBSET Task
        /\ Counted' \in SUBSET Task /\ Counted \cup {t} \subseteq Counted'
    BY <1>0, <1>4, CountedGrows DEF Counted
  <2>2. IsFiniteSet(Counted) /\ IsFiniteSet(Counted')
        /\ Cardinality(Counted) \in Nat /\ Cardinality(Counted') \in Nat
    BY <2>1, FiniteTasks
  <2>3. Cardinality(Counted \cup {t}) = Cardinality(Counted) + 1
    BY <1>3, <2>2, FS_AddElement
  <2>4. Cardinality(Counted \cup {t}) <= Cardinality(Counted')
    BY <2>1, <2>2, FS_Subset
  <2> QED
    BY <2>2, <2>3, <2>4
<1>6. counter + 1 <= Cardinality(Counted') /\ counter <= Cardinality(Counted')
  BY <1>0, <1>5 DEF CountOK
<1>7. /\ Counted' \in SUBSET Task /\ Counted' \subseteq Executed'
      /\ state[r] \in SUBSET Task /\ state[r] \subseteq Executed
      /\ Executed \subseteq Executed' /\ Executed' \subseteq Task
  <2>1. state[r] \in SUBSET Task
    BY <1>0 DEF CountOK
  <2>2. state[r] \subseteq Executed
    BY <1>0, <2>1 DEF ResultsOK
  <2> QED
    BY <1>0, <2>1, <2>2, CountedGrows, SentGrows DEF Executed
<1>8. /\ N \in Nat /\ Cardinality(Counted') <= N
      /\ Cardinality(state[r]) \in Nat /\ Cardinality(state[r]) <= N
      /\ Cardinality(Counted') = N => Counted' = Task
      /\ Cardinality(state[r]) = N => state[r] = Task
  BY <1>7, FiniteTasks
<1>9. count'[r] = (IF up THEN counter + 1 ELSE Cardinality(state[r]))
      /\ \A q \in Run \ {r} : count'[q] = count[q] /\ pc'[q] = pc[q]
  BY <1>0, <1>1, <1>2 DEF TypeOK
<1> HIDE DEF N, t
<1>10. counter' <= Cardinality(Counted') /\ count'[r] <= N
  BY <1>0, <1>1, <1>5, <1>6, <1>8, <1>9
<1>11. ASSUME pc'[r] = "lock" PROVE count'[r] = N /\ Executed' = Task
  <2>1. ~((IF up THEN counter + 1 ELSE Cardinality(state[r])) < N)
    BY <1>0, <1>2, <1>11 DEF TypeOK
  <2>2. CASE up
    BY <1>0, <1>5, <1>6, <1>7, <1>8, <1>9, <2>1, <2>2
  <2>3. CASE ~up
    BY <1>0, <1>7, <1>8, <1>9, <2>1, <2>3
  <2> QED
    BY <2>2, <2>3
<1> QED
  BY <1>9, <1>10, <1>11 DEF N

\* Only a count changes the counter, and what a reviewer has counted.
LEMMA CountFootprint ==
  ASSUME [Next]_vars
  PROVE  UNCHANGED <<counter, count>> \/ \E r \in Run : Count(r)
<1>1. CASE Request \/ LockExpires \/ UNCHANGED vars
  BY <1>1 DEF Request, LockExpires, vars, redis, local
<1>2. ASSUME NEW r \in Run, Timeout(r) \/ StepFails(r)
      PROVE  UNCHANGED <<counter, count>>
  BY <1>2 DEF Timeout, StepFails, redis, local
<1>3. ASSUME NEW r \in Run, RunStep(r)
      PROVE  UNCHANGED <<counter, count>> \/ Count(r)
  BY <1>3 DEF RunStep, redis, local, Look, Claim, MarkSuccess, MarkFailed, StartPlanner,
              Register, Seed, StartExecutors, StartReviewer, AppendRead, AppendWrite,
              AcquireLock, LookFinal, ClaimFinal, PersistRead, PersistWrite, TellWriter,
              TellRunner, MarkFinal, Release, WriteReview, SyncRead, SyncWrite
<1> QED
  BY <1>1, <1>2, <1>3 DEF Next

LEMMA CountNext ==
  ASSUME NoResends, OnceInv, [Next]_vars
  PROVE  CountOK'
<1>0. TypeInv /\ CountOK /\ RedisUp \subseteq BOOLEAN
  BY OrchestratorAssumption DEF OnceInv
<1>1. counter' <= Cardinality(Counted')
  <2>1. CASE counter' = counter
    <3>1. Counted \in SUBSET Task /\ Counted' \in SUBSET Task /\ Counted \subseteq Counted'
      BY <1>0, CountedGrows DEF Counted
    <3>2. /\ Cardinality(Counted) \in Nat /\ Cardinality(Counted') \in Nat
          /\ Cardinality(Counted) <= Cardinality(Counted')
      BY <3>1, FiniteTasks, FS_Subset
    <3>3. counter \in Nat /\ counter <= Cardinality(Counted)
      BY <1>0 DEF CountOK, TypeInv, TypeOK
    <3> QED
      BY <2>1, <3>2, <3>3
  <2>2. ASSUME NEW r \in Run, Count(r) PROVE counter' <= Cardinality(Counted')
    BY <2>2, CountEffect
  <2> QED
    BY <2>1, <2>2, CountFootprint
<1>2. ASSUME NEW q \in Run PROVE count'[q] <= Cardinality(Task)
  <2>1. CASE count' = count
    BY <1>0, <2>1 DEF CountOK
  <2>2. ASSUME NEW r \in Run, Count(r) PROVE count'[q] <= Cardinality(Task)
    BY <1>0, <2>2, CountEffect DEF CountOK
  <2> QED
    BY <2>1, <2>2, CountFootprint
<1>3. ASSUME NEW q \in Run, pc'[q] = "count" PROVE state'[q] \subseteq Task
  <2>0. q.job[1] = "reviewer"
    BY <1>0, <1>3, TypeNext DEF TypeInv, RoleOK, Fits
  <2>1. CASE AppendWrite(q)
    <3>1. /\ pc[q] = "add" /\ current[q] # NoState /\ current[q] \in WorkflowState \cup {NoState}
      BY <1>0, <2>1 DEF AppendWrite, TypeInv, TypeOK, ReadOK
    <3>2. q.job[2] \in Task
      BY <2>0, JobFacts, RunFacts
    <3>3. state'[q] = current[q] \cup {q.job[2]}
      BY <1>0, <2>1 DEF AppendWrite, TypeInv, TypeOK
    <3> QED
      BY <3>1, <3>2, <3>3 DEF WorkflowState
  <2>2. CASE ~AppendWrite(q)
    <3>1. pc[q] = "count" /\ state[q] \subseteq Task
      BY <1>0, <1>3, <2>2, PassingNext DEF Passing, CountOK
    <3>2. CASE state' = state
      BY <3>1, <3>2
    <3>3. ASSUME NEW r \in Run, AppendWrite(r) PROVE state'[q] \subseteq Task
      <4>1. q # r
        BY <2>2, <3>3
      <4> QED
        BY <1>0, <3>1, <3>3, <4>1 DEF AppendWrite, TypeInv, TypeOK
    <3>4. ASSUME NEW r \in Run, TellWriter(r) PROVE state'[q] \subseteq Task
      BY <3>1, <3>4 DEF TellWriter
    <3>5. ASSUME NEW r \in Run, \/ Seed(r) \/ AppendRead(r) \/ PersistRead(r)
                                \/ PersistWrite(r) \/ SyncRead(r) \/ SyncWrite(r)
          PROVE  state' = state
      BY <3>5 DEF Seed, AppendRead, PersistRead, PersistWrite, SyncRead, SyncWrite, local
    <3> QED
      BY <3>2, <3>3, <3>4, <3>5, Footprint
  <2> QED
    BY <2>1, <2>2
<1> QED
  BY <1>1, <1>2, <1>3 DEF CountOK

LEMMA LastNext ==
  ASSUME NoResends, OnceInv, [Next]_vars
  PROVE  LastOK'
<1>0. TypeInv /\ LastOK
  BY DEF OnceInv
<1>1. Executed = Task => Executed' = Task
  BY <1>0, SentGrows DEF Executed
<1>2. ASSUME NEW q \in Run, pc'[q] \in {"lock"} \cup Claiming
      PROVE  count'[q] = Cardinality(Task) /\ Executed' = Task
  <2>1. CASE Count(q)
    <3>1. pc'[q] \notin Claiming
      BY <2>1, <1>0, PassingNext DEF Passing, Count, Claiming
    <3> QED
      BY <1>2, <2>1, <3>1, CountEffect
  <2>2. CASE ~Count(q)
    <3>1. pc[q] \in {"lock"} \cup Claiming
      BY <1>0, <1>2, <2>2, PassingNext DEF Passing
    <3>2. count[q] = Cardinality(Task) /\ Executed = Task
      BY <1>0, <3>1 DEF LastOK
    <3>3. count'[q] = count[q]
      <4>1. ASSUME NEW r \in Run, Count(r) PROVE count'[q] = count[q]
        BY <2>2, <4>1, CountEffect
      <4> QED
        BY <4>1, CountFootprint
    <3> QED
      BY <1>1, <3>2, <3>3
  <2> QED
    BY <2>1, <2>2
<1>3. ASSUME NEW q \in Run, pc'[q] \in Finalising
      PROVE  Executed' = Task
  <2>1. pc[q] \in Finalising \/ ClaimFinal(q)
    BY <1>0, <1>3, EnteringNext
  <2>2. ClaimFinal(q) => pc[q] \in Claiming
    BY DEF ClaimFinal, Claiming
  <2> QED
    BY <1>0, <1>1, <2>1, <2>2 DEF LastOK
<1> QED
  BY <1>2, <1>3 DEF LastOK

\* One executor at a time starts a reviewer.
LEMMA OneSender ==
  ASSUME NEW r \in Run, NEW q \in Run, TypeInv, [Next]_vars,
         StartReviewer(r), StartReviewer(q), NoResends
  PROVE  r = q
<1>1. pc[r] = "emit" /\ pc'[r] = "mark" /\ pc[q] = "emit"
  BY LosslessStart DEF StartReviewer
<1>2. q # r => pc'[r] \in {"claim", "emit"}
  <2>1. PICK c \in 1..Copies, to \in {"mark", "emit"} :
           pc' = [p \in Run |-> IF p = q THEN to
                                ELSE IF p.job \in {Reviewer(q.job[2])} /\ p.copy = c
                                THEN "claim" ELSE pc[p]]
    BY DEF StartReviewer, EmitStep
  <2> QED
    BY <1>1, <2>1
<1> QED
  BY <1>1, <1>2
-----------------------------------------------------------------------------
\* The review is published once.

\* A run leaves its finalisation when it marks the final key, and while it is
\* there nobody else enters: there is a row, and no update of it.
LEMMA AloneNext ==
  ASSUME NoResends, OnceInv, [Next]_vars
  PROVE  FinalHeld' /\ Alone'
<1>0. /\ TypeInv /\ FinalHeld /\ Alone /\ lost \in Nat /\ pc \in [Run -> PCs]
      /\ \A q \in Run : pc[q] # "updateFinal"
  BY DEF OnceInv, TypeInv, TypeOK, PublishOK
<1>1. \A q \in Run : pc'[q] \in Finalising => pc[q] \in Finalising \/ ClaimFinal(q)
  BY <1>0, EnteringNext
<1>2. ASSUME NEW r \in Run, ClaimFinal(r)
      PROVE  FinalHeld' /\ Alone'
  <2>1. /\ \A q \in Run \ {r} : pc'[q] = pc[q]
        /\ \/ keys' = keys /\ pc'[r] = "claimFinal"
           \/ IsNew(Final) /\ keys'[Final].status = "IN_PROGRESS"
    BY <1>0, <1>2, FinalInsert
  <2>2. CASE keys' = keys /\ pc'[r] = "claimFinal"
    <3>1. "claimFinal" \notin Finalising
      BY DEF Finalising
    <3> QED
      BY <1>0, <2>1, <2>2, <3>1 DEF FinalHeld, Alone
  <2>3. CASE IsNew(Final) /\ keys'[Final].status = "IN_PROGRESS"
    <3>1. \A q \in Run \ {r} : pc'[q] \notin Finalising
      BY <1>0, <2>1, <2>3 DEF IsNew, FinalHeld
    <3> QED
      BY <2>3, <3>1 DEF FinalHeld, Alone
  <2> QED
    BY <2>1, <2>2, <2>3
<1>3. ASSUME NEW r \in Run, MarkFinal(r)
      PROVE  FinalHeld' /\ Alone'
  <2>1. pc[r] = "markFinal"
    BY <1>3 DEF MarkFinal, Step
  <2>2. pc' = [pc EXCEPT ![r] = "markLocked"]
    BY <1>3, Lossless DEF MarkFinal, Step
  <2>3. \A q \in Run : pc'[q] \notin Finalising
    BY <1>0, <2>1, <2>2 DEF Alone, Finalising
  <2> QED
    BY <2>3 DEF FinalHeld, Alone
<1>4. CASE ~\E r \in Run : ClaimFinal(r) \/ MarkFinal(r)
  <2>1. keys'[Final] = keys[Final]
    BY <1>0, <1>4, KeyChange
  <2>2. \A q \in Run : pc'[q] \in Finalising => pc[q] \in Finalising
    BY <1>1, <1>4
  <2> QED
    BY <1>0, <2>1, <2>2 DEF FinalHeld, Alone
<1> QED
  BY <1>2, <1>3, <1>4

LEMMA PublishNext ==
  ASSUME NoResends, OnceInv, [Next]_vars
  PROVE  PublishOK'
<1> DEFINE N == Cardinality(Task)
<1>0. /\ TypeInv /\ Alone /\ FinalHeld /\ LastOK /\ PublishOK
      /\ Final \in Key /\ TheWriter \in Job /\ TheWriter # TheRunner
      /\ \A r \in Run : r.job # Final
  BY JobFacts, RunFacts DEF OnceInv
<1>1. ASSUME NEW r \in Run, ClaimFinal(r)
      PROVE  /\ count[r] = N /\ Executed = Task /\ pc[r] = "insertFinal"
             /\ pc'[r] \in {"persist", "claimFinal"}
             /\ pc'[r] = "persist" => IsNew(Final)
  <2>1. pc[r] = "insertFinal"
    BY <1>0, <1>1 DEF ClaimFinal, PublishOK
  <2> QED
    BY <1>0, <1>1, <2>1, FinalInsert DEF LastOK, Claiming
<1>2. keys'[Final].status # "NONE" => Held(Final, N)'
  <2>1. CASE keys'[Final] = keys[Final]
    BY <1>0, <2>1 DEF PublishOK, Held
  <2>2. CASE keys'[Final] # keys[Final]
    <3>1. ASSUME NEW r \in Run, ClaimFinal(r),
                 keys'[Final].status = "IN_PROGRESS", keys'[Final].hash = count[r]
          PROVE  Held(Final, N)'
      BY <1>1, <3>1 DEF Held
    <3>2. ASSUME NEW r \in Run, MarkFinal(r), keys'[Final].status = "SUCCEEDED",
                 keys'[Final].hash = keys[Final].hash
          PROVE  Held(Final, N)'
      <4>1. keys[Final].status = "IN_PROGRESS"
        BY <1>0, <3>2 DEF FinalHeld, MarkFinal, Step, Finalising
      <4>2. keys[Final].hash = N
        BY <1>0, <4>1 DEF PublishOK, Held
      <4> QED
        BY <3>2, <4>2 DEF Held
    <3> QED
      BY <1>0, <2>2, <3>1, <3>2, RowChange
  <2> QED
    BY <2>1, <2>2
<1>3. keys[Final].status # "NONE" => keys'[Final].status # "NONE"
  <2>1. CASE keys'[Final] = keys[Final]
    BY <2>1
  <2>2. CASE keys'[Final] # keys[Final]
    <3>1. keys'[Final].status \in {"IN_PROGRESS", "SUCCEEDED"}
      BY <1>0, <2>2, RowChange
    <3> QED
      BY <3>1
  <2> QED
    BY <2>1, <2>2
<1>4. ASSUME NEW q \in Run, pc'[q] \in Reviewing, pc[q] \notin Reviewing
      PROVE  keys[Final].status = "NONE"
  <2>1. ClaimFinal(q)
    BY <1>0, <1>4, PassingNext DEF Passing
  <2>2. pc'[q] = "persist"
    BY <1>1, <1>4, <2>1 DEF Reviewing
  <2> QED
    BY <1>1, <2>1, <2>2 DEF IsNew
<1>5. ASSUME NEW q \in Run, pc[q] \in Finalising
      PROVE  keys[Final].status # "NONE" /\ Executed = Task
  BY <1>0, <1>5 DEF FinalHeld, LastOK
<1>6. Executed = Task => Executed' = Task
  BY <1>0, SentGrows DEF Executed
<1>7. ASSUME IsSent(TheWriter)', ~IsSent(TheWriter)
      PROVE  \E r \in Run : TellWriter(r)
  <2>1. TheWriter # ThePlanner /\ \A t \in Task : TheWriter # Executor(t)
    BY JobFacts
  <2>2. \A r \in Run : StartReviewer(r) => TheWriter # Reviewer(r.job[2])
    BY JobFacts, RunFacts DEF StartReviewer
  <2> QED
    BY <1>0, <1>7, <2>1, <2>2, NewlySent
<1>8. ASSUME NEW r \in Run, TellWriter(r)
      PROVE  pc[r] = "tellWriter" /\ pc'[r] = "tellRunner"
  BY <1>8, LosslessStart DEF TellWriter
<1>9. ASSUME NEW r \in Run, TellRunner(r)
      PROVE  pc[r] = "tellRunner" /\ pc'[r] = "markFinal"
  BY <1>0, <1>9 DEF TellRunner, Outcome, NoResends, TypeInv, TypeOK
<1>10. ASSUME NEW q \in Run, NEW r \in Run, pc'[q] \in Finalising, pc'[r] \in Finalising,
              pc[r] \in Finalising
       PROVE  q = r
  <2>1. CASE pc[q] \in Finalising
    BY <1>0, <1>10, <2>1 DEF Alone
  <2>2. CASE pc[q] \notin Finalising
    <3>1. pc'[q] \in Reviewing
      <4>1. ClaimFinal(q)
        BY <1>0, <1>10, <2>2, EnteringNext
      <4>2. pc'[q] \in {"persist", "claimFinal"}
        BY <1>1, <4>1
      <4> QED
        BY <1>10, <4>2 DEF Finalising, Reviewing
    <3>2. pc[q] \notin Reviewing
      BY <2>2 DEF Reviewing, Finalising
    <3> QED
      BY <1>4, <1>5, <1>10, <3>1, <3>2
  <2> QED
    BY <2>1, <2>2
<1>11. IsSent(TheWriter)' => keys'[Final].status # "NONE" /\ Executed' = Task
  <2>1. CASE IsSent(TheWriter)
    BY <1>0, <1>3, <1>6, <2>1 DEF PublishOK
  <2>2. ASSUME IsSent(TheWriter)', ~IsSent(TheWriter)
        PROVE  keys'[Final].status # "NONE" /\ Executed' = Task
    <3>1. PICK r \in Run : TellWriter(r)
      BY <1>7, <2>2
    <3>2. pc[r] \in Finalising
      BY <1>8, <3>1 DEF Finalising
    <3> QED
      BY <1>3, <1>5, <1>6, <3>2
  <2> QED
    BY <2>1, <2>2
<1>12. reviews' # <<>> => keys'[Final].status # "NONE"
  <2>1. CASE reviews' = reviews
    BY <1>0, <1>3, <2>1 DEF PublishOK
  <2>2. ASSUME NEW r \in Run, TellRunner(r) PROVE keys'[Final].status # "NONE"
    <3>1. pc[r] \in Finalising
      BY <1>9, <2>2 DEF Finalising
    <3> QED
      BY <1>3, <1>5, <3>1
  <2> QED
    BY <2>1, <2>2, Footprint
<1>13. ASSUME NEW q \in Run, pc'[q] \in Reviewing PROVE ~IsSent(TheWriter)'
  <2>1. ~IsSent(TheWriter)
    <3>1. CASE pc[q] \in Reviewing
      BY <1>0, <3>1 DEF PublishOK
    <3>2. CASE pc[q] \notin Reviewing
      BY <1>0, <1>4, <1>13, <3>2 DEF PublishOK
    <3> QED
      BY <3>1, <3>2
  <2>2. ASSUME NEW r \in Run, TellWriter(r) PROVE FALSE
    <3>1. /\ pc[r] \in Finalising /\ pc'[r] \in Finalising /\ pc'[q] \in Finalising
          /\ pc'[r] \notin Reviewing
      BY <1>8, <1>13, <2>2 DEF Finalising, Reviewing
    <3> QED
      BY <1>10, <1>13, <3>1
  <2> QED
    BY <1>7, <2>1, <2>2
<1>14. ASSUME NEW q \in Run, pc'[q] \in Reviewing \cup {"tellRunner"} PROVE reviews' = <<>>
  <2>1. reviews = <<>>
    <3>1. CASE pc[q] \in Reviewing \cup {"tellRunner"}
      BY <1>0, <3>1 DEF PublishOK
    <3>2. CASE pc'[q] \in Reviewing /\ pc[q] \notin Reviewing
      BY <1>0, <1>4, <3>2 DEF PublishOK
    <3>3. CASE pc'[q] = "tellRunner" /\ pc[q] \notin Reviewing \cup {"tellRunner"}
      BY <1>0, <1>8, <3>3, PassingNext DEF Passing, Reviewing
    <3> QED
      BY <1>14, <3>1, <3>2, <3>3
  <2>2. ASSUME NEW r \in Run, TellRunner(r) PROVE FALSE
    <3>1. /\ pc[r] \in Finalising /\ pc'[r] \in Finalising /\ pc'[q] \in Finalising
          /\ pc'[r] \notin Reviewing \cup {"tellRunner"}
      BY <1>9, <1>14, <2>2 DEF Finalising, Reviewing
    <3> QED
      BY <1>10, <1>14, <3>1
  <2> QED
    BY <2>1, <2>2, Footprint
<1>15. ASSUME NEW q \in Run, pc'[q] = "updateFinal" PROVE FALSE
  <2>1. /\ pc[q] = "claimFinal" /\ ~IsNew(Final)
        /\ ~Blocks(keys[Final], count[q])
    BY <1>0, <1>15, UpdateSeen DEF PublishOK
  <2>2. count[q] = N
    BY <1>0, <2>1 DEF LastOK, Claiming
  <2> QED
    BY <1>0, <2>1, <2>2 DEF PublishOK, IsNew, Held, Blocks
<1> QED
  BY <1>2, <1>11, <1>12, <1>13, <1>14, <1>15 DEF PublishOK

\* The steps of the orchestrator keep the invariant.
LEMMA OnceNext ==
  ASSUME NoResends, OnceInv, [Next]_vars
  PROVE  OnceInv'
<1>1. TypeInv' /\ ResultsOK' /\ FinalHeld' /\ Alone'
  BY TypeNext, ResultsNext, AloneNext DEF OnceInv
<1> QED
  BY <1>1, OneBegunNext, RunnerNext, SentOnceNext, SentNext, CountNext, LastNext,
     PublishNext DEF OnceInv

LEMMA OnceInit == Init => OnceInv
<1> SUFFICES ASSUME Init PROVE OnceInv
  OBVIOUS
<1>0. \A r \in Run : pc[r] = "none" /\ count[r] = 0
  BY DEF Init
<1>1. TypeInv /\ ResultsOK
  BY TypeInit, OrchestratorAssumption DEF Init, ResultsOK, NoState
<1>2. FinalHeld /\ Alone /\ LastOK
  BY <1>0 DEF FinalHeld, Alone, LastOK, Claiming, Finalising
<1>3. OneBegun /\ RunnerOK /\ SentOnce
  <2>1. IsNew(TheRunner)
    BY JobFacts DEF Init, NoEntry, IsNew
  <2> QED
    BY <1>0, <2>1 DEF OneBegun, RunnerOK, SentOnce, Begun, Idle
<1>4. \A j \in Job : ~IsSent(j)
  BY <1>0, RunFacts DEF IsSent, Sent
<1>5. SentOK
  <2>1. memory = 0
    BY DEF Init
  <2> QED
    BY <1>4, <2>1, JobFacts DEF SentOK
<1>6. CountOK
  <2>1. counter = 0 /\ 0 <= Cardinality(Counted)
    BY FiniteTasks DEF Init, Counted
  <2> QED
    BY <1>0, <2>1, FiniteTasks DEF CountOK
<1>7. PublishOK
  <2>1. keys[Final].status = "NONE" /\ reviews = <<>>
    BY JobFacts DEF Init, NoEntry
  <2> QED
    BY <1>0, <1>4, <2>1, JobFacts DEF PublishOK, Reviewing
<1> QED
  BY <1>1, <1>2, <1>3, <1>5, <1>6, <1>7 DEF OnceInv

\* Every step of the orchestrator executes a task, publishes the review, keeps
\* it, or leaves all that alone.
LEMMA OnceStep ==
  ASSUME NoResends, OnceInv, [Next]_vars
  PROVE  [Once!Next]_<<Executed, Len(reviews), memory>>
<1>0. TypeInv /\ OneBegun /\ SentOK /\ LastOK /\ PublishOK /\ memory \in Nat
  BY DEF OnceInv, TypeInv, TypeOK
<1>1. ASSUME NEW t \in Task, t \notin Executed, t \in Executed'
      PROVE  \E r \in Run : StartReviewer(r) /\ t = r.job[2]
  <2>1. /\ Reviewer(t) \in Job /\ Reviewer(t) # TheRunner /\ Reviewer(t) # ThePlanner
        /\ Reviewer(t) # TheWriter /\ \A u \in Task : Reviewer(t) # Executor(u)
    BY JobFacts
  <2>2. ~IsSent(Reviewer(t)) /\ IsSent(Reviewer(t))'
    BY <1>1 DEF Executed
  <2>3. PICK r \in Run : StartReviewer(r) /\ Reviewer(t) = Reviewer(r.job[2])
    BY <1>0, <2>1, <2>2, NewlySent
  <2> QED
    BY <2>3 DEF Reviewer
<1>2. Executed \subseteq Executed' /\ Executed' \subseteq Task
  BY <1>0, SentGrows DEF Executed
<1>3. ASSUME NEW r \in Run, StartReviewer(r)
      PROVE  [Once!Next]_<<Executed, Len(reviews), memory>>
  <2>1. UNCHANGED <<reviews, memory>> /\ r.job[2] \in Task
    BY <1>3, JobFacts, RunFacts DEF StartReviewer
  <2>2. \A t \in Executed' : t \in Executed \/ t = r.job[2]
    <3> SUFFICES ASSUME NEW t \in Executed', t \notin Executed PROVE t = r.job[2]
      OBVIOUS
    <3>1. PICK q \in Run : StartReviewer(q) /\ t = q.job[2]
      BY <1>1, <1>2
    <3>2. q = r
      BY <1>0, <1>3, <3>1, OneSender
    <3> QED
      BY <3>1, <3>2
  <2>3. CASE Executed' = Executed
    BY <2>1, <2>3
  <2>4. CASE Executed' # Executed
    <3>1. r.job[2] \notin Executed /\ Executed' = Executed \cup {r.job[2]}
      BY <1>2, <2>2, <2>4
    <3>2. Once!Execute(r.job[2])
      BY <2>1, <3>1 DEF Once!Execute
    <3> QED
      BY <2>1, <3>2 DEF Once!Next
  <2> QED
    BY <2>3, <2>4
<1>4. CASE ~\E r \in Run : StartReviewer(r)
  <2>1. Executed' = Executed
    BY <1>1, <1>2, <1>4
  <2>2. ASSUME NEW r \in Run, TellRunner(r)
        PROVE  Once!Next
    <3>1. pc[r] = "tellRunner" /\ memory' = memory
      BY <2>2 DEF TellRunner
    <3>2. Executed = Task /\ reviews = <<>>
      BY <1>0, <3>1 DEF LastOK, PublishOK, Finalising
    <3>3. Len(reviews) = 0 /\ Len(reviews') = 1
      BY <2>2, <3>2 DEF TellRunner
    <3> QED
      BY <2>1, <3>1, <3>2, <3>3 DEF Once!Next, Once!Review
  <2>3. ASSUME NEW r \in Run, WriteReview(r)
        PROVE  Once!Next
    <3>1. r.job = TheWriter /\ pc[r] = "write" /\ memory' = memory + 1 /\ reviews' = reviews
      BY <2>3 DEF WriteReview, Step
    <3>2. memory = 0
      BY <1>0, <3>1, NotPast DEF SentOK
    <3>3. IsSent(TheWriter)
      <4>1. r = [job |-> TheWriter, copy |-> r.copy] /\ r.copy \in 1..Copies
        BY <3>1 DEF Run
      <4> QED
        BY <3>1, <4>1 DEF IsSent, Sent
    <3>4. Executed = Task
      BY <1>0, <3>3 DEF PublishOK
    <3> QED
      BY <2>1, <3>1, <3>2, <3>4 DEF Once!Next, Once!Keep
  <2>4. CASE UNCHANGED <<reviews, memory>>
    BY <2>1, <2>4
  <2> QED
    BY <2>2, <2>3, <2>4, Footprint
<1> QED
  BY <1>3, <1>4

\* Where nothing is sent twice, the orchestrator implements ReviewOnce: it
\* executes every task, then publishes one review, and keeps one, whatever the
\* order of the reviewers, with Redis or without, and also when steps fail for
\* good, waits time out and the review lock expires.
THEOREM PublishesOnceHolds == NoResends => (Spec => PublishesOnce)
<1> SUFFICES ASSUME NoResends PROVE Spec => PublishesOnce
  OBVIOUS
<1>1. Init => Once!Init
  <2>1. ASSUME Init PROVE Executed = {}
    BY <2>1, JobFacts, RunFacts DEF Init, Executed, IsSent, Sent
  <2> QED
    BY <2>1 DEF Init, Once!Init
<1>2. OnceInv /\ [Next]_vars => OnceInv'
  BY OnceNext
<1>3. OnceInv /\ [Next]_vars => [Once!Next]_<<Executed, Len(reviews), memory>>
  BY OnceStep
<1> QED
  BY <1>1, <1>2, <1>3, OnceInit, PTL DEF Spec, PublishesOnce, Once!Spec

=============================================================================
