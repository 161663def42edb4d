----------------------------- MODULE Blackboard -----------------------------
(***************************************************************************)
(* The active blackboard of lib/dna/phase3/blackboard.ts: one board, the   *)
(* request handlers that create it, claim its steps and complete them.  A  *)
(* step is guarded twice: by a Redis mutex (SET NX PX) and by the version  *)
(* of its row, which update_blackboard_step_occ compares and increments.   *)
(* Every statement to Postgres or Redis is an action of its own.           *)
(***************************************************************************)
EXTENDS Integers, FiniteSets

CONSTANTS
  NumSteps,     \* steps of the pathway
  Agents,       \* child agents
  Handlers,     \* concurrent claim and complete requests
  ScanLimit,    \* claimScanLimit: rows a claim looks at
  EarlyClaims,  \* TRUE if agents may find the board before it is complete
  MaxTokens,    \* bound: mutex locks taken in a behaviour
  MaxFaults,    \* bound: requests that die half way or cannot release a key
  NoAgent

Steps   == 1..NumSteps
NoToken == 0
Tokens  == 1..MaxTokens

ASSUME BoardAssumption ==
  /\ NumSteps \in Nat
  /\ ScanLimit \in Nat \ {0}
  /\ EarlyClaims \in BOOLEAN
  /\ MaxTokens \in Nat
  /\ MaxFaults \in Nat
  /\ NoAgent \notin Agents

StepStatus == {"NONE", "PENDING", "IN_PROGRESS", "COMPLETED"}
PCs == {"idle", "lock", "occ", "undo", "token", "complete", "release", "close"}

VARIABLES
  board,     \* blackboard_sessions.status
  creating,  \* createBlackboardSession still inserts steps
  status,    \* blackboard_steps.status, "NONE" before the row exists
  version,   \* blackboard_steps.version
  claimant,  \* blackboard_steps.claimed_by_agent_id
  lockToken, \* blackboard_steps.lock_token
  leased,    \* blackboard_steps.lock_expires_at is in the future
  mutex,     \* the token under the step's Redis key
  given,     \* the <<step, token>> pairs answered to each agent
  issued,    \* tokens drawn so far
  pc,        \* where each handler is
  who,       \* the agent it works for
  cand,      \* claim: the <<step, version>> candidates not yet tried
  step,      \* the step it locks or completes, 0 if none
  seen,      \* the version it has read
  tok,       \* the lock token it drew or was sent
  faults     \* requests lost, or releases failed, so far

stepRow == <<status, version, claimant, lockToken, leased>>
request == <<who, cand, step, seen, tok>>
vars    == <<board, creating, stepRow, mutex, given, issued, pc, request, faults>>

TypeOK ==
  /\ board \in {"NONE", "ACTIVE", "COMPLETED"}
  /\ creating \in BOOLEAN
  /\ status \in [Steps -> StepStatus]
  /\ version \in [Steps -> Nat]
  /\ claimant \in [Steps -> Agents \cup {NoAgent}]
  /\ lockToken \in [Steps -> Nat]
  /\ leased \in [Steps -> BOOLEAN]
  /\ mutex \in [Steps -> Nat]
  /\ given \in [Agents -> SUBSET (Steps \X Nat)]
  /\ issued \in Nat
  /\ pc \in [Handlers -> PCs]
  /\ who \in [Handlers -> Agents \cup {NoAgent}]
  /\ cand \in [Handlers -> SUBSET (Steps \X Nat)]
  /\ step \in [Handlers -> Steps \cup {0}]
  /\ seen \in [Handlers -> Nat]
  /\ tok \in [Handlers -> Nat]
  /\ faults \in Nat

Init ==
  /\ board = "NONE"
  /\ creating = FALSE
  /\ status = [s \in Steps |-> "NONE"]
  /\ version = [s \in Steps |-> 1]
  /\ claimant = [s \in Steps |-> NoAgent]
  /\ lockToken = [s \in Steps |-> NoToken]
  /\ leased = [s \in Steps |-> FALSE]
  /\ mutex = [s \in Steps |-> NoToken]
  /\ given = [a \in Agents |-> {}]
  /\ issued = 0
  /\ pc = [h \in Handlers |-> "idle"]
  /\ who = [h \in Handlers |-> NoAgent]
  /\ cand = [h \in Handlers |-> {}]
  /\ step = [h \in Handlers |-> 0]
  /\ seen = [h \in Handlers |-> 0]
  /\ tok = [h \in Handlers |-> NoToken]
  /\ faults = 0

-----------------------------------------------------------------------------
\* createBlackboardSession: the session row, then one autocommitted INSERT per
\* step in step_order.

CreateBoard ==
  /\ board = "NONE"
  /\ board' = "ACTIVE"
  /\ creating' = TRUE
  /\ UNCHANGED <<stepRow, mutex, given, issued, pc, request, faults>>

PostStep(s) ==
  /\ creating
  /\ status[s] = "NONE"
  /\ \A r \in Steps : r < s => status[r] # "NONE"
  /\ status' = [status EXCEPT ![s] = "PENDING"]
  /\ creating' = (s < NumSteps)
  /\ UNCHANGED <<board, version, claimant, lockToken, leased, mutex, given,
                 issued, pc, request, faults>>

-----------------------------------------------------------------------------
\* The handlers share these.

Goto(h, l) == pc' = [pc EXCEPT ![h] = l]

Finish(h) ==
  /\ Goto(h, "idle")
  /\ who' = [who EXCEPT ![h] = NoAgent]
  /\ cand' = [cand EXCEPT ![h] = {}]
  /\ step' = [step EXCEPT ![h] = 0]
  /\ seen' = [seen EXCEPT ![h] = 0]
  /\ tok' = [tok EXCEPT ![h] = NoToken]

\* releaseRedisMutexLock deletes the key only while it holds the given token.
\* An unreachable Redis leaves it to its expiry.
Release(s, t) ==
  \/ /\ mutex' = [mutex EXCEPT ![s] = IF @ = t THEN NoToken ELSE @]
     /\ UNCHANGED faults
  \/ /\ faults < MaxFaults
     /\ faults' = faults + 1
     /\ UNCHANGED mutex

\* Mutant: the update does not compare the version.
AppliesAlways(h) == TRUE

\* The WHERE clause of update_blackboard_step_occ.
Applies(h) == version[step[h]] = seen[h]

-----------------------------------------------------------------------------
\* claimNextBlackboardStep

Open == {s \in Steps : status[s] \in {"PENDING", "IN_PROGRESS"}}

\* The first ScanLimit open rows, those with a running lease left out.
Candidates ==
  {s \in Open : /\ Cardinality({r \in Open : r < s}) < ScanLimit
                /\ status[s] = "PENDING" \/ ~leased[s]}

ScanSteps(h, a) ==
  /\ pc[h] = "idle"
  /\ board # "NONE"
  /\ EarlyClaims \/ ~creating
  /\ Goto(h, "lock")
  /\ who' = [who EXCEPT ![h] = a]
  /\ cand' = [cand EXCEPT ![h] = {<<s, version[s]>> : s \in Candidates}]
  /\ UNCHANGED <<board, creating, stepRow, mutex, given, issued, step, seen,
                 tok, faults>>

Next1(h) == {c \in cand[h] : \A d \in cand[h] : c[1] <= d[1]}

\* SET NX on the next candidate; a taken key, like a failing Redis, skips it.
LockStep(h) ==
  /\ pc[h] = "lock"
  /\ \E c \in Next1(h) :
       /\ cand' = [cand EXCEPT ![h] = @ \ {c}]
       /\ \/ /\ mutex[c[1]] = NoToken
             /\ issued < MaxTokens
             /\ issued' = issued + 1
             /\ mutex' = [mutex EXCEPT ![c[1]] = issued + 1]
             /\ tok' = [tok EXCEPT ![h] = issued + 1]
             /\ step' = [step EXCEPT ![h] = c[1]]
             /\ seen' = [seen EXCEPT ![h] = c[2]]
             /\ Goto(h, "occ")
          \/ UNCHANGED <<mutex, issued, pc, step, seen, tok>>
  /\ UNCHANGED <<board, creating, stepRow, given, who, faults>>

NothingToClaim(h) ==
  /\ pc[h] = "lock"
  /\ cand[h] = {}
  /\ Finish(h)
  /\ UNCHANGED <<board, creating, stepRow, mutex, given, issued, faults>>

\* Mutant: the claim writes CLAIMED, the enum value no statement writes.
ClaimStepAsClaimed(h) ==
  LET s == step[h] IN
  /\ pc[h] = "occ"
  /\ IF Applies(h)
       THEN /\ status' = [status EXCEPT ![s] = "CLAIMED"]
            /\ version' = [version EXCEPT ![s] = @ + 1]
            /\ claimant' = [claimant EXCEPT ![s] = who[h]]
            /\ lockToken' = [lockToken EXCEPT ![s] = tok[h]]
            /\ leased' = [leased EXCEPT ![s] = TRUE]
            /\ given' = [given EXCEPT ![who[h]] = @ \cup {<<s, tok[h]>>}]
            /\ Finish(h)
       ELSE /\ Goto(h, "undo")
            /\ UNCHANGED <<stepRow, given, request>>
  /\ UNCHANGED <<board, creating, mutex, issued, faults>>

\* The answer carries the token to the agent, unless it gets lost.
ClaimStep(h) ==
  LET s == step[h] IN
  /\ pc[h] = "occ"
  /\ IF Applies(h)
       THEN /\ status' = [status EXCEPT ![s] = "IN_PROGRESS"]
            /\ version' = [version EXCEPT ![s] = @ + 1]
            /\ claimant' = [claimant EXCEPT ![s] = who[h]]
            /\ lockToken' = [lockToken EXCEPT ![s] = tok[h]]
            /\ leased' = [leased EXCEPT ![s] = TRUE]
            /\ \/ given' = [given EXCEPT ![who[h]] = @ \cup {<<s, tok[h]>>}]
               \/ UNCHANGED given
            /\ Finish(h)
       ELSE /\ Goto(h, "undo")
            /\ UNCHANGED <<stepRow, given, request>>
  /\ UNCHANGED <<board, creating, mutex, issued, faults>>

UndoLock(h) ==
  /\ pc[h] = "undo"
  /\ Release(step[h], tok[h])
  /\ Goto(h, "lock")
  /\ step' = [step EXCEPT ![h] = 0]
  /\ seen' = [seen EXCEPT ![h] = 0]
  /\ tok' = [tok EXCEPT ![h] = NoToken]
  /\ UNCHANGED <<board, creating, stepRow, given, issued, who, cand>>

-----------------------------------------------------------------------------
\* completeBlackboardStep

\* The agent sends the token of a claim it was given, also a second time.
LoadStep(h, a, s, t) ==
  /\ pc[h] = "idle"
  /\ <<s, t>> \in given[a]
  /\ who' = [who EXCEPT ![h] = a]
  /\ step' = [step EXCEPT ![h] = s]
  /\ seen' = [seen EXCEPT ![h] = version[s]]
  /\ tok' = [tok EXCEPT ![h] = t]
  /\ Goto(h, "token")
  /\ UNCHANGED <<board, creating, stepRow, mutex, given, issued, cand, faults>>

\* Mutant: the live token is not compared with the one sent.
CheckNoToken(h) ==
  /\ pc[h] = "token"
  /\ Goto(h, "complete")
  /\ UNCHANGED <<board, creating, stepRow, mutex, given, issued, request, faults>>

\* readRedisLockToken: another token, none, or no Redis all refuse the request.
CheckToken(h) ==
  /\ pc[h] = "token"
  /\ \/ /\ mutex[step[h]] = tok[h]
        /\ Goto(h, "complete")
        /\ UNCHANGED request
     \/ Finish(h)
  /\ UNCHANGED <<board, creating, stepRow, mutex, given, issued, faults>>

CompleteStep(h) ==
  LET s == step[h] IN
  /\ pc[h] = "complete"
  /\ IF Applies(h)
       THEN /\ status' = [status EXCEPT ![s] = "COMPLETED"]
            /\ version' = [version EXCEPT ![s] = @ + 1]
            /\ claimant' = [claimant EXCEPT ![s] = who[h]]
            /\ lockToken' = [lockToken EXCEPT ![s] = NoToken]
            /\ leased' = [leased EXCEPT ![s] = FALSE]
            /\ Goto(h, "release")
            /\ UNCHANGED request
       ELSE /\ Finish(h)
            /\ UNCHANGED stepRow
  /\ UNCHANGED <<board, creating, mutex, given, issued, faults>>

ReleaseStep(h) ==
  /\ pc[h] = "release"
  /\ Release(step[h], tok[h])
  /\ Goto(h, "close")
  /\ UNCHANGED <<board, creating, stepRow, given, issued, request>>

\* Mutant: the board is closed by whoever completes a step.
CloseBoardAnyway(h) ==
  /\ pc[h] = "close"
  /\ board' = "COMPLETED"
  /\ Finish(h)
  /\ UNCHANGED <<creating, stepRow, mutex, given, issued, faults>>

\* Mutant: the board is closed by whoever completes the step ordered last.
CloseBoardByLast(h) ==
  /\ pc[h] = "close"
  /\ board' = IF Open = {} /\ step[h] = NumSteps THEN "COMPLETED" ELSE board
  /\ Finish(h)
  /\ UNCHANGED <<creating, stepRow, mutex, given, issued, faults>>

\* One UPDATE with a NOT EXISTS over the open steps of the board.
CloseBoard(h) ==
  /\ pc[h] = "close"
  /\ board' = IF Open = {} THEN "COMPLETED" ELSE board
  /\ Finish(h)
  /\ UNCHANGED <<creating, stepRow, mutex, given, issued, faults>>

-----------------------------------------------------------------------------
\* Time and failure.

\* The key's PX and the row's lock_expires_at run on different clocks.
MutexExpires(s) ==
  /\ mutex[s] # NoToken
  /\ mutex' = [mutex EXCEPT ![s] = NoToken]
  /\ UNCHANGED <<board, creating, stepRow, given, issued, pc, request, faults>>

LeaseExpires(s) ==
  /\ leased[s]
  /\ leased' = [leased EXCEPT ![s] = FALSE]
  /\ UNCHANGED <<board, creating, status, version, claimant, lockToken, mutex,
                 given, issued, pc, request, faults>>

CrashHandler(h) ==
  /\ faults < MaxFaults
  /\ faults' = faults + 1
  /\ pc[h] # "idle"
  /\ Finish(h)
  /\ UNCHANGED <<board, creating, stepRow, mutex, given, issued>>

CrashCreation ==
  /\ faults < MaxFaults
  /\ faults' = faults + 1
  /\ creating
  /\ creating' = FALSE
  /\ UNCHANGED <<board, stepRow, mutex, given, issued, pc, request>>

-----------------------------------------------------------------------------
ClaimRequest(h) ==
  \/ \E a \in Agents : ScanSteps(h, a)
  \/ LockStep(h) \/ NothingToClaim(h) \/ ClaimStep(h) \/ UndoLock(h)

CompleteRequest(h) ==
  \/ \E a \in Agents, s \in Steps, t \in Tokens : LoadStep(h, a, s, t)
  \/ CheckToken(h) \/ CompleteStep(h) \/ ReleaseStep(h) \/ CloseBoard(h)

Next ==
  \/ CreateBoard \/ CrashCreation
  \/ \E s \in Steps : PostStep(s) \/ MutexExpires(s) \/ LeaseExpires(s)
  \/ \E h \in Handlers : ClaimRequest(h) \/ CompleteRequest(h) \/ CrashHandler(h)

Spec == Init /\ [][Next]_vars

-----------------------------------------------------------------------------
\* Properties.

\* A completed step is never claimed again and keeps the agent that completed
\* it, however late the claims are that read it before, and whichever of its
\* guards expires in between.
CompletedIsFinal ==
  [][\A s \in Steps : status[s] = "COMPLETED" =>
       status'[s] = "COMPLETED" /\ claimant'[s] = claimant[s]]_vars

\* A claim whose key still lives is not handed to a second request: the row
\* keeps its token until its owner completes it.
LiveClaimIsKept ==
  [][\A s \in Steps :
       status[s] = "IN_PROGRESS" /\ lockToken[s] = mutex[s] =>
         lockToken'[s] = lockToken[s] \/ status'[s] = "COMPLETED"]_vars

\* A step is completed only with the token of its last claim, never by an agent
\* whose claim expired and was taken over.
CompletedByLastClaim ==
  [][\A s \in Steps : status[s] = "IN_PROGRESS" /\ status'[s] = "COMPLETED" =>
       <<s, lockToken[s]>> \in given[claimant'[s]]]_vars

\* A board reported as COMPLETED has been posted and has no open step.
BoardCompletedIsDone ==
  board = "COMPLETED" => ~creating /\ Open = {}

\* Once the last step is completed, also when two requests complete the last
\* two steps at a time, some request is about to close the board.
BoardGetsClosed ==
  board = "ACTIVE" /\ ~creating /\ NumSteps > 0 /\ Open = {} =>
    faults > 0 \/ \E h \in Handlers : pc[h] \in {"release", "close"}

=============================================================================
