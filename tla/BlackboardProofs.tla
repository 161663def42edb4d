-------------------------- MODULE BlackboardProofs --------------------------
(***************************************************************************)
(* What holds of Blackboard for every number of steps, agents, handlers,   *)
(* tokens and faults.                                                      *)
(***************************************************************************)
EXTENDS Blackboard, TLAPS

-----------------------------------------------------------------------------
\* The parts of the inductive invariant.

\* Redis never sees a token again: every token around was drawn before.
TokensIssued ==
  /\ \A s \in Steps : mutex[s] <= issued /\ lockToken[s] <= issued
  /\ \A a \in Agents : \A p \in given[a] : p[2] >= 1 /\ p[2] <= issued
  /\ \A h \in Handlers : tok[h] <= issued

\* A claim under way works for an agent; between its lock and its update the
\* token it drew is its own.
ClaimToken ==
  \A h \in Handlers :
    /\ pc[h] \in {"lock", "occ", "undo"} => who[h] \in Agents
    /\ pc[h] = "occ" =>
         /\ step[h] \in Steps
         /\ tok[h] >= 1
         /\ \A a \in Agents : \A p \in given[a] : p[2] # tok[h]
         /\ \A g \in Handlers \ {h} : pc[g] = "occ" => tok[g] # tok[h]

\* A completion under way was sent a token that its agent was given.
SentToken ==
  \A h \in Handlers : pc[h] \in {"token", "complete"} =>
    /\ step[h] \in Steps
    /\ who[h] \in Agents
    /\ <<step[h], tok[h]>> \in given[who[h]]

\* Versions only grow.
SeenBound ==
  \A h \in Handlers :
    /\ \A c \in cand[h] : c[2] <= version[c[1]]
    /\ pc[h] \in {"occ", "token", "complete"} => seen[h] <= version[step[h]]

\* A claim whose version is current still looks at an open step.
SeenOpen ==
  \A h \in Handlers :
    /\ \A c \in cand[h] :
         version[c[1]] = c[2] => status[c[1]] \in {"PENDING", "IN_PROGRESS"}
    /\ pc[h] = "occ" /\ version[step[h]] = seen[h] =>
         status[step[h]] \in {"PENDING", "IN_PROGRESS"}

\* A row in progress carries a token that was drawn.
ProgressHasToken ==
  \A s \in Steps : status[s] = "IN_PROGRESS" => lockToken[s] >= 1

\* A claim that took the key before a live claim took it is out of date.
LiveClaimIsSeen ==
  \A h \in Handlers :
    pc[h] = "occ" /\ mutex[step[h]] >= 1 /\ mutex[step[h]] = lockToken[step[h]] =>
      version[step[h]] > seen[h]

\* The agent that was given the token under the key owns the row, or has just
\* completed it.
Owns(a, s, t) ==
  /\ claimant[s] = a
  /\ status[s] = "COMPLETED" \/ (status[s] = "IN_PROGRESS" /\ lockToken[s] = t)

MutexOwner ==
  \A s \in Steps, a \in Agents :
    <<s, mutex[s]>> \in given[a] => Owns(a, s, mutex[s])

\* The same holds of a completion that has found its token under the key, as
\* long as the version it has read is current.
RequestOwner ==
  \A h \in Handlers :
    pc[h] = "complete" /\ version[step[h]] = seen[h] =>
      Owns(who[h], step[h], tok[h])

BoardInv ==
  /\ TypeOK
  /\ TokensIssued
  /\ ClaimToken
  /\ SentToken
  /\ SeenBound
  /\ SeenOpen
  /\ ProgressHasToken
  /\ LiveClaimIsSeen
  /\ MutexOwner
  /\ RequestOwner

-----------------------------------------------------------------------------
\* The effects of the two updates, where they apply.

ClaimEffect(h) ==
  /\ pc[h] = "occ" /\ step[h] \in Steps /\ who[h] \in Agents
  /\ tok[h] \in Nat /\ tok[h] >= 1 /\ version[step[h]] = seen[h]
  /\ status' = [status EXCEPT ![step[h]] = "IN_PROGRESS"]
  /\ version' = [version EXCEPT ![step[h]] = @ + 1]
  /\ claimant' = [claimant EXCEPT ![step[h]] = who[h]]
  /\ lockToken' = [lockToken EXCEPT ![step[h]] = tok[h]]
  /\ leased' = [leased EXCEPT ![step[h]] = TRUE]
  /\ \/ given' = [given EXCEPT ![who[h]] = @ \cup {<<step[h], tok[h]>>}]
     \/ given' = given
  /\ pc' = [pc EXCEPT ![h] = "idle"]
  /\ who' = [who EXCEPT ![h] = NoAgent]
  /\ cand' = [cand EXCEPT ![h] = {}]
  /\ step' = [step EXCEPT ![h] = 0]
  /\ seen' = [seen EXCEPT ![h] = 0]
  /\ tok' = [tok EXCEPT ![h] = 0]
  /\ UNCHANGED <<board, creating, mutex, issued, faults>>

\* A claim whose version matches writes its row and its answer.
LEMMA ClaimApplied ==
  ASSUME TypeOK, ClaimToken, NEW h \in Handlers, ClaimStep(h), Applies(h)
  PROVE  ClaimEffect(h)
  BY DEF ClaimEffect, ClaimStep, Applies, Finish, Goto, NoToken, ClaimToken, TypeOK

CompleteEffect(h) ==
  /\ pc[h] = "complete" /\ step[h] \in Steps /\ who[h] \in Agents
  /\ version[step[h]] = seen[h]
  /\ <<step[h], tok[h]>> \in given[who[h]]
  /\ status' = [status EXCEPT ![step[h]] = "COMPLETED"]
  /\ version' = [version EXCEPT ![step[h]] = @ + 1]
  /\ claimant' = [claimant EXCEPT ![step[h]] = who[h]]
  /\ lockToken' = [lockToken EXCEPT ![step[h]] = 0]
  /\ leased' = [leased EXCEPT ![step[h]] = FALSE]
  /\ pc' = [pc EXCEPT ![h] = "release"]
  /\ UNCHANGED <<who, cand, step, seen, tok>>
  /\ UNCHANGED <<board, creating, mutex, given, issued, faults>>

\* A completion whose version matches writes its row; its agent was given the
\* token it sent.
LEMMA CompleteApplied ==
  ASSUME TypeOK, SentToken, NEW h \in Handlers, CompleteStep(h), Applies(h)
  PROVE  CompleteEffect(h)
  BY DEF CompleteEffect, CompleteStep, Applies, Goto, NoToken, SentToken, request

-----------------------------------------------------------------------------
\* Each part is preserved by every step.

\* Every step keeps the types.
LEMMA TypeStep ==
  ASSUME TypeOK, ClaimToken, SentToken, [Next]_vars
  PROVE  TypeOK'
<1>1. CASE CreateBoard
  BY <1>1 DEF TypeOK, CreateBoard, stepRow, request
<1>2. CASE CrashCreation
  <2>1. faults' \in Nat /\ creating' = FALSE
    BY <1>2 DEF TypeOK, CrashCreation
  <2>2. UNCHANGED <<board, stepRow, mutex, given, issued, pc, request>>
    BY <1>2 DEF CrashCreation
  <2>3. /\ given' \in [Agents -> SUBSET (Steps \X Nat)]
        /\ cand' \in [Handlers -> SUBSET (Steps \X Nat)]
        /\ leased' \in [Steps -> BOOLEAN]
    BY <2>2 DEF TypeOK, stepRow, request
  <2> QED BY <2>1, <2>2, <2>3 DEF TypeOK, stepRow, request
<1>3. ASSUME NEW r \in Steps, PostStep(r)
      PROVE  TypeOK'
  BY <1>3 DEF TypeOK, PostStep, request, StepStatus
<1>4. ASSUME NEW r \in Steps, MutexExpires(r)
      PROVE  TypeOK'
  BY <1>4 DEF TypeOK, MutexExpires, stepRow, request, NoToken
<1>5. ASSUME NEW r \in Steps, LeaseExpires(r)
      PROVE  TypeOK'
  BY <1>5 DEF TypeOK, LeaseExpires, request
<1>6. ASSUME NEW h \in Handlers, NEW a \in Agents, ScanSteps(h, a)
      PROVE  TypeOK'
  <2>1. \A s \in Candidates : s \in Steps /\ status[s] \in {"PENDING", "IN_PROGRESS"}
    BY DEF Candidates, Open
  <2> QED
    BY <1>6, <2>1 DEF TypeOK, ScanSteps, Goto, stepRow, PCs, NoToken
<1>7. ASSUME NEW h \in Handlers, LockStep(h)
      PROVE  TypeOK'
  <2>1. PICK c \in Next1(h) : LockStep(h)!2!(c)
    BY <1>7 DEF LockStep
  <2>2. c[1] \in Steps /\ c[2] \in Nat
    BY DEF Next1, TypeOK
  <2>3. cand' \in [Handlers -> SUBSET (Steps \X Nat)]
    BY <2>1 DEF TypeOK
  <2>4. UNCHANGED <<board, creating, stepRow, given, who, faults>>
    BY <1>7 DEF LockStep
  <2>5. CASE UNCHANGED <<mutex, issued, pc, step, seen, tok>>
    BY <2>3, <2>4, <2>5 DEF TypeOK, stepRow
  <2>6. CASE ~UNCHANGED <<mutex, issued, pc, step, seen, tok>>
    <3>1. /\ issued' = issued + 1
          /\ mutex' = [mutex EXCEPT ![c[1]] = issued + 1]
          /\ tok' = [tok EXCEPT ![h] = issued + 1]
          /\ step' = [step EXCEPT ![h] = c[1]]
          /\ seen' = [seen EXCEPT ![h] = c[2]]
          /\ pc' = [pc EXCEPT ![h] = "occ"]
      BY <2>1, <2>6 DEF Goto
    <3>2. /\ issued' \in Nat /\ mutex' \in [Steps -> Nat]
          /\ tok' \in [Handlers -> Nat]
      BY <3>1, <2>2 DEF TypeOK
    <3>3. /\ step' \in [Handlers -> Steps \cup {0}]
          /\ seen' \in [Handlers -> Nat]
          /\ pc' \in [Handlers -> PCs]
      BY <3>1, <2>2 DEF TypeOK, PCs
    <3> QED BY <2>3, <2>4, <3>2, <3>3 DEF TypeOK, stepRow
  <2> QED BY <2>5, <2>6
<1>8. ASSUME NEW h \in Handlers, NothingToClaim(h)
      PROVE  TypeOK'
  BY <1>8 DEF TypeOK, NothingToClaim, Finish, Goto, stepRow, PCs, NoToken
<1>9. ASSUME NEW h \in Handlers, ClaimStep(h)
      PROVE  TypeOK'
  <2>1. CASE Applies(h)
    <3>1. ClaimEffect(h)
      BY <1>9, <2>1, ClaimApplied
    <3> QED
      BY <3>1 DEF TypeOK, PCs, StepStatus, NoToken, ClaimToken, ClaimEffect
  <2>2. CASE ~Applies(h)
    BY <1>9, <2>2
    DEF TypeOK, ClaimStep, Finish, Goto, stepRow, request, PCs,
        StepStatus, NoToken, ClaimToken
  <2> QED BY <2>1, <2>2
<1>10. ASSUME NEW h \in Handlers, UndoLock(h)
      PROVE  TypeOK'
  BY <1>10 DEF TypeOK, UndoLock, Release, Goto, stepRow, PCs, NoToken
<1>11. ASSUME NEW h \in Handlers, NEW a \in Agents,
             NEW s \in Steps, NEW t \in Tokens, LoadStep(h, a, s, t)
      PROVE  TypeOK'
  BY <1>11 DEF TypeOK, LoadStep, Goto, stepRow, PCs, NoToken
<1>12. ASSUME NEW h \in Handlers, CheckToken(h)
      PROVE  TypeOK'
  BY <1>12
  DEF TypeOK, CheckToken, Finish, Goto, stepRow, request, PCs, NoToken
<1>13. ASSUME NEW h \in Handlers, CompleteStep(h)
      PROVE  TypeOK'
  <2>1. CASE Applies(h)
    <3>1. CompleteEffect(h)
      BY <1>13, <2>1, CompleteApplied
    <3> QED
      BY <3>1
      DEF TypeOK, PCs, StepStatus, NoToken, SentToken, CompleteEffect
  <2>2. CASE ~Applies(h)
    BY <1>13, <2>2
    DEF TypeOK, CompleteStep, Finish, Goto, stepRow, request, PCs,
        StepStatus, NoToken, SentToken
  <2> QED BY <2>1, <2>2
<1>14. ASSUME NEW h \in Handlers, ReleaseStep(h)
      PROVE  TypeOK'
  BY <1>14
  DEF TypeOK, ReleaseStep, Release, Goto, stepRow, request, PCs, NoToken
<1>15. ASSUME NEW h \in Handlers, CloseBoard(h)
      PROVE  TypeOK'
  BY <1>15 DEF TypeOK, CloseBoard, Finish, Goto, stepRow, PCs, NoToken
<1>16. ASSUME NEW h \in Handlers, CrashHandler(h)
      PROVE  TypeOK'
  BY <1>16 DEF TypeOK, CrashHandler, Finish, Goto, stepRow, PCs, NoToken
<1>17. CASE UNCHANGED vars
  BY <1>17 DEF TypeOK, vars, stepRow, request
<1> QED
  BY <1>1, <1>2, <1>3, <1>4, <1>5, <1>6, <1>7, <1>8, <1>9, <1>10, <1>11,
     <1>12, <1>13, <1>14, <1>15, <1>16, <1>17
  DEF Next, ClaimRequest, CompleteRequest

\* No step makes up a token.
LEMMA IssuedStep ==
  ASSUME TokensIssued, ClaimToken, SentToken, TypeOK, [Next]_vars
  PROVE  TokensIssued'
<1>1. CASE CreateBoard
  BY <1>1
  DEF TokensIssued, ClaimToken, TypeOK, CreateBoard, stepRow, request
<1>2. CASE CrashCreation
  BY <1>2
  DEF TokensIssued, ClaimToken, TypeOK, CrashCreation, stepRow, request
<1>3. ASSUME NEW r \in Steps, PostStep(r)
      PROVE  TokensIssued'
  BY <1>3 DEF TokensIssued, ClaimToken, TypeOK, PostStep, request
<1>4. ASSUME NEW r \in Steps, MutexExpires(r)
      PROVE  TokensIssued'
  BY <1>4
  DEF TokensIssued, ClaimToken, TypeOK, MutexExpires, stepRow, request,
      NoToken
<1>5. ASSUME NEW r \in Steps, LeaseExpires(r)
      PROVE  TokensIssued'
  BY <1>5 DEF TokensIssued, ClaimToken, TypeOK, LeaseExpires, request
<1>6. ASSUME NEW h \in Handlers, NEW a \in Agents, ScanSteps(h, a)
      PROVE  TokensIssued'
  <2>1. \A s \in Candidates : s \in Steps /\ status[s] \in {"PENDING", "IN_PROGRESS"}
    BY DEF Candidates, Open
  <2> QED
    BY <1>6, <2>1
    DEF TokensIssued, ClaimToken, TypeOK, ScanSteps, Goto, stepRow
<1>7. ASSUME NEW h \in Handlers, LockStep(h)
      PROVE  TokensIssued'
  BY <1>7
  DEF TokensIssued, ClaimToken, TypeOK, LockStep, Next1, Goto, stepRow
<1>8. ASSUME NEW h \in Handlers, NothingToClaim(h)
      PROVE  TokensIssued'
  BY <1>8
  DEF TokensIssued, ClaimToken, TypeOK, NothingToClaim, Finish, Goto,
      stepRow, NoToken
<1>9. ASSUME NEW h \in Handlers, ClaimStep(h)
      PROVE  TokensIssued'
  <2>1. CASE Applies(h)
    <3>1. ClaimEffect(h)
      BY <1>9, <2>1, ClaimApplied
    <3> QED
      BY <3>1 DEF TokensIssued, ClaimToken, TypeOK, NoToken, ClaimEffect
  <2>2. CASE ~Applies(h)
    BY <1>9, <2>2
    DEF TokensIssued, ClaimToken, TypeOK, ClaimStep, Finish, Goto,
        stepRow, request, NoToken
  <2> QED BY <2>1, <2>2
<1>10. ASSUME NEW h \in Handlers, UndoLock(h)
      PROVE  TokensIssued'
  BY <1>10
  DEF TokensIssued, ClaimToken, TypeOK, UndoLock, Release, Goto, stepRow,
      NoToken
<1>11. ASSUME NEW h \in Handlers, NEW a \in Agents,
             NEW s \in Steps, NEW t \in Tokens, LoadStep(h, a, s, t)
      PROVE  TokensIssued'
  BY <1>11 DEF TokensIssued, ClaimToken, TypeOK, LoadStep, Goto, stepRow
<1>12. ASSUME NEW h \in Handlers, CheckToken(h)
      PROVE  TokensIssued'
  BY <1>12
  DEF TokensIssued, ClaimToken, TypeOK, CheckToken, Finish, Goto, stepRow,
      request, NoToken
<1>13. ASSUME NEW h \in Handlers, CompleteStep(h)
      PROVE  TokensIssued'
  <2>1. CASE Applies(h)
    <3>1. CompleteEffect(h)
      BY <1>13, <2>1, CompleteApplied
    <3> QED
      BY <3>1 DEF TokensIssued, ClaimToken, TypeOK, NoToken, CompleteEffect
  <2>2. CASE ~Applies(h)
    BY <1>13, <2>2
    DEF TokensIssued, ClaimToken, TypeOK, CompleteStep, Finish, Goto,
        stepRow, request, NoToken
  <2> QED BY <2>1, <2>2
<1>14. ASSUME NEW h \in Handlers, ReleaseStep(h)
      PROVE  TokensIssued'
  BY <1>14
  DEF TokensIssued, ClaimToken, TypeOK, ReleaseStep, Release, Goto, stepRow,
      request, NoToken
<1>15. ASSUME NEW h \in Handlers, CloseBoard(h)
      PROVE  TokensIssued'
  BY <1>15
  DEF TokensIssued, ClaimToken, TypeOK, CloseBoard, Finish, Goto, stepRow,
      NoToken
<1>16. ASSUME NEW h \in Handlers, CrashHandler(h)
      PROVE  TokensIssued'
  BY <1>16
  DEF TokensIssued, ClaimToken, TypeOK, CrashHandler, Finish, Goto, stepRow,
      NoToken
<1>17. CASE UNCHANGED vars
  BY <1>17 DEF TokensIssued, ClaimToken, TypeOK, vars, stepRow, request
<1> QED
  BY <1>1, <1>2, <1>3, <1>4, <1>5, <1>6, <1>7, <1>8, <1>9, <1>10, <1>11,
     <1>12, <1>13, <1>14, <1>15, <1>16, <1>17
  DEF Next, ClaimRequest, CompleteRequest

\* The token a claim draws is new, and stays its own until the claim's update.
LEMMA ClaimTokenStep ==
  ASSUME ClaimToken, SentToken, TokensIssued, TypeOK, [Next]_vars
  PROVE  ClaimToken'
<1>1. CASE CreateBoard
  BY <1>1 DEF ClaimToken, TypeOK, CreateBoard, stepRow, request
<1>2. CASE CrashCreation
  BY <1>2 DEF ClaimToken, TypeOK, CrashCreation, stepRow, request
<1>3. ASSUME NEW r \in Steps, PostStep(r)
      PROVE  ClaimToken'
  BY <1>3 DEF ClaimToken, TypeOK, PostStep, request
<1>4. ASSUME NEW r \in Steps, MutexExpires(r)
      PROVE  ClaimToken'
  BY <1>4 DEF ClaimToken, TypeOK, MutexExpires, stepRow, request
<1>5. ASSUME NEW r \in Steps, LeaseExpires(r)
      PROVE  ClaimToken'
  BY <1>5 DEF ClaimToken, TypeOK, LeaseExpires, request
<1>6. ASSUME NEW h \in Handlers, NEW a \in Agents, ScanSteps(h, a)
      PROVE  ClaimToken'
  <2>1. \A s \in Candidates : s \in Steps /\ status[s] \in {"PENDING", "IN_PROGRESS"}
    BY DEF Candidates, Open
  <2> QED
    BY <1>6, <2>1 DEF ClaimToken, TypeOK, ScanSteps, Goto, stepRow
<1>7. ASSUME NEW h \in Handlers, LockStep(h)
      PROVE  ClaimToken'
  BY <1>7
  DEF ClaimToken, TypeOK, LockStep, Next1, Goto, stepRow, TokensIssued
<1>8. ASSUME NEW h \in Handlers, NothingToClaim(h)
      PROVE  ClaimToken'
  BY <1>8 DEF ClaimToken, TypeOK, NothingToClaim, Finish, Goto, stepRow
<1>9. ASSUME NEW h \in Handlers, ClaimStep(h)
      PROVE  ClaimToken'
  <2>1. CASE Applies(h)
    <3>1. ClaimEffect(h)
      BY <1>9, <2>1, ClaimApplied
    <3> QED
      <4>1. \A g \in Handlers \ {h} :
              pc'[g] = pc[g] /\ step'[g] = step[g] /\ who'[g] = who[g] /\ tok'[g] = tok[g]
        BY <3>1 DEF TypeOK, ClaimEffect
      <4>2. pc'[h] = "idle" /\ pc[h] = "occ"
        BY <3>1 DEF TypeOK, ClaimEffect
      <4>3. \A a \in Agents : \A p \in given'[a] : p \in given[a] \/ p[2] = tok[h]
        BY <3>1 DEF TypeOK, ClaimEffect
      <4> QED BY <4>1, <4>2, <4>3 DEF ClaimToken
  <2>2. CASE ~Applies(h)
    BY <1>9, <2>2
    DEF ClaimToken, TypeOK, ClaimStep, Finish, Goto, stepRow, request
  <2> QED BY <2>1, <2>2
<1>10. ASSUME NEW h \in Handlers, UndoLock(h)
      PROVE  ClaimToken'
  BY <1>10 DEF ClaimToken, TypeOK, UndoLock, Release, Goto, stepRow
<1>11. ASSUME NEW h \in Handlers, NEW a \in Agents,
             NEW s \in Steps, NEW t \in Tokens, LoadStep(h, a, s, t)
      PROVE  ClaimToken'
  BY <1>11 DEF ClaimToken, TypeOK, LoadStep, Goto, stepRow
<1>12. ASSUME NEW h \in Handlers, CheckToken(h)
      PROVE  ClaimToken'
  BY <1>12
  DEF ClaimToken, TypeOK, CheckToken, Finish, Goto, stepRow, request
<1>13. ASSUME NEW h \in Handlers, CompleteStep(h)
      PROVE  ClaimToken'
  <2>1. CASE Applies(h)
    <3>1. CompleteEffect(h)
      BY <1>13, <2>1, CompleteApplied
    <3> QED
      BY <3>1 DEF ClaimToken, TypeOK, CompleteEffect
  <2>2. CASE ~Applies(h)
    BY <1>13, <2>2
    DEF ClaimToken, TypeOK, CompleteStep, Finish, Goto, stepRow, request
  <2> QED BY <2>1, <2>2
<1>14. ASSUME NEW h \in Handlers, ReleaseStep(h)
      PROVE  ClaimToken'
  BY <1>14
  DEF ClaimToken, TypeOK, ReleaseStep, Release, Goto, stepRow, request
<1>15. ASSUME NEW h \in Handlers, CloseBoard(h)
      PROVE  ClaimToken'
  BY <1>15 DEF ClaimToken, TypeOK, CloseBoard, Finish, Goto, stepRow
<1>16. ASSUME NEW h \in Handlers, CrashHandler(h)
      PROVE  ClaimToken'
  BY <1>16 DEF ClaimToken, TypeOK, CrashHandler, Finish, Goto, stepRow
<1>17. CASE UNCHANGED vars
  BY <1>17 DEF ClaimToken, TypeOK, vars, stepRow, request
<1> QED
  BY <1>1, <1>2, <1>3, <1>4, <1>5, <1>6, <1>7, <1>8, <1>9, <1>10, <1>11,
     <1>12, <1>13, <1>14, <1>15, <1>16, <1>17
  DEF Next, ClaimRequest, CompleteRequest

\* A completion keeps the token its agent was given.
LEMMA SentTokenStep ==
  ASSUME SentToken, ClaimToken, TypeOK, [Next]_vars
  PROVE  SentToken'
<1>1. CASE CreateBoard
  BY <1>1 DEF SentToken, TypeOK, CreateBoard, stepRow, request
<1>2. CASE CrashCreation
  BY <1>2 DEF SentToken, TypeOK, CrashCreation, stepRow, request
<1>3. ASSUME NEW r \in Steps, PostStep(r)
      PROVE  SentToken'
  BY <1>3 DEF SentToken, TypeOK, PostStep, request
<1>4. ASSUME NEW r \in Steps, MutexExpires(r)
      PROVE  SentToken'
  BY <1>4 DEF SentToken, TypeOK, MutexExpires, stepRow, request
<1>5. ASSUME NEW r \in Steps, LeaseExpires(r)
      PROVE  SentToken'
  BY <1>5 DEF SentToken, TypeOK, LeaseExpires, request
<1>6. ASSUME NEW h \in Handlers, NEW a \in Agents, ScanSteps(h, a)
      PROVE  SentToken'
  <2>1. \A s \in Candidates : s \in Steps /\ status[s] \in {"PENDING", "IN_PROGRESS"}
    BY DEF Candidates, Open
  <2> QED
    BY <1>6, <2>1 DEF SentToken, TypeOK, ScanSteps, Goto, stepRow
<1>7. ASSUME NEW h \in Handlers, LockStep(h)
      PROVE  SentToken'
  <2>1. \A g \in Handlers \ {h} :
          pc'[g] = pc[g] /\ step'[g] = step[g] /\ who'[g] = who[g] /\ tok'[g] = tok[g]
    BY <1>7 DEF TypeOK, LockStep, Goto
  <2>2. pc'[h] \in {"lock", "occ"} /\ given' = given
    BY <1>7 DEF TypeOK, LockStep, Goto
  <2> QED BY <2>1, <2>2 DEF SentToken
<1>8. ASSUME NEW h \in Handlers, NothingToClaim(h)
      PROVE  SentToken'
  BY <1>8 DEF SentToken, TypeOK, NothingToClaim, Finish, Goto, stepRow
<1>9. ASSUME NEW h \in Handlers, ClaimStep(h)
      PROVE  SentToken'
  <2>1. CASE Applies(h)
    <3>1. ClaimEffect(h)
      BY <1>9, <2>1, ClaimApplied
    <3> QED
      <4>1. \A g \in Handlers \ {h} :
              pc'[g] = pc[g] /\ step'[g] = step[g] /\ who'[g] = who[g] /\ tok'[g] = tok[g]
        BY <3>1 DEF TypeOK, ClaimEffect
      <4>2. pc'[h] = "idle" /\ \A a \in Agents : given[a] \subseteq given'[a]
        BY <3>1 DEF TypeOK, ClaimEffect
      <4> QED BY <4>1, <4>2 DEF SentToken
  <2>2. CASE ~Applies(h)
    BY <1>9, <2>2
    DEF SentToken, TypeOK, ClaimStep, Finish, Goto, stepRow, request
  <2> QED BY <2>1, <2>2
<1>10. ASSUME NEW h \in Handlers, UndoLock(h)
      PROVE  SentToken'
  BY <1>10 DEF SentToken, TypeOK, UndoLock, Release, Goto, stepRow
<1>11. ASSUME NEW h \in Handlers, NEW a \in Agents,
             NEW s \in Steps, NEW t \in Tokens, LoadStep(h, a, s, t)
      PROVE  SentToken'
  <2>1. /\ pc[h] = "idle" /\ <<s, t>> \in given[a] /\ given' = given
        /\ who' = [who EXCEPT ![h] = a]
        /\ step' = [step EXCEPT ![h] = s]
        /\ tok' = [tok EXCEPT ![h] = t]
        /\ pc' = [pc EXCEPT ![h] = "token"]
    BY <1>11 DEF LoadStep, Goto
  <2>2. /\ pc'[h] = "token" /\ step'[h] = s /\ who'[h] = a /\ tok'[h] = t
        /\ \A g \in Handlers \ {h} :
             pc'[g] = pc[g] /\ step'[g] = step[g] /\ who'[g] = who[g] /\ tok'[g] = tok[g]
    BY <2>1 DEF TypeOK
  <2> QED BY <2>1, <2>2 DEF SentToken
<1>12. ASSUME NEW h \in Handlers, CheckToken(h)
      PROVE  SentToken'
  <2>1. /\ pc[h] = "token" /\ given' = given
        /\ \/ Goto(h, "complete") /\ UNCHANGED request
           \/ Finish(h)
    BY <1>12 DEF CheckToken
  <2>2. CASE Goto(h, "complete") /\ UNCHANGED request
    BY <2>1, <2>2 DEF SentToken, TypeOK, Goto, request
  <2>3. CASE Finish(h)
    <3>1. /\ pc'[h] = "idle"
          /\ \A g \in Handlers \ {h} :
               pc'[g] = pc[g] /\ step'[g] = step[g] /\ who'[g] = who[g] /\ tok'[g] = tok[g]
      BY <2>3 DEF Finish, Goto, TypeOK
    <3> QED BY <2>1, <3>1 DEF SentToken
  <2> QED BY <2>1, <2>2, <2>3
<1>13. ASSUME NEW h \in Handlers, CompleteStep(h)
      PROVE  SentToken'
  <2>1. CASE Applies(h)
    <3>1. CompleteEffect(h)
      BY <1>13, <2>1, CompleteApplied
    <3> QED
      BY <3>1 DEF SentToken, TypeOK, CompleteEffect
  <2>2. CASE ~Applies(h)
    <3>1. \A g \in Handlers \ {h} :
            pc'[g] = pc[g] /\ step'[g] = step[g] /\ who'[g] = who[g] /\ tok'[g] = tok[g]
      BY <1>13, <2>2 DEF TypeOK, CompleteStep, Finish, Goto
    <3>2. pc'[h] = "idle" /\ given' = given
      BY <1>13, <2>2 DEF TypeOK, CompleteStep, Finish, Goto
    <3> QED BY <3>1, <3>2 DEF SentToken
  <2> QED BY <2>1, <2>2
<1>14. ASSUME NEW h \in Handlers, ReleaseStep(h)
      PROVE  SentToken'
  BY <1>14
  DEF SentToken, TypeOK, ReleaseStep, Release, Goto, stepRow, request
<1>15. ASSUME NEW h \in Handlers, CloseBoard(h)
      PROVE  SentToken'
  BY <1>15 DEF SentToken, TypeOK, CloseBoard, Finish, Goto, stepRow
<1>16. ASSUME NEW h \in Handlers, CrashHandler(h)
      PROVE  SentToken'
  BY <1>16 DEF SentToken, TypeOK, CrashHandler, Finish, Goto, stepRow
<1>17. CASE UNCHANGED vars
  BY <1>17 DEF SentToken, TypeOK, vars, stepRow, request
<1> QED
  BY <1>1, <1>2, <1>3, <1>4, <1>5, <1>6, <1>7, <1>8, <1>9, <1>10, <1>11,
     <1>12, <1>13, <1>14, <1>15, <1>16, <1>17
  DEF Next, ClaimRequest, CompleteRequest

\* A version that was read is never ahead of the row.
LEMMA SeenStep ==
  ASSUME SeenBound, ClaimToken, SentToken, TypeOK, [Next]_vars
  PROVE  SeenBound'
<1>1. CASE CreateBoard
  BY <1>1
  DEF SeenBound, ClaimToken, SentToken, TypeOK, CreateBoard, stepRow,
      request
<1>2. CASE CrashCreation
  BY <1>2
  DEF SeenBound, ClaimToken, SentToken, TypeOK, CrashCreation, stepRow,
      request
<1>3. ASSUME NEW r \in Steps, PostStep(r)
      PROVE  SeenBound'
  BY <1>3 DEF SeenBound, ClaimToken, SentToken, TypeOK, PostStep, request
<1>4. ASSUME NEW r \in Steps, MutexExpires(r)
      PROVE  SeenBound'
  BY <1>4
  DEF SeenBound, ClaimToken, SentToken, TypeOK, MutexExpires, stepRow,
      request
<1>5. ASSUME NEW r \in Steps, LeaseExpires(r)
      PROVE  SeenBound'
  BY <1>5
  DEF SeenBound, ClaimToken, SentToken, TypeOK, LeaseExpires, request
<1>6. ASSUME NEW h \in Handlers, NEW a \in Agents, ScanSteps(h, a)
      PROVE  SeenBound'
  <2>1. \A s \in Candidates : s \in Steps /\ status[s] \in {"PENDING", "IN_PROGRESS"}
    BY DEF Candidates, Open
  <2> QED
    BY <1>6, <2>1
    DEF SeenBound, ClaimToken, SentToken, TypeOK, ScanSteps, Goto, stepRow
<1>7. ASSUME NEW h \in Handlers, LockStep(h)
      PROVE  SeenBound'
  BY <1>7
  DEF SeenBound, ClaimToken, SentToken, TypeOK, LockStep, Next1, Goto,
      stepRow
<1>8. ASSUME NEW h \in Handlers, NothingToClaim(h)
      PROVE  SeenBound'
  BY <1>8
  DEF SeenBound, ClaimToken, SentToken, TypeOK, NothingToClaim, Finish,
      Goto, stepRow
<1>9. ASSUME NEW h \in Handlers, ClaimStep(h)
      PROVE  SeenBound'
  <2>1. CASE Applies(h)
    <3>1. ClaimEffect(h)
      BY <1>9, <2>1, ClaimApplied
    <3> QED
      BY <3>1 DEF SeenBound, ClaimToken, SentToken, TypeOK, ClaimEffect
  <2>2. CASE ~Applies(h)
    BY <1>9, <2>2
    DEF SeenBound, ClaimToken, SentToken, TypeOK, ClaimStep, Finish, Goto,
        stepRow, request
  <2> QED BY <2>1, <2>2
<1>10. ASSUME NEW h \in Handlers, UndoLock(h)
      PROVE  SeenBound'
  BY <1>10
  DEF SeenBound, ClaimToken, SentToken, TypeOK, UndoLock, Release, Goto,
      stepRow
<1>11. ASSUME NEW h \in Handlers, NEW a \in Agents,
             NEW s \in Steps, NEW t \in Tokens, LoadStep(h, a, s, t)
      PROVE  SeenBound'
  BY <1>11
  DEF SeenBound, ClaimToken, SentToken, TypeOK, LoadStep, Goto, stepRow
<1>12. ASSUME NEW h \in Handlers, CheckToken(h)
      PROVE  SeenBound'
  BY <1>12
  DEF SeenBound, ClaimToken, SentToken, TypeOK, CheckToken, Finish, Goto,
      stepRow, request
<1>13. ASSUME NEW h \in Handlers, CompleteStep(h)
      PROVE  SeenBound'
  <2>1. CASE Applies(h)
    <3>1. CompleteEffect(h)
      BY <1>13, <2>1, CompleteApplied
    <3> QED
      BY <3>1 DEF SeenBound, ClaimToken, SentToken, TypeOK, CompleteEffect
  <2>2. CASE ~Applies(h)
    BY <1>13, <2>2
    DEF SeenBound, ClaimToken, SentToken, TypeOK, CompleteStep, Finish,
        Goto, stepRow, request
  <2> QED BY <2>1, <2>2
<1>14. ASSUME NEW h \in Handlers, ReleaseStep(h)
      PROVE  SeenBound'
  BY <1>14
  DEF SeenBound, ClaimToken, SentToken, TypeOK, ReleaseStep, Release, Goto,
      stepRow, request
<1>15. ASSUME NEW h \in Handlers, CloseBoard(h)
      PROVE  SeenBound'
  BY <1>15
  DEF SeenBound, ClaimToken, SentToken, TypeOK, CloseBoard, Finish, Goto,
      stepRow
<1>16. ASSUME NEW h \in Handlers, CrashHandler(h)
      PROVE  SeenBound'
  BY <1>16
  DEF SeenBound, ClaimToken, SentToken, TypeOK, CrashHandler, Finish, Goto,
      stepRow
<1>17. CASE UNCHANGED vars
  BY <1>17
  DEF SeenBound, ClaimToken, SentToken, TypeOK, vars, stepRow, request
<1> QED
  BY <1>1, <1>2, <1>3, <1>4, <1>5, <1>6, <1>7, <1>8, <1>9, <1>10, <1>11,
     <1>12, <1>13, <1>14, <1>15, <1>16, <1>17
  DEF Next, ClaimRequest, CompleteRequest

\* A row at the version a claim has read is still open.
LEMMA OpenStep ==
  ASSUME SeenOpen, SeenBound, ClaimToken, SentToken, TypeOK, [Next]_vars
  PROVE  SeenOpen'
<1>1. CASE CreateBoard
  BY <1>1
  DEF SeenOpen, SeenBound, ClaimToken, TypeOK, CreateBoard, stepRow, request
<1>2. CASE CrashCreation
  BY <1>2
  DEF SeenOpen, SeenBound, ClaimToken, TypeOK, CrashCreation, stepRow,
      request
<1>3. ASSUME NEW r \in Steps, PostStep(r)
      PROVE  SeenOpen'
  BY <1>3 DEF SeenOpen, SeenBound, ClaimToken, TypeOK, PostStep, request
<1>4. ASSUME NEW r \in Steps, MutexExpires(r)
      PROVE  SeenOpen'
  BY <1>4
  DEF SeenOpen, SeenBound, ClaimToken, TypeOK, MutexExpires, stepRow,
      request
<1>5. ASSUME NEW r \in Steps, LeaseExpires(r)
      PROVE  SeenOpen'
  BY <1>5 DEF SeenOpen, SeenBound, ClaimToken, TypeOK, LeaseExpires, request
<1>6. ASSUME NEW h \in Handlers, NEW a \in Agents, ScanSteps(h, a)
      PROVE  SeenOpen'
  <2>1. \A s \in Candidates : s \in Steps /\ status[s] \in {"PENDING", "IN_PROGRESS"}
    BY DEF Candidates, Open
  <2> QED
    BY <1>6, <2>1
    DEF SeenOpen, SeenBound, ClaimToken, TypeOK, ScanSteps, Goto, stepRow
<1>7. ASSUME NEW h \in Handlers, LockStep(h)
      PROVE  SeenOpen'
  BY <1>7
  DEF SeenOpen, SeenBound, ClaimToken, TypeOK, LockStep, Next1, Goto,
      stepRow
<1>8. ASSUME NEW h \in Handlers, NothingToClaim(h)
      PROVE  SeenOpen'
  BY <1>8
  DEF SeenOpen, SeenBound, ClaimToken, TypeOK, NothingToClaim, Finish, Goto,
      stepRow
<1>9. ASSUME NEW h \in Handlers, ClaimStep(h)
      PROVE  SeenOpen'
  <2>1. CASE Applies(h)
    <3>1. ClaimEffect(h)
      BY <1>9, <2>1, ClaimApplied
    <3> QED
      BY <3>1 DEF SeenOpen, SeenBound, ClaimToken, TypeOK, ClaimEffect
  <2>2. CASE ~Applies(h)
    BY <1>9, <2>2
    DEF SeenOpen, SeenBound, ClaimToken, TypeOK, ClaimStep, Finish, Goto,
        stepRow, request
  <2> QED BY <2>1, <2>2
<1>10. ASSUME NEW h \in Handlers, UndoLock(h)
      PROVE  SeenOpen'
  BY <1>10
  DEF SeenOpen, SeenBound, ClaimToken, TypeOK, UndoLock, Release, Goto,
      stepRow
<1>11. ASSUME NEW h \in Handlers, NEW a \in Agents,
             NEW s \in Steps, NEW t \in Tokens, LoadStep(h, a, s, t)
      PROVE  SeenOpen'
  BY <1>11
  DEF SeenOpen, SeenBound, ClaimToken, TypeOK, LoadStep, Goto, stepRow
<1>12. ASSUME NEW h \in Handlers, CheckToken(h)
      PROVE  SeenOpen'
  BY <1>12
  DEF SeenOpen, SeenBound, ClaimToken, TypeOK, CheckToken, Finish, Goto,
      stepRow, request
<1>13. ASSUME NEW h \in Handlers, CompleteStep(h)
      PROVE  SeenOpen'
  <2>1. CASE Applies(h)
    <3>1. CompleteEffect(h)
      BY <1>13, <2>1, CompleteApplied
    <3> QED
      BY <3>1 DEF SeenOpen, SeenBound, ClaimToken, TypeOK, CompleteEffect
  <2>2. CASE ~Applies(h)
    BY <1>13, <2>2
    DEF SeenOpen, SeenBound, ClaimToken, TypeOK, CompleteStep, Finish,
        Goto, stepRow, request
  <2> QED BY <2>1, <2>2
<1>14. ASSUME NEW h \in Handlers, ReleaseStep(h)
      PROVE  SeenOpen'
  BY <1>14
  DEF SeenOpen, SeenBound, ClaimToken, TypeOK, ReleaseStep, Release, Goto,
      stepRow, request
<1>15. ASSUME NEW h \in Handlers, CloseBoard(h)
      PROVE  SeenOpen'
  BY <1>15
  DEF SeenOpen, SeenBound, ClaimToken, TypeOK, CloseBoard, Finish, Goto,
      stepRow
<1>16. ASSUME NEW h \in Handlers, CrashHandler(h)
      PROVE  SeenOpen'
  BY <1>16
  DEF SeenOpen, SeenBound, ClaimToken, TypeOK, CrashHandler, Finish, Goto,
      stepRow
<1>17. CASE UNCHANGED vars
  BY <1>17
  DEF SeenOpen, SeenBound, ClaimToken, TypeOK, vars, stepRow, request
<1> QED
  BY <1>1, <1>2, <1>3, <1>4, <1>5, <1>6, <1>7, <1>8, <1>9, <1>10, <1>11,
     <1>12, <1>13, <1>14, <1>15, <1>16, <1>17
  DEF Next, ClaimRequest, CompleteRequest

\* A row in progress carries a token that was drawn.
LEMMA HeldStep ==
  ASSUME ProgressHasToken, ClaimToken, SentToken, TypeOK, [Next]_vars
  PROVE  ProgressHasToken'
<1>1. CASE CreateBoard
  BY <1>1
  DEF ProgressHasToken, ClaimToken, TypeOK, CreateBoard, stepRow, request
<1>2. CASE CrashCreation
  BY <1>2
  DEF ProgressHasToken, ClaimToken, TypeOK, CrashCreation, stepRow, request
<1>3. ASSUME NEW r \in Steps, PostStep(r)
      PROVE  ProgressHasToken'
  BY <1>3 DEF ProgressHasToken, ClaimToken, TypeOK, PostStep, request
<1>4. ASSUME NEW r \in Steps, MutexExpires(r)
      PROVE  ProgressHasToken'
  BY <1>4
  DEF ProgressHasToken, ClaimToken, TypeOK, MutexExpires, stepRow, request
<1>5. ASSUME NEW r \in Steps, LeaseExpires(r)
      PROVE  ProgressHasToken'
  BY <1>5 DEF ProgressHasToken, ClaimToken, TypeOK, LeaseExpires, request
<1>6. ASSUME NEW h \in Handlers, NEW a \in Agents, ScanSteps(h, a)
      PROVE  ProgressHasToken'
  <2>1. \A s \in Candidates : s \in Steps /\ status[s] \in {"PENDING", "IN_PROGRESS"}
    BY DEF Candidates, Open
  <2> QED
    BY <1>6, <2>1
    DEF ProgressHasToken, ClaimToken, TypeOK, ScanSteps, Goto, stepRow
<1>7. ASSUME NEW h \in Handlers, LockStep(h)
      PROVE  ProgressHasToken'
  BY <1>7
  DEF ProgressHasToken, ClaimToken, TypeOK, LockStep, Next1, Goto, stepRow
<1>8. ASSUME NEW h \in Handlers, NothingToClaim(h)
      PROVE  ProgressHasToken'
  BY <1>8
  DEF ProgressHasToken, ClaimToken, TypeOK, NothingToClaim, Finish, Goto,
      stepRow
<1>9. ASSUME NEW h \in Handlers, ClaimStep(h)
      PROVE  ProgressHasToken'
  <2>1. CASE Applies(h)
    <3>1. ClaimEffect(h)
      BY <1>9, <2>1, ClaimApplied
    <3> QED
      BY <3>1 DEF ProgressHasToken, ClaimToken, TypeOK, ClaimEffect
  <2>2. CASE ~Applies(h)
    BY <1>9, <2>2
    DEF ProgressHasToken, ClaimToken, TypeOK, ClaimStep, Finish, Goto,
        stepRow, request
  <2> QED BY <2>1, <2>2
<1>10. ASSUME NEW h \in Handlers, UndoLock(h)
      PROVE  ProgressHasToken'
  BY <1>10
  DEF ProgressHasToken, ClaimToken, TypeOK, UndoLock, Release, Goto, stepRow
<1>11. ASSUME NEW h \in Handlers, NEW a \in Agents,
             NEW s \in Steps, NEW t \in Tokens, LoadStep(h, a, s, t)
      PROVE  ProgressHasToken'
  BY <1>11 DEF ProgressHasToken, ClaimToken, TypeOK, LoadStep, Goto, stepRow
<1>12. ASSUME NEW h \in Handlers, CheckToken(h)
      PROVE  ProgressHasToken'
  BY <1>12
  DEF ProgressHasToken, ClaimToken, TypeOK, CheckToken, Finish, Goto,
      stepRow, request
<1>13. ASSUME NEW h \in Handlers, CompleteStep(h)
      PROVE  ProgressHasToken'
  <2>1. CASE Applies(h)
    <3>1. CompleteEffect(h)
      BY <1>13, <2>1, CompleteApplied
    <3> QED
      BY <3>1 DEF ProgressHasToken, ClaimToken, TypeOK, CompleteEffect
  <2>2. CASE ~Applies(h)
    BY <1>13, <2>2
    DEF ProgressHasToken, ClaimToken, TypeOK, CompleteStep, Finish, Goto,
        stepRow, request
  <2> QED BY <2>1, <2>2
<1>14. ASSUME NEW h \in Handlers, ReleaseStep(h)
      PROVE  ProgressHasToken'
  BY <1>14
  DEF ProgressHasToken, ClaimToken, TypeOK, ReleaseStep, Release, Goto,
      stepRow, request
<1>15. ASSUME NEW h \in Handlers, CloseBoard(h)
      PROVE  ProgressHasToken'
  BY <1>15
  DEF ProgressHasToken, ClaimToken, TypeOK, CloseBoard, Finish, Goto,
      stepRow
<1>16. ASSUME NEW h \in Handlers, CrashHandler(h)
      PROVE  ProgressHasToken'
  BY <1>16
  DEF ProgressHasToken, ClaimToken, TypeOK, CrashHandler, Finish, Goto,
      stepRow
<1>17. CASE UNCHANGED vars
  BY <1>17 DEF ProgressHasToken, ClaimToken, TypeOK, vars, stepRow, request
<1> QED
  BY <1>1, <1>2, <1>3, <1>4, <1>5, <1>6, <1>7, <1>8, <1>9, <1>10, <1>11,
     <1>12, <1>13, <1>14, <1>15, <1>16, <1>17
  DEF Next, ClaimRequest, CompleteRequest

\* A claim under way that has locked a key has not been overtaken.
LEMMA LiveStep ==
  ASSUME LiveClaimIsSeen, SeenBound, ClaimToken, SentToken, TokensIssued, TypeOK, [Next]_vars
  PROVE  LiveClaimIsSeen'
<1>1. CASE CreateBoard
  BY <1>1
  DEF LiveClaimIsSeen, SeenBound, ClaimToken, TypeOK, CreateBoard, stepRow,
      request
<1>2. CASE CrashCreation
  BY <1>2
  DEF LiveClaimIsSeen, SeenBound, ClaimToken, TypeOK, CrashCreation,
      stepRow, request
<1>3. ASSUME NEW r \in Steps, PostStep(r)
      PROVE  LiveClaimIsSeen'
  BY <1>3
  DEF LiveClaimIsSeen, SeenBound, ClaimToken, TypeOK, PostStep, request
<1>4. ASSUME NEW r \in Steps, MutexExpires(r)
      PROVE  LiveClaimIsSeen'
  BY <1>4
  DEF LiveClaimIsSeen, SeenBound, ClaimToken, TypeOK, MutexExpires, stepRow,
      request, NoToken
<1>5. ASSUME NEW r \in Steps, LeaseExpires(r)
      PROVE  LiveClaimIsSeen'
  BY <1>5
  DEF LiveClaimIsSeen, SeenBound, ClaimToken, TypeOK, LeaseExpires, request
<1>6. ASSUME NEW h \in Handlers, NEW a \in Agents, ScanSteps(h, a)
      PROVE  LiveClaimIsSeen'
  <2>1. \A s \in Candidates : s \in Steps /\ status[s] \in {"PENDING", "IN_PROGRESS"}
    BY DEF Candidates, Open
  <2> QED
    BY <1>6, <2>1
    DEF LiveClaimIsSeen, SeenBound, ClaimToken, TypeOK, ScanSteps, Goto,
        stepRow
<1>7. ASSUME NEW h \in Handlers, LockStep(h)
      PROVE  LiveClaimIsSeen'
  BY <1>7
  DEF LiveClaimIsSeen, SeenBound, ClaimToken, TypeOK, LockStep, Next1, Goto,
      stepRow, TokensIssued
<1>8. ASSUME NEW h \in Handlers, NothingToClaim(h)
      PROVE  LiveClaimIsSeen'
  BY <1>8
  DEF LiveClaimIsSeen, SeenBound, ClaimToken, TypeOK, NothingToClaim,
      Finish, Goto, stepRow
<1>9. ASSUME NEW h \in Handlers, ClaimStep(h)
      PROVE  LiveClaimIsSeen'
  <2>1. CASE Applies(h)
    <3>1. ClaimEffect(h)
      BY <1>9, <2>1, ClaimApplied
    <3> QED
      BY <3>1
      DEF LiveClaimIsSeen, SeenBound, ClaimToken, TypeOK, ClaimEffect
  <2>2. CASE ~Applies(h)
    BY <1>9, <2>2
    DEF LiveClaimIsSeen, SeenBound, ClaimToken, TypeOK, ClaimStep, Finish,
        Goto, stepRow, request
  <2> QED BY <2>1, <2>2
<1>10. ASSUME NEW h \in Handlers, UndoLock(h)
      PROVE  LiveClaimIsSeen'
  BY <1>10
  DEF LiveClaimIsSeen, SeenBound, ClaimToken, TypeOK, UndoLock, Release,
      Goto, stepRow, NoToken
<1>11. ASSUME NEW h \in Handlers, NEW a \in Agents,
             NEW s \in Steps, NEW t \in Tokens, LoadStep(h, a, s, t)
      PROVE  LiveClaimIsSeen'
  BY <1>11
  DEF LiveClaimIsSeen, SeenBound, ClaimToken, TypeOK, LoadStep, Goto,
      stepRow
<1>12. ASSUME NEW h \in Handlers, CheckToken(h)
      PROVE  LiveClaimIsSeen'
  BY <1>12
  DEF LiveClaimIsSeen, SeenBound, ClaimToken, TypeOK, CheckToken, Finish,
      Goto, stepRow, request
<1>13. ASSUME NEW h \in Handlers, CompleteStep(h)
      PROVE  LiveClaimIsSeen'
  <2>1. CASE Applies(h)
    <3>1. CompleteEffect(h)
      BY <1>13, <2>1, CompleteApplied
    <3> QED
      BY <3>1
      DEF LiveClaimIsSeen, SeenBound, ClaimToken, TypeOK, CompleteEffect
  <2>2. CASE ~Applies(h)
    BY <1>13, <2>2
    DEF LiveClaimIsSeen, SeenBound, ClaimToken, TypeOK, CompleteStep,
        Finish, Goto, stepRow, request
  <2> QED BY <2>1, <2>2
<1>14. ASSUME NEW h \in Handlers, ReleaseStep(h)
      PROVE  LiveClaimIsSeen'
  BY <1>14
  DEF LiveClaimIsSeen, SeenBound, ClaimToken, TypeOK, ReleaseStep, Release,
      Goto, stepRow, request, NoToken
<1>15. ASSUME NEW h \in Handlers, CloseBoard(h)
      PROVE  LiveClaimIsSeen'
  BY <1>15
  DEF LiveClaimIsSeen, SeenBound, ClaimToken, TypeOK, CloseBoard, Finish,
      Goto, stepRow
<1>16. ASSUME NEW h \in Handlers, CrashHandler(h)
      PROVE  LiveClaimIsSeen'
  BY <1>16
  DEF LiveClaimIsSeen, SeenBound, ClaimToken, TypeOK, CrashHandler, Finish,
      Goto, stepRow
<1>17. CASE UNCHANGED vars
  BY <1>17
  DEF LiveClaimIsSeen, SeenBound, ClaimToken, TypeOK, vars, stepRow, request
<1> QED
  BY <1>1, <1>2, <1>3, <1>4, <1>5, <1>6, <1>7, <1>8, <1>9, <1>10, <1>11,
     <1>12, <1>13, <1>14, <1>15, <1>16, <1>17
  DEF Next, ClaimRequest, CompleteRequest

\* The agent that was given the key's token owns the row.
LEMMA MutexStep ==
  ASSUME MutexOwner, RequestOwner, LiveClaimIsSeen, SeenOpen, ClaimToken, SentToken, TokensIssued, TypeOK, [Next]_vars
  PROVE  MutexOwner'
<1>1. CASE CreateBoard
  BY <1>1 DEF MutexOwner, Owns, TypeOK, CreateBoard, stepRow, request
<1>2. CASE CrashCreation
  BY <1>2 DEF MutexOwner, Owns, TypeOK, CrashCreation, stepRow, request
<1>3. ASSUME NEW r \in Steps, PostStep(r)
      PROVE  MutexOwner'
  BY <1>3 DEF MutexOwner, Owns, TypeOK, PostStep, request
<1>4. ASSUME NEW r \in Steps, MutexExpires(r)
      PROVE  MutexOwner'
  BY <1>4
  DEF MutexOwner, Owns, TypeOK, MutexExpires, stepRow, request, NoToken,
      TokensIssued
<1>5. ASSUME NEW r \in Steps, LeaseExpires(r)
      PROVE  MutexOwner'
  BY <1>5 DEF MutexOwner, Owns, TypeOK, LeaseExpires, request
<1>6. ASSUME NEW h \in Handlers, NEW a \in Agents, ScanSteps(h, a)
      PROVE  MutexOwner'
  <2>1. \A s \in Candidates : s \in Steps /\ status[s] \in {"PENDING", "IN_PROGRESS"}
    BY DEF Candidates, Open
  <2> QED
    BY <1>6, <2>1 DEF MutexOwner, Owns, TypeOK, ScanSteps, Goto, stepRow
<1>7. ASSUME NEW h \in Handlers, LockStep(h)
      PROVE  MutexOwner'
  BY <1>7
  DEF MutexOwner, Owns, TypeOK, LockStep, Next1, Goto, stepRow, TokensIssued
<1>8. ASSUME NEW h \in Handlers, NothingToClaim(h)
      PROVE  MutexOwner'
  BY <1>8
  DEF MutexOwner, Owns, TypeOK, NothingToClaim, Finish, Goto, stepRow
<1>9. ASSUME NEW h \in Handlers, ClaimStep(h)
      PROVE  MutexOwner'
  <2>1. CASE Applies(h)
    <3>1. ClaimEffect(h)
      BY <1>9, <2>1, ClaimApplied
    <3> QED
      BY <3>1
      DEF MutexOwner, Owns, TypeOK, LiveClaimIsSeen, SeenOpen,
          ClaimToken, TokensIssued, NoToken, ClaimEffect
  <2>2. CASE ~Applies(h)
    BY <1>9, <2>2
    DEF MutexOwner, Owns, TypeOK, ClaimStep, Finish, Goto, stepRow,
        request, LiveClaimIsSeen, SeenOpen, ClaimToken, TokensIssued,
        NoToken
  <2> QED BY <2>1, <2>2
<1>10. ASSUME NEW h \in Handlers, UndoLock(h)
      PROVE  MutexOwner'
  BY <1>10
  DEF MutexOwner, Owns, TypeOK, UndoLock, Release, Goto, stepRow, NoToken,
      TokensIssued
<1>11. ASSUME NEW h \in Handlers, NEW a \in Agents,
             NEW s \in Steps, NEW t \in Tokens, LoadStep(h, a, s, t)
      PROVE  MutexOwner'
  BY <1>11 DEF MutexOwner, Owns, TypeOK, LoadStep, Goto, stepRow
<1>12. ASSUME NEW h \in Handlers, CheckToken(h)
      PROVE  MutexOwner'
  BY <1>12
  DEF MutexOwner, Owns, TypeOK, CheckToken, Finish, Goto, stepRow, request
<1>13. ASSUME NEW h \in Handlers, CompleteStep(h)
      PROVE  MutexOwner'
  <2>1. CASE Applies(h)
    <3>1. CompleteEffect(h)
      BY <1>13, <2>1, CompleteApplied
    <3> QED
      BY <3>1
      DEF MutexOwner, Owns, TypeOK, RequestOwner, SentToken,
          CompleteEffect
  <2>2. CASE ~Applies(h)
    BY <1>13, <2>2
    DEF MutexOwner, Owns, TypeOK, CompleteStep, Finish, Goto, stepRow,
        request, RequestOwner, SentToken
  <2> QED BY <2>1, <2>2
<1>14. ASSUME NEW h \in Handlers, ReleaseStep(h)
      PROVE  MutexOwner'
  BY <1>14
  DEF MutexOwner, Owns, TypeOK, ReleaseStep, Release, Goto, stepRow,
      request, NoToken, TokensIssued
<1>15. ASSUME NEW h \in Handlers, CloseBoard(h)
      PROVE  MutexOwner'
  BY <1>15 DEF MutexOwner, Owns, TypeOK, CloseBoard, Finish, Goto, stepRow
<1>16. ASSUME NEW h \in Handlers, CrashHandler(h)
      PROVE  MutexOwner'
  BY <1>16 DEF MutexOwner, Owns, TypeOK, CrashHandler, Finish, Goto, stepRow
<1>17. CASE UNCHANGED vars
  BY <1>17 DEF MutexOwner, Owns, TypeOK, vars, stepRow, request
<1> QED
  BY <1>1, <1>2, <1>3, <1>4, <1>5, <1>6, <1>7, <1>8, <1>9, <1>10, <1>11,
     <1>12, <1>13, <1>14, <1>15, <1>16, <1>17
  DEF Next, ClaimRequest, CompleteRequest

\* A completion past its token check owns the row, if its version is current.
LEMMA OwnerStep ==
  ASSUME RequestOwner, MutexOwner, SeenBound, SentToken, ClaimToken, TokensIssued, TypeOK, [Next]_vars
  PROVE  RequestOwner'
<1>1. CASE CreateBoard
  BY <1>1 DEF RequestOwner, Owns, TypeOK, CreateBoard, stepRow, request
<1>2. CASE CrashCreation
  BY <1>2 DEF RequestOwner, Owns, TypeOK, CrashCreation, stepRow, request
<1>3. ASSUME NEW r \in Steps, PostStep(r)
      PROVE  RequestOwner'
  BY <1>3 DEF RequestOwner, Owns, TypeOK, PostStep, request
<1>4. ASSUME NEW r \in Steps, MutexExpires(r)
      PROVE  RequestOwner'
  BY <1>4 DEF RequestOwner, Owns, TypeOK, MutexExpires, stepRow, request
<1>5. ASSUME NEW r \in Steps, LeaseExpires(r)
      PROVE  RequestOwner'
  BY <1>5 DEF RequestOwner, Owns, TypeOK, LeaseExpires, request
<1>6. ASSUME NEW h \in Handlers, NEW a \in Agents, ScanSteps(h, a)
      PROVE  RequestOwner'
  <2>1. \A s \in Candidates : s \in Steps /\ status[s] \in {"PENDING", "IN_PROGRESS"}
    BY DEF Candidates, Open
  <2> QED
    BY <1>6, <2>1 DEF RequestOwner, Owns, TypeOK, ScanSteps, Goto, stepRow
<1>7. ASSUME NEW h \in Handlers, LockStep(h)
      PROVE  RequestOwner'
  BY <1>7 DEF RequestOwner, Owns, TypeOK, LockStep, Next1, Goto, stepRow
<1>8. ASSUME NEW h \in Handlers, NothingToClaim(h)
      PROVE  RequestOwner'
  BY <1>8
  DEF RequestOwner, Owns, TypeOK, NothingToClaim, Finish, Goto, stepRow
<1>9. ASSUME NEW h \in Handlers, ClaimStep(h)
      PROVE  RequestOwner'
  <2>1. CASE Applies(h)
    <3>1. ClaimEffect(h)
      BY <1>9, <2>1, ClaimApplied
    <3> QED
      BY <3>1
      DEF RequestOwner, Owns, TypeOK, SeenBound, ClaimToken, ClaimEffect
  <2>2. CASE ~Applies(h)
    BY <1>9, <2>2
    DEF RequestOwner, Owns, TypeOK, ClaimStep, Finish, Goto, stepRow,
        request, SeenBound, ClaimToken
  <2> QED BY <2>1, <2>2
<1>10. ASSUME NEW h \in Handlers, UndoLock(h)
      PROVE  RequestOwner'
  BY <1>10 DEF RequestOwner, Owns, TypeOK, UndoLock, Release, Goto, stepRow
<1>11. ASSUME NEW h \in Handlers, NEW a \in Agents,
             NEW s \in Steps, NEW t \in Tokens, LoadStep(h, a, s, t)
      PROVE  RequestOwner'
  BY <1>11 DEF RequestOwner, Owns, TypeOK, LoadStep, Goto, stepRow
<1>12. ASSUME NEW h \in Handlers, CheckToken(h)
      PROVE  RequestOwner'
  <2>1. CASE pc' = [pc EXCEPT ![h] = "complete"]
    <3>1. UNCHANGED <<stepRow, step, seen, who, tok>> /\ mutex[step[h]] = tok[h]
      BY <1>12, <2>1 DEF TypeOK, CheckToken, Finish, Goto, request
    <3>2. Owns(who[h], step[h], tok[h])
      BY <1>12, <3>1 DEF CheckToken, SentToken, MutexOwner
    <3>3. Owns(who[h], step[h], tok[h])'
      BY <3>1, <3>2 DEF Owns, stepRow
    <3> QED BY <2>1, <3>1, <3>3 DEF RequestOwner, Owns, TypeOK, stepRow
  <2>2. CASE Finish(h) /\ UNCHANGED stepRow
    BY <2>2 DEF RequestOwner, Owns, TypeOK, Finish, Goto, stepRow
  <2> QED BY <1>12, <2>1, <2>2 DEF CheckToken, Goto
<1>13. ASSUME NEW h \in Handlers, CompleteStep(h)
      PROVE  RequestOwner'
  <2>1. CASE Applies(h)
    <3>1. CompleteEffect(h)
      BY <1>13, <2>1, CompleteApplied
    <3> QED
      BY <3>1
      DEF RequestOwner, Owns, TypeOK, SeenBound, SentToken,
          CompleteEffect
  <2>2. CASE ~Applies(h)
    BY <1>13, <2>2
    DEF RequestOwner, Owns, TypeOK, CompleteStep, Finish, Goto, stepRow,
        request, SeenBound, SentToken
  <2> QED BY <2>1, <2>2
<1>14. ASSUME NEW h \in Handlers, ReleaseStep(h)
      PROVE  RequestOwner'
  BY <1>14
  DEF RequestOwner, Owns, TypeOK, ReleaseStep, Release, Goto, stepRow,
      request
<1>15. ASSUME NEW h \in Handlers, CloseBoard(h)
      PROVE  RequestOwner'
  BY <1>15 DEF RequestOwner, Owns, TypeOK, CloseBoard, Finish, Goto, stepRow
<1>16. ASSUME NEW h \in Handlers, CrashHandler(h)
      PROVE  RequestOwner'
  BY <1>16
  DEF RequestOwner, Owns, TypeOK, CrashHandler, Finish, Goto, stepRow
<1>17. CASE UNCHANGED vars
  BY <1>17 DEF RequestOwner, Owns, TypeOK, vars, stepRow, request
<1> QED
  BY <1>1, <1>2, <1>3, <1>4, <1>5, <1>6, <1>7, <1>8, <1>9, <1>10, <1>11,
     <1>12, <1>13, <1>14, <1>15, <1>16, <1>17
  DEF Next, ClaimRequest, CompleteRequest

-----------------------------------------------------------------------------
\* The invariant holds before the board exists.
LEMMA InitInv == Init => BoardInv
<1> SUFFICES ASSUME Init PROVE BoardInv
  OBVIOUS
<1>1. TypeOK
  BY DEF Init, TypeOK, StepStatus, PCs, NoToken
<1>2. TokensIssued /\ MutexOwner
  BY DEF Init, TokensIssued, MutexOwner, NoToken
<1>3. ClaimToken /\ SentToken /\ SeenBound /\ SeenOpen /\ ProgressHasToken
  BY DEF Init, ClaimToken, SentToken, SeenBound, SeenOpen, ProgressHasToken
<1>4. LiveClaimIsSeen /\ RequestOwner
  BY DEF Init, LiveClaimIsSeen, RequestOwner
<1> QED BY <1>1, <1>2, <1>3, <1>4 DEF BoardInv

\* The inductive invariant holds of every behaviour of the blackboard's routes.
THEOREM InvHolds == Spec => []BoardInv
<1>1. BoardInv /\ [Next]_vars => BoardInv'
  BY TypeStep, IssuedStep, ClaimTokenStep, SentTokenStep, SeenStep, OpenStep,
     HeldStep, LiveStep, MutexStep, OwnerStep
  DEF BoardInv
<1> QED BY <1>1, InitInv, PTL DEF Spec

\* The variables of the board, the steps and the requests keep their types.
THEOREM TypeCorrect == Spec => []TypeOK
<1>1. BoardInv => TypeOK
  BY DEF BoardInv
<1> QED BY <1>1, InvHolds, PTL

-----------------------------------------------------------------------------
\* The rows of the steps change in three ways only.
LEMMA RowSteps ==
  ASSUME BoardInv, [Next]_vars, NEW s \in Steps,
         <<status[s], claimant[s], lockToken[s]>>' # <<status[s], claimant[s], lockToken[s]>>
  PROVE  \/ status[s] = "NONE"
         \/ \E h \in Handlers : step[h] = s /\ (ClaimEffect(h) \/ CompleteEffect(h))
<1>1. ASSUME NEW h \in Handlers, ClaimStep(h)
      PROVE  step[h] = s /\ ClaimEffect(h)
  <2>1. Applies(h)
    BY <1>1 DEF ClaimStep, stepRow
  <2>2. ClaimEffect(h)
    BY <1>1, <2>1, ClaimApplied DEF BoardInv
  <2>3. TypeOK
    BY DEF BoardInv
  <2> QED BY <2>2, <2>3 DEF ClaimEffect, TypeOK
<1>2. ASSUME NEW h \in Handlers, CompleteStep(h)
      PROVE  step[h] = s /\ CompleteEffect(h)
  <2>1. Applies(h)
    BY <1>2 DEF CompleteStep, stepRow
  <2>2. CompleteEffect(h)
    BY <1>2, <2>1, CompleteApplied DEF BoardInv
  <2>3. TypeOK
    BY DEF BoardInv
  <2> QED BY <2>2, <2>3 DEF CompleteEffect, TypeOK
<1>3. ASSUME NEW r \in Steps, PostStep(r)
      PROVE  status[s] = "NONE"
  BY <1>3 DEF PostStep, BoardInv, TypeOK
<1> QED
  BY <1>1, <1>2, <1>3, ZenonT(40)
  DEF Next, ClaimRequest, CompleteRequest, CreateBoard, CrashCreation,
      MutexExpires, LeaseExpires, ScanSteps, LockStep, NothingToClaim, UndoLock,
      LoadStep, CheckToken, ReleaseStep, CloseBoard, CrashHandler, stepRow, vars

\* A completed step is never claimed again and keeps the agent that completed it.
THEOREM CompletedSteps == Spec => CompletedIsFinal
<1>1. BoardInv /\ [Next]_vars =>
        \A s \in Steps : status[s] = "COMPLETED" =>
          status'[s] = "COMPLETED" /\ claimant'[s] = claimant[s]
  <2> SUFFICES ASSUME BoardInv, [Next]_vars,
                      NEW s \in Steps, status[s] = "COMPLETED"
               PROVE  status'[s] = "COMPLETED" /\ claimant'[s] = claimant[s]
    OBVIOUS
  <2>1. ASSUME NEW h \in Handlers, step[h] = s
        PROVE  ~ClaimEffect(h)
    BY <2>1 DEF ClaimEffect, BoardInv, SeenOpen
  <2>2. ASSUME NEW h \in Handlers, step[h] = s, CompleteEffect(h)
        PROVE  status'[s] = "COMPLETED" /\ claimant'[s] = claimant[s]
    <3>1. Owns(who[h], s, tok[h]) /\ TypeOK
      BY <2>2 DEF CompleteEffect, BoardInv, RequestOwner
    <3> QED BY <2>2, <3>1 DEF Owns, CompleteEffect, TypeOK
  <2> QED BY <2>1, <2>2, RowSteps
<1> QED BY <1>1, InvHolds, PTL DEF Spec, CompletedIsFinal

\* A claim whose key still lives is not handed to a second request.
THEOREM LiveClaims == Spec => LiveClaimIsKept
<1>1. BoardInv /\ [Next]_vars =>
        \A s \in Steps : status[s] = "IN_PROGRESS" /\ lockToken[s] = mutex[s] =>
          lockToken'[s] = lockToken[s] \/ status'[s] = "COMPLETED"
  <2> SUFFICES ASSUME BoardInv, [Next]_vars, NEW s \in Steps,
                      status[s] = "IN_PROGRESS", lockToken[s] = mutex[s]
               PROVE  lockToken'[s] = lockToken[s] \/ status'[s] = "COMPLETED"
    OBVIOUS
  <2>1. mutex[s] >= 1 /\ TypeOK
    BY DEF BoardInv, ProgressHasToken
  <2>2. ASSUME NEW h \in Handlers, step[h] = s
        PROVE  ~ClaimEffect(h)
    BY <2>1, <2>2 DEF ClaimEffect, BoardInv, LiveClaimIsSeen, TypeOK
  <2>3. ASSUME NEW h \in Handlers, step[h] = s, CompleteEffect(h)
        PROVE  status'[s] = "COMPLETED"
    BY <2>1, <2>3 DEF CompleteEffect, TypeOK
  <2> QED BY <2>2, <2>3, RowSteps
<1> QED BY <1>1, InvHolds, PTL DEF Spec, LiveClaimIsKept

\* A step is completed only with the token of its last claim.
THEOREM LastClaims == Spec => CompletedByLastClaim
<1>1. BoardInv /\ [Next]_vars =>
        \A s \in Steps : status[s] = "IN_PROGRESS" /\ status'[s] = "COMPLETED" =>
          <<s, lockToken[s]>> \in given[claimant'[s]]
  <2> SUFFICES ASSUME BoardInv, [Next]_vars, NEW s \in Steps,
                      status[s] = "IN_PROGRESS", status'[s] = "COMPLETED"
               PROVE  <<s, lockToken[s]>> \in given[claimant'[s]]
    OBVIOUS
  <2>1. TypeOK
    BY DEF BoardInv
  <2>2. PICK h \in Handlers : step[h] = s /\ CompleteEffect(h)
    BY <2>1, RowSteps DEF ClaimEffect, TypeOK
  <2>3. Owns(who[h], s, tok[h])
    BY <2>2 DEF CompleteEffect, BoardInv, RequestOwner
  <2> QED BY <2>1, <2>2, <2>3 DEF Owns, CompleteEffect, TypeOK
<1> QED BY <1>1, InvHolds, PTL DEF Spec, CompletedByLastClaim

-----------------------------------------------------------------------------
\* The board.

\* The steps that create, post or close the board, and those that count a fault.
BoardEffect ==
  /\ board' = board \/ CreateBoard \/ \E h \in Handlers : CloseBoard(h)
  /\ (creating' <=> creating) \/ CreateBoard \/ CrashCreation \/ \E s \in Steps : PostStep(s)
  /\ faults' \in Nat /\ faults' >= faults

LEMMA BoardSteps ==
  ASSUME TypeOK, [Next]_vars
  PROVE  BoardEffect
<1>0. faults \in Nat
  BY DEF TypeOK
<1>1. CASE CreateBoard \/ CrashCreation
  <2>1. CASE CreateBoard
    BY <1>0, <2>1 DEF CreateBoard, BoardEffect
  <2>2. CASE CrashCreation
    <3>1. board' = board /\ faults' \in Nat /\ faults' >= faults
      BY <1>0, <2>2 DEF CrashCreation
    <3> QED
      BY <2>2, <3>1, Zenon DEF BoardEffect
  <2> QED
    BY <1>1, <2>1, <2>2
<1>2. ASSUME NEW s \in Steps, PostStep(s) \/ MutexExpires(s) \/ LeaseExpires(s)
      PROVE  BoardEffect
  <2>1. CASE PostStep(s)
    <3>1. board' = board /\ faults' \in Nat /\ faults' >= faults
      BY <1>0, <2>1 DEF PostStep
    <3> QED
      BY <2>1, <3>1, Zenon DEF BoardEffect
  <2>2. CASE MutexExpires(s) \/ LeaseExpires(s)
    BY <1>0, <2>2 DEF MutexExpires, LeaseExpires, BoardEffect
  <2> QED
    BY <1>2, <2>1, <2>2
<1>3. ASSUME NEW h \in Handlers, ClaimRequest(h)
      PROVE  BoardEffect
  <2>1. UNCHANGED <<board, creating>>
    <3>1. ASSUME NEW a \in Agents, ScanSteps(h, a)
          PROVE  UNCHANGED <<board, creating>>
      BY <3>1 DEF ScanSteps
    <3>2. CASE LockStep(h)
      BY <3>2 DEF LockStep
    <3>3. CASE NothingToClaim(h)
      BY <3>3 DEF NothingToClaim
    <3>4. CASE ClaimStep(h)
      BY <3>4 DEF ClaimStep
    <3>5. CASE UndoLock(h)
      BY <3>5 DEF UndoLock
    <3> QED
      BY <1>3, <3>1, <3>2, <3>3, <3>4, <3>5 DEF ClaimRequest
  <2>2. faults' \in Nat /\ faults' >= faults
    <3>1. ASSUME NEW a \in Agents, ScanSteps(h, a)
          PROVE  faults' = faults
      BY <3>1 DEF ScanSteps
    <3>2. CASE LockStep(h)
      BY <1>0, <3>2 DEF LockStep
    <3>3. CASE NothingToClaim(h)
      BY <1>0, <3>3 DEF NothingToClaim
    <3>4. CASE ClaimStep(h)
      BY <1>0, <3>4 DEF ClaimStep
    <3>5. CASE UndoLock(h)
      BY <1>0, <3>5 DEF UndoLock, Release
    <3> QED
      BY <1>0, <1>3, <3>1, <3>2, <3>3, <3>4, <3>5 DEF ClaimRequest
  <2> QED
    BY <2>1, <2>2 DEF BoardEffect
<1>4. ASSUME NEW h \in Handlers, CompleteRequest(h)
      PROVE  BoardEffect
  <2>1. CASE CloseBoard(h)
    BY <1>0, <2>1 DEF CloseBoard, BoardEffect
  <2>2. ASSUME NEW a \in Agents, NEW s \in Steps, NEW t \in Tokens, LoadStep(h, a, s, t)
        PROVE  BoardEffect
    BY <1>0, <2>2 DEF LoadStep, BoardEffect
  <2>3. CASE CheckToken(h)
    BY <1>0, <2>3 DEF CheckToken, BoardEffect
  <2>4. CASE CompleteStep(h)
    BY <1>0, <2>4 DEF CompleteStep, BoardEffect
  <2>5. CASE ReleaseStep(h)
    BY <1>0, <2>5 DEF ReleaseStep, Release, BoardEffect
  <2> QED
    BY <1>4, <2>1, <2>2, <2>3, <2>4, <2>5 DEF CompleteRequest
<1>5. ASSUME NEW h \in Handlers, CrashHandler(h)
      PROVE  BoardEffect
  BY <1>0, <1>5 DEF CrashHandler, BoardEffect
<1>6. CASE UNCHANGED vars
  BY <1>0, <1>6 DEF vars, BoardEffect
<1> QED
  BY <1>1, <1>2, <1>3, <1>4, <1>5, <1>6 DEF Next

\* Nobody works on a board that is not posted, unless agents may find it early.
Unposted ==
  board = "NONE" \/ creating =>
    (\A h \in Handlers : pc[h] = "idle") /\ (\A a \in Agents : given[a] = {})

LEMMA UnpostedStep ==
  ASSUME BoardInv, Unposted, ~EarlyClaims, [Next]_vars
  PROVE  Unposted'
<1>1. TypeOK
  BY DEF BoardInv
<1>2. CASE board = "NONE" \/ creating
  <2>1. /\ \A h \in Handlers : pc[h] = "idle"
        /\ \A a \in Agents : given[a] = {}
    BY <1>2 DEF Unposted
  <2>2. ASSUME NEW h \in Handlers, ClaimRequest(h) \/ CompleteRequest(h) \/ CrashHandler(h)
        PROVE  FALSE
    <3>1. ~ClaimRequest(h)
      BY <1>2, <2>1
      DEF ClaimRequest, ScanSteps, LockStep, NothingToClaim, ClaimStep, UndoLock
    <3>2. ~CompleteRequest(h) /\ ~CrashHandler(h)
      BY <2>1
      DEF CompleteRequest, LoadStep, CheckToken, CompleteStep, ReleaseStep, CloseBoard,
          CrashHandler
    <3> QED
      BY <2>2, <3>1, <3>2
  <2>3. pc' = pc /\ given' = given
    BY <2>2 DEF Next, CreateBoard, CrashCreation, PostStep, MutexExpires, LeaseExpires, vars
  <2> QED
    BY <2>1, <2>3 DEF Unposted
<1>3. CASE board # "NONE" /\ ~creating
  <2>1. board' # "NONE" /\ ~creating'
    <3>1. ~CreateBoard /\ ~CrashCreation /\ \A s \in Steps : ~PostStep(s)
      BY <1>3 DEF CreateBoard, CrashCreation, PostStep
    <3>2. ~creating'
      BY <1>1, <1>3, <3>1, BoardSteps, Zenon DEF BoardEffect
    <3>3. ASSUME NEW h \in Handlers, CloseBoard(h)
          PROVE  board' # "NONE"
      BY <1>3, <3>3 DEF CloseBoard
    <3>4. board' # "NONE"
      BY <1>1, <1>3, <3>1, <3>3, BoardSteps, Zenon DEF BoardEffect
    <3> QED
      BY <3>2, <3>4
  <2> QED
    BY <2>1 DEF Unposted
<1> QED
  BY <1>2, <1>3

\* Open steps stay open until one is completed, and a claim opens none.
LEMMA OpenSteps ==
  ASSUME BoardInv, [Next]_vars
  PROVE  \/ Open' = Open
         \/ \E h \in Handlers : CompleteEffect(h)
         \/ \E s \in Steps : PostStep(s) /\ s \in Open' /\ Open \subseteq Open'
<1>1. TypeOK
  BY DEF BoardInv
<1>2. CASE status' = status
  BY <1>2 DEF Open
<1>3. ASSUME NEW s \in Steps, PostStep(s)
      PROVE  s \in Open' /\ Open \subseteq Open'
  BY <1>1, <1>3 DEF PostStep, Open, TypeOK
<1>4. ASSUME NEW h \in Handlers, ClaimStep(h), status' # status
      PROVE  Open' = Open
  <2>1. Applies(h)
    BY <1>4 DEF ClaimStep, stepRow
  <2>2. ClaimEffect(h)
    BY <1>4, <2>1, ClaimApplied DEF BoardInv
  <2>3. status[step[h]] \in {"PENDING", "IN_PROGRESS"}
    BY <2>2 DEF ClaimEffect, BoardInv, SeenOpen
  <2> QED
    BY <1>1, <2>2, <2>3 DEF ClaimEffect, Open, TypeOK
<1>5. ASSUME NEW h \in Handlers, CompleteStep(h), status' # status
      PROVE  CompleteEffect(h)
  <2>1. Applies(h)
    BY <1>5 DEF CompleteStep, stepRow
  <2> QED
    BY <1>5, <2>1, CompleteApplied DEF BoardInv
<1>6. \/ status' = status
      \/ \E s \in Steps : PostStep(s)
      \/ \E h \in Handlers : ClaimStep(h) \/ CompleteStep(h)
  <2>1. ASSUME NEW h \in Handlers, ClaimRequest(h), ~ClaimStep(h)
        PROVE  status' = status
    BY <2>1
    DEF ClaimRequest, ScanSteps, LockStep, NothingToClaim, UndoLock, stepRow
  <2>2. ASSUME NEW h \in Handlers, CompleteRequest(h), ~CompleteStep(h)
        PROVE  status' = status
    BY <2>2
    DEF CompleteRequest, LoadStep, CheckToken, ReleaseStep, CloseBoard, stepRow
  <2>3. ASSUME NEW h \in Handlers, CrashHandler(h)
        PROVE  status' = status
    BY <2>3 DEF CrashHandler, stepRow
  <2>4. ASSUME NEW s \in Steps, MutexExpires(s) \/ LeaseExpires(s)
        PROVE  status' = status
    BY <2>4 DEF MutexExpires, LeaseExpires, stepRow
  <2>5. CreateBoard \/ CrashCreation => status' = status
    BY DEF CreateBoard, CrashCreation, stepRow
  <2> QED
    BY <2>1, <2>2, <2>3, <2>4, <2>5 DEF Next, vars, stepRow
<1> QED
  BY <1>2, <1>3, <1>4, <1>5, <1>6

LEMMA DoneStep ==
  ASSUME BoardInv, Unposted, BoardCompletedIsDone, [Next]_vars
  PROVE  BoardCompletedIsDone'
<1>1. CASE board = "COMPLETED"
  <2>1. ~creating /\ Open = {}
    BY <1>1 DEF BoardCompletedIsDone
  <2>2. board' = board /\ ~creating'
    <3>1. ~CreateBoard /\ ~CrashCreation /\ \A s \in Steps : ~PostStep(s)
      BY <1>1, <2>1 DEF CreateBoard, CrashCreation, PostStep
    <3>2. \A h \in Handlers : CloseBoard(h) => board' = board
      BY <1>1, <2>1 DEF CloseBoard
    <3> QED
      BY <2>1, <3>1, <3>2, BoardSteps, Zenon DEF BoardInv, BoardEffect
  <2>3. ASSUME NEW h \in Handlers, CompleteEffect(h)
        PROVE  Open' = {}
    BY <2>1, <2>3 DEF CompleteEffect, Open, BoardInv, TypeOK
  <2>4. \A s \in Steps : ~PostStep(s)
    BY <2>1 DEF PostStep
  <2> QED
    BY <2>1, <2>2, <2>3, <2>4, OpenSteps DEF BoardCompletedIsDone
<1>2. CASE board # "COMPLETED"
  <2>1. ASSUME NEW h \in Handlers, CloseBoard(h)
        PROVE  BoardCompletedIsDone'
    <3>1. ~creating
      BY <2>1 DEF CloseBoard, Unposted
    <3>2. board' = IF Open = {} THEN "COMPLETED" ELSE board
      BY <2>1 DEF CloseBoard
    <3>3. creating' = creating /\ status' = status
      BY <2>1 DEF CloseBoard, stepRow
    <3> QED
      BY <1>2, <3>1, <3>2, <3>3 DEF BoardCompletedIsDone, Open
  <2>2. ASSUME board' = "COMPLETED"
        PROVE  \E h \in Handlers : CloseBoard(h)
    BY <1>2, <2>2, BoardSteps DEF BoardInv, BoardEffect, CreateBoard
  <2> QED
    BY <2>1, <2>2 DEF BoardCompletedIsDone
<1> QED
  BY <1>1, <1>2

\* A board that createBlackboardSession hands out when it is complete is closed
\* only once every step is completed, and none is posted or opened afterwards.
THEOREM CompletedBoard ==
  ASSUME ~EarlyClaims
  PROVE  Spec => []BoardCompletedIsDone
<1>1. Init => Unposted /\ BoardCompletedIsDone
  BY DEF Init, Unposted, BoardCompletedIsDone
<1>2. BoardInv /\ Unposted /\ BoardCompletedIsDone /\ [Next]_vars =>
        Unposted' /\ BoardCompletedIsDone'
  BY UnpostedStep, DoneStep
<1> QED
  BY <1>1, <1>2, InvHolds, PTL DEF Spec

\* Who is about to close the board.
Closing(h) == pc[h] \in {"release", "close"}

LEMMA ClosingStep ==
  ASSUME BoardInv, BoardGetsClosed, [Next]_vars
  PROVE  BoardGetsClosed'
<1> SUFFICES ASSUME board' = "ACTIVE", ~creating', NumSteps > 0, Open' = {}
             PROVE  faults' > 0 \/ \E h \in Handlers : Closing(h)'
  BY DEF BoardGetsClosed, Closing
<1>1. TypeOK
  BY DEF BoardInv
<1>2. /\ faults' \in Nat /\ faults \in Nat
      /\ faults' >= faults /\ (faults' = faults \/ faults' > 0)
  BY <1>1, BoardSteps DEF BoardEffect, TypeOK
<1>3. CASE faults > 0
  BY <1>2, <1>3
<1>4. CASE \E h \in Handlers : CompleteEffect(h)
  BY <1>1, <1>4 DEF CompleteEffect, Closing, TypeOK
<1>5. CASE Open' = Open /\ faults = 0 /\ faults' = faults
  <2>1. board = "ACTIVE" /\ ~creating
    <3>1. ~CreateBoard
      BY DEF CreateBoard
    <3>2. ~CrashCreation
      BY <1>1, <1>5 DEF CrashCreation, TypeOK
    <3>3. ASSUME NEW s \in Steps, PostStep(s) PROVE FALSE
      BY <1>1, <3>3 DEF PostStep, Open, TypeOK
    <3>4. ASSUME NEW h \in Handlers, CloseBoard(h) PROVE board = "ACTIVE" /\ ~creating
      BY <3>4 DEF CloseBoard
    <3>5. board' = board \/ (board = "ACTIVE" /\ ~creating)
      BY <1>1, <3>1, <3>2, <3>3, <3>4, BoardSteps DEF BoardEffect
    <3>6. creating' <=> creating
      BY <1>1, <3>1, <3>2, <3>3, <3>4, BoardSteps DEF BoardEffect
    <3> QED
      BY <3>5, <3>6
  <2>2. PICK h \in Handlers : Closing(h)
    BY <1>5, <2>1 DEF BoardGetsClosed, Closing
  <2>3. ASSUME CloseBoard(h) PROVE FALSE
    BY <1>5, <2>3 DEF CloseBoard
  <2>4. ASSUME NEW g \in Handlers, g # h, ClaimRequest(g) \/ CompleteRequest(g)
        PROVE  pc'[h] = pc[h]
    <3>1. ClaimRequest(g) => pc'[h] = pc[h]
      BY <1>1, <2>4
      DEF ClaimRequest, ScanSteps, LockStep, NothingToClaim, ClaimStep, UndoLock, Goto,
          Finish, TypeOK
    <3>2. CompleteRequest(g) => pc'[h] = pc[h]
      BY <1>1, <2>4
      DEF CompleteRequest, LoadStep, CheckToken, CompleteStep, ReleaseStep, CloseBoard, Goto,
          Finish, TypeOK
    <3> QED
      BY <2>4, <3>1, <3>2
  <2>5. ASSUME ClaimRequest(h) \/ CompleteRequest(h)
        PROVE  Closing(h)'
    <3>1. ~ClaimRequest(h)
      BY <2>2
      DEF ClaimRequest, ScanSteps, LockStep, NothingToClaim, ClaimStep, UndoLock, Closing
    <3>2. ReleaseStep(h)
      BY <2>2, <2>3, <2>5, <3>1
      DEF CompleteRequest, LoadStep, CheckToken, CompleteStep, Closing
    <3> QED
      BY <1>1, <3>2 DEF ReleaseStep, Goto, Closing, TypeOK
  <2>6. \A g \in Handlers : ~CrashHandler(g)
    BY <1>1, <1>5 DEF CrashHandler, TypeOK
  <2> QED
    BY <2>2, <2>4, <2>5, <2>6
    DEF Next, CreateBoard, CrashCreation, PostStep, MutexExpires, LeaseExpires, Closing, vars
<1>6. ASSUME NEW s \in Steps, PostStep(s), s \in Open'
      PROVE  FALSE
  BY <1>6
<1> QED
  BY <1>1, <1>2, <1>3, <1>4, <1>5, <1>6, OpenSteps DEF TypeOK

\* When the last step is completed somebody is about to close the board, however
\* the completions of the last steps overlap, unless a request died.
THEOREM BoardClosed == Spec => []BoardGetsClosed
<1>1. Init => BoardGetsClosed
  BY DEF Init, BoardGetsClosed
<1>2. BoardInv /\ BoardGetsClosed /\ [Next]_vars => BoardGetsClosed'
  BY ClosingStep
<1> QED
  BY <1>1, <1>2, InvHolds, PTL DEF Spec

=============================================================================
