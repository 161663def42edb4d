--------------------------- MODULE AgentRunProofs ---------------------------
(***************************************************************************)
(* What holds of AgentRun for every number of tabs, requests, texts, mails,  *)
(* timeouts and faults.                                                    *)
(***************************************************************************)
EXTENDS AgentRun, FiniteSetTheorems, TLAPS

-----------------------------------------------------------------------------
\* The parts of the inductive invariant.

\* A tab shows what it was shown, and an approval that names a draft is of one
\* the tab was shown.
NamedIsShown ==
  /\ \A c \in Clients : pending[c] # NoDraft => pending[c] \in shown[c]
  /\ \A q \in Requests :
       req[q].op = "confirm" /\ req[q].named
         /\ req[q].pc \in {"think", "tools", "log"} =>
         req[q].text \in shown[req[q].by] \cup {NoDraft}

\* Where a mail may have been sent, and what is answered then.
MailOf(r) ==
  /\ r.pc = "idle" => r.sent = 0 /\ ~ r.open
  /\ r.pc # "idle" => r.by \in Clients
  /\ r.waits => r.open
  /\ r.pc = "telemetry" => r.open
  /\ r.pc \in {"think", "tools"} => r.sent = 0 /\ ~ r.lost
  /\ r.pc = "tools" => r.op \in {"confirm", "send"} /\ r.text # NoDraft
  /\ r.pc = "log" => r.sent = 1 /\ r.op \in {"confirm", "send"}
                      /\ r.text # NoDraft
  /\ r.pc \in {"end", "telemetry"} =>
       /\ r.sent \in {0, 1}
       /\ r.sent = 1 => r.op \in {"confirm", "send"}
       /\ r.op # "read" /\ ~ r.lost => (r.status = "completed" <=> r.sent = 1)
Mails == \A q \in Requests : MailOf(req[q])

\* A tab waits for one request at a time.
OneWait ==
  \A p, q \in Requests :
    req[p].waits /\ req[q].waits /\ req[p].by = req[q].by => p = q

\* A tab whose draft was mailed, and that was told all it asked, waits for the
\* answer of the request that mailed it.
SendsAwaited ==
  \A c \in Clients : sends[c] > 0 /\ c \notin excused =>
    /\ sends[c] = 1
    /\ \E q \in Requests : /\ req[q].by = c /\ req[q].waits /\ req[q].sent = 1
                           /\ req[q].pc \in {"log", "end", "telemetry"}

Opened == {q \in Requests : req[q].open}

Counted == inflight = Cardinality(Opened)

\* The guard counts the open requests.
Guarded == Counted /\ inflight <= MaxInflight

IInv == TypeOK /\ NamedIsShown /\ Mails /\ OneWait /\ SendsAwaited /\ Guarded

-----------------------------------------------------------------------------
\* A request is put in its place.
LEMMA PutTyped ==
  ASSUME TypeOK, NEW q \in Requests, NEW r \in RequestType, Put(q, r)
  PROVE  req' \in [Requests -> RequestType]
  BY DEF TypeOK, Put

LEMMA FreeTyped == Free \in RequestType
  BY DEF Free, RequestType, Drafts, Pcs, Ops, Statuses

LEMMA RequestTyped ==
  ASSUME TypeOK, NEW q \in Requests
  PROVE  req[q] \in RequestType
  BY DEF TypeOK

\* The ways in which an engine moves on are typed.
LEMMA RespondTyped ==
  ASSUME TypeOK, NEW q \in Requests, NEW s \in Statuses, NEW d \in Drafts,
         NEW t \in Drafts, Respond(q, s, d, t)
  PROVE  req' \in [Requests -> RequestType]
<1> DEFINE r == [req[q] EXCEPT !.pc = "end", !.status = s, !.draft = d, !.text = t]
<1>1. r \in RequestType
  BY RequestTyped DEF RequestType, Pcs
<1>2. Put(q, r)
  BY DEF Respond
<1> HIDE DEF r
<1> QED
  BY <1>1, <1>2, PutTyped

LEMMA CallTyped ==
  ASSUME TypeOK, NEW q \in Requests, NEW d \in Drafts, Call(q, d)
  PROVE  req' \in [Requests -> RequestType]
<1> DEFINE r == [req[q] EXCEPT !.pc = "tools", !.tries = 1, !.text = d]
<1>1. r \in RequestType
  BY RequestTyped DEF RequestType, Pcs
<1>2. Put(q, r)
  BY DEF Call
<1> HIDE DEF r
<1> QED
  BY <1>1, <1>2, PutTyped

LEMMA ToolFailsTyped ==
  ASSUME TypeOK, NEW q \in Requests, NEW r \in RequestType, NEW code,
         ToolFails(q, code, r)
  PROVE  req' \in [Requests -> RequestType]
<1> DEFINE f == IF Retryable(code) /\ r.tries < RetryAttempts
                THEN [r EXCEPT !.tries = @ + 1]
                ELSE [r EXCEPT !.pc = "end", !.status = "error", !.text = NoDraft]
<1>1. [r EXCEPT !.tries = @ + 1] \in RequestType
  BY DEF RequestType
<1>2. [r EXCEPT !.pc = "end", !.status = "error", !.text = NoDraft] \in RequestType
  BY DEF RequestType, Pcs, Statuses, Drafts
<1>3. f \in RequestType
  BY <1>1, <1>2
<1>4. Put(q, f)
  BY DEF ToolFails
<1> HIDE DEF f
<1> QED
  BY <1>3, <1>4, PutTyped

\* What the tool call of a mail that is sent makes of its request: the provider
\* said so, or was not heard, which is not tried again.
Said(r)    == [r EXCEPT !.pc = "log", !.sent = @ + 1]
Unheard(r) == [r EXCEPT !.sent = @ + 1, !.lost = TRUE, !.pc = "end",
                        !.status = "error", !.text = NoDraft]

LEMMA SentTyped ==
  ASSUME NEW r \in RequestType
  PROVE  Said(r) \in RequestType /\ Unheard(r) \in RequestType
<1>1. r.sent + 1 \in Nat
  BY DEF RequestType
<1> QED
  BY <1>1 DEF Said, Unheard, RequestType, Pcs, Statuses, Drafts

LEMMA DeliverPuts ==
  ASSUME NEW q \in Requests, Deliver(q)
  PROVE  Put(q, Said(req[q])) \/ Put(q, Unheard(req[q]))
<1>1. ~ Retryable("TOOL_EXECUTION_FAILED")
  BY DEF Retryable
<1> QED
  BY <1>1 DEF Deliver, ToolFails, Said, Unheard

\* Every step keeps the types.
LEMMA TypeStep ==
  ASSUME AgentRunAssumption, TypeOK, Mails, [Next]_vars
  PROVE  TypeOK'
<1>1. CASE UNCHANGED vars
  BY <1>1 DEF vars, TypeOK
<1>2. ASSUME NEW c \in Clients, NEW q \in Requests, NEW op \in Ops,
             NEW named \in BOOLEAN, Post(c, q, op, named)
      PROVE  TypeOK'
  <2> DEFINE r == [Free EXCEPT !.pc = "think", !.op = op, !.by = c, !.named = named,
                               !.open = TRUE, !.waits = TRUE, !.draft = session,
                               !.text = IF named THEN pending[c] ELSE session]
  <2>1. session \in Drafts /\ pending[c] \in Drafts
    BY DEF TypeOK
  <2>2. r \in RequestType
    BY <2>1, FreeTyped DEF RequestType, Pcs
  <2>3. Put(q, r)
    BY <1>2 DEF Post
  <2> HIDE DEF r
  <2>4. req' \in [Requests -> RequestType]
    BY <2>2, <2>3, PutTyped
  <2> QED
    BY <1>2, <2>4 DEF Post, tabs, TypeOK
<1>3. ASSUME NEW c \in Clients, Reject(c)
      PROVE  TypeOK'
  BY <1>3 DEF Reject, bounds, TypeOK, Drafts
<1>4. ASSUME NEW q \in Requests,
             \/ Lack(q) \/ Read(q) \/ Refine(q) \/ Write(q) \/ Preview(q)
      PROVE  TypeOK'
  <2>1. PICK s \in Statuses, d \in Drafts, t \in Drafts : Respond(q, s, d, t)
    <3>1. req[q].draft \in Drafts
      BY RequestTyped DEF RequestType
    <3> QED
      BY <1>4, <3>1 DEF Lack, Read, Refine, Write, Preview, Statuses, Drafts
  <2>2. req' \in [Requests -> RequestType]
    BY <2>1, RespondTyped
  <2> QED
    BY <1>4, <2>2 DEF Lack, Read, Refine, Write, Preview, tabs, bounds, TypeOK
<1>5. ASSUME NEW q \in Requests, Confirm(q) \/ SendNow(q)
      PROVE  TypeOK'
  <2>1. PICK d \in Drafts : Call(q, d)
    <3>1. req[q].text \in Drafts
      BY RequestTyped DEF RequestType
    <3> QED
      BY <1>5, <3>1 DEF Confirm, SendNow, Approved, Drafts
  <2>2. req' \in [Requests -> RequestType]
    BY <2>1, CallTyped
  <2> QED
    BY <1>5, <2>2 DEF Confirm, SendNow, tabs, bounds, TypeOK
<1>6. ASSUME NEW q \in Requests, Resolve(q) \/ Refuse(q)
      PROVE  TypeOK'
  <2>1. \E code : ToolFails(q, code, req[q])
    BY <1>6 DEF Resolve, Refuse
  <2>2. req' \in [Requests -> RequestType]
    BY <2>1, ToolFailsTyped, RequestTyped
  <2> QED
    BY <1>6, <2>2 DEF Resolve, Refuse, tabs, bounds, TypeOK
<1>7. ASSUME NEW q \in Requests, Deliver(q)
      PROVE  TypeOK'
  <2>3. req' \in [Requests -> RequestType]
    BY <1>7, DeliverPuts, SentTyped, RequestTyped, PutTyped
  <2>4. req[q].by \in Clients
    BY <1>7 DEF Deliver, Mails, MailOf
  <2>5. sends' \in [Clients -> Nat] /\ excused' \subseteq Clients
    BY <1>7, <2>4 DEF Deliver, Mailed, TypeOK
  <2> QED
    BY <1>7, <2>3, <2>5 DEF Deliver, Fault, TypeOK
<1>8. ASSUME NEW q \in Requests, Log(q)
      PROVE  TypeOK'
  <2>1. req[q].text \in Drafts
    BY RequestTyped DEF RequestType
  <2>2. Respond(q, "completed", req[q].text, NoDraft)
    BY <1>8 DEF Log
  <2>3. req' \in [Requests -> RequestType]
    BY <2>1, <2>2, RespondTyped DEF Statuses, Drafts
  <2> QED
    BY <1>8, <2>3 DEF Log, tabs, bounds, TypeOK
<1>9. ASSUME NEW q \in Requests, Save(q)
      PROVE  TypeOK'
  <2> DEFINE r == [req[q] EXCEPT !.pc = "telemetry"]
  <2>1. r \in RequestType /\ req[q].draft \in Drafts
    BY RequestTyped DEF RequestType, Pcs
  <2>2. Put(q, r) \/ Put(q, Free)
    BY <1>9 DEF Save
  <2> HIDE DEF r
  <2>3. req' \in [Requests -> RequestType]
    BY <2>1, <2>2, PutTyped, FreeTyped
  <2> QED
    BY <1>9, <2>1, <2>3 DEF Save, tabs, bounds, TypeOK
<1>10. ASSUME NEW q \in Requests, Answer(q)
       PROVE  TypeOK'
  <2>1. req' \in [Requests -> RequestType]
    BY <1>10, FreeTyped, PutTyped DEF Answer
  <2>2. req[q].text \in Drafts
    BY RequestTyped DEF RequestType
  <2>3. inflight' \in Nat
    BY <1>10 DEF Answer, Released, Release, TypeOK
  <2>4. req[q].by \in Clients
    BY <1>10 DEF Answer, Mails, MailOf
  <2>5. Pending(req[q].status, req[q].text, pending[req[q].by]) \in Drafts
    BY <2>2, <2>4 DEF Pending, Drafts, TypeOK
  <2> DEFINE d == Pending(req[q].status, req[q].text, pending[req[q].by])
  <2> HIDE DEF d
  <2>6. /\ pending' \in [Clients -> Drafts]
        /\ shown' \in [Clients -> SUBSET Contents]
        /\ sends' \in [Clients -> Nat]
        /\ excused' \subseteq Clients
    <3>1. CASE ~ req[q].waits
      BY <1>10, <3>1 DEF Answer, tabs, TypeOK
    <3>2. CASE req[q].waits
      <4>1. pending' = [pending EXCEPT ![req[q].by] = d]
        BY <1>10, <3>2 DEF Answer, d
      <4>2. shown' = [shown EXCEPT ![req[q].by] = @ \cup ({d} \cap Contents)]
        BY <1>10, <3>2 DEF Answer, d
      <4>3. sends' = sends \/ sends' = [sends EXCEPT ![req[q].by] = 0]
        BY <1>10, <3>2 DEF Answer
      <4>4. excused' \subseteq excused \cup {req[q].by}
        BY <1>10, <3>2 DEF Answer
      <4> QED
        BY <2>4, <2>5, <4>1, <4>2, <4>3, <4>4 DEF d, TypeOK
    <3> QED
      BY <3>1, <3>2
  <2> QED
    BY <1>10, <2>1, <2>3, <2>6 DEF Answer, bounds, TypeOK
<1>11. ASSUME NEW q \in Requests, TimesOut(q) \/ AnswerLost(q) \/ LogFails(q)
       PROVE  TypeOK'
  <2> DEFINE r == [req[q] EXCEPT !.open = FALSE, !.waits = FALSE]
             g == [req[q] EXCEPT !.waits = FALSE]
  <2>1. r \in RequestType /\ g \in RequestType
    BY RequestTyped DEF RequestType
  <2>2. Put(q, r) \/ Put(q, g) \/ Put(q, Free)
    BY <1>11 DEF TimesOut, AnswerLost, LogFails
  <2> HIDE DEF r, g
  <2>3. req' \in [Requests -> RequestType]
    BY <2>1, <2>2, PutTyped, FreeTyped
  <2>4. req[q].waits => req[q].by \in Clients
    BY DEF Mails, MailOf
  <2>5. excused' \subseteq Clients
    BY <1>11, <2>4 DEF TimesOut, AnswerLost, LogFails, Untold, TypeOK
  <2>6. inflight' \in Nat
    BY <1>11 DEF TimesOut, AnswerLost, LogFails, Released, Release, TypeOK
  <2> QED
    BY <1>11, <2>3, <2>5, <2>6 DEF TimesOut, AnswerLost, LogFails, Fault, TypeOK
<1>12. CASE Restart
  BY <1>12, FreeTyped DEF Restart, Fault, TypeOK, Drafts
<1>13. CASE Expire
  BY <1>13 DEF Expire, tabs, bounds, TypeOK, Drafts
<1> QED
  BY <1>1, <1>2, <1>3, <1>4, <1>5, <1>6, <1>7, <1>8, <1>9, <1>10, <1>11, <1>12,
     <1>13 DEF Next

\* Every step keeps what is shown.
LEMMA ShownStep ==
  ASSUME AgentRunAssumption, TypeOK, Mails, NamedIsShown, [Next]_vars
  PROVE  NamedIsShown'
<1>1. CASE UNCHANGED vars
  BY <1>1 DEF vars, TypeOK, RequestType, Drafts, Pcs, Statuses, Ops, NamedIsShown
<1>2. ASSUME NEW c \in Clients, NEW q \in Requests,
             NEW op \in Ops, NEW named \in BOOLEAN, Post(c, q, op, named)
      PROVE  NamedIsShown'
  BY <1>2 DEF Post, Free, Waiting, Admitted, Put, tabs, TypeOK, RequestType, Drafts,
     Pcs, Statuses, Ops, NamedIsShown
<1>3. ASSUME NEW c \in Clients, Reject(c)
      PROVE  NamedIsShown'
  BY <1>3 DEF Reject, Waiting, bounds, TypeOK, RequestType, Drafts, Pcs, Statuses,
     Ops, NamedIsShown
<1>4. ASSUME NEW q \in Requests, Lack(q)
      PROVE  NamedIsShown'
  BY <1>4 DEF Lack, Respond, tabs, bounds, Put, TypeOK, RequestType, Drafts, Pcs,
     Statuses, Ops, NamedIsShown
<1>5. ASSUME NEW q \in Requests, Read(q)
      PROVE  NamedIsShown'
  BY <1>5 DEF Read, Respond, tabs, bounds, Put, TypeOK, RequestType, Drafts, Pcs,
     Statuses, Ops, NamedIsShown
<1>6. ASSUME NEW q \in Requests, Refine(q)
      PROVE  NamedIsShown'
  BY <1>6 DEF Refine, Respond, tabs, bounds, Put, TypeOK, RequestType, Drafts, Pcs,
     Statuses, Ops, NamedIsShown
<1>7. ASSUME NEW q \in Requests, Write(q)
      PROVE  NamedIsShown'
  BY <1>7 DEF Write, Respond, tabs, bounds, Put, TypeOK, RequestType, Drafts, Pcs,
     Statuses, Ops, NamedIsShown
<1>8. ASSUME NEW q \in Requests, Preview(q)
      PROVE  NamedIsShown'
  BY <1>8 DEF Preview, Respond, tabs, bounds, Put, TypeOK, RequestType, Drafts, Pcs,
     Statuses, Ops, NamedIsShown
<1>9. ASSUME NEW q \in Requests, Confirm(q)
      PROVE  NamedIsShown'
  BY <1>9 DEF Confirm, Approved, Call, tabs, bounds, Put, TypeOK, RequestType,
     Drafts, Pcs, Statuses, Ops, NamedIsShown
<1>10. ASSUME NEW q \in Requests, SendNow(q)
      PROVE  NamedIsShown'
  BY <1>10 DEF SendNow, Call, tabs, bounds, Put, TypeOK, RequestType, Drafts, Pcs,
     Statuses, Ops, NamedIsShown
<1>11. ASSUME NEW q \in Requests, Resolve(q)
      PROVE  NamedIsShown'
  BY <1>11 DEF Resolve, ToolFails, tabs, bounds, Put, Retryable, TypeOK,
     RequestType, Drafts, Pcs, Statuses, Ops, NamedIsShown
<1>12. ASSUME NEW q \in Requests, Refuse(q)
      PROVE  NamedIsShown'
  BY <1>12 DEF Refuse, ToolFails, tabs, bounds, Put, Retryable, TypeOK, RequestType,
     Drafts, Pcs, Statuses, Ops, NamedIsShown
<1>13. ASSUME NEW q \in Requests, Deliver(q)
      PROVE  NamedIsShown'
  <2>1. CASE Put(q, Said(req[q]))
    BY <1>13, <2>1 DEF Deliver, Put, Said, TypeOK, RequestType, Drafts, Pcs,
       Statuses, Ops, NamedIsShown
  <2>2. CASE Put(q, Unheard(req[q]))
    BY <1>13, <2>2 DEF Deliver, Put, Unheard, TypeOK, RequestType, Drafts, Pcs,
       Statuses, Ops, NamedIsShown
  <2> QED
    BY <1>13, <2>1, <2>2, DeliverPuts
<1>14. ASSUME NEW q \in Requests, Log(q)
      PROVE  NamedIsShown'
  BY <1>14 DEF Log, Respond, tabs, bounds, Put, TypeOK, RequestType, Drafts, Pcs,
     Statuses, Ops, NamedIsShown
<1>15. ASSUME NEW q \in Requests, Save(q)
      PROVE  NamedIsShown'
  BY <1>15 DEF Save, Put, Free, tabs, bounds, TypeOK, RequestType, Drafts, Pcs,
     Statuses, Ops, NamedIsShown
<1>16. ASSUME NEW q \in Requests, Answer(q)
      PROVE  NamedIsShown'
  <2>1. req' = [req EXCEPT ![q] = Free]
    BY <1>16 DEF Answer, Put
  <2>2. \A c \in Clients : /\ shown[c] \subseteq shown'[c]
                           /\ pending'[c] # NoDraft => pending'[c] \in shown'[c]
    <3>1. CASE ~ req[q].waits
      BY <1>16, <3>1 DEF Answer, tabs, NamedIsShown
    <3>2. CASE req[q].waits
      <4> DEFINE d == Pending(req[q].status, req[q].text, pending[req[q].by])
      <4>1. req[q].by \in Clients
        BY <3>2 DEF Mails, MailOf
      <4>2. d \in Drafts
        BY <4>1, RequestTyped DEF Pending, RequestType, TypeOK, Drafts
      <4>3. /\ pending' = [pending EXCEPT ![req[q].by] = d]
            /\ shown' = [shown EXCEPT ![req[q].by] = @ \cup ({d} \cap Contents)]
        BY <1>16, <3>2 DEF Answer
      <4> HIDE DEF d
      <4> QED
        BY <4>1, <4>2, <4>3 DEF NamedIsShown, TypeOK, Drafts
    <3> QED
      BY <3>1, <3>2
  <2>3. ASSUME NEW p \in Requests, p # q, req[p].pc \in {"think", "tools", "log"}
        PROVE  req[p].by \in Clients
    BY <2>3 DEF Mails, MailOf
  <2> QED
    BY <2>1, <2>2, <2>3 DEF NamedIsShown, Free, TypeOK, RequestType
<1>17. ASSUME NEW q \in Requests, TimesOut(q)
      PROVE  NamedIsShown'
  BY <1>17 DEF TimesOut, Released, Put, Untold, Release, TypeOK, RequestType,
     Drafts, Pcs, Statuses, Ops, NamedIsShown
<1>18. ASSUME NEW q \in Requests, LogFails(q)
      PROVE  NamedIsShown'
  BY <1>18 DEF LogFails, Fault, Released, Put, Free, Untold, Release, TypeOK,
     RequestType, Drafts, Pcs, Statuses, Ops, NamedIsShown
<1>19. ASSUME NEW q \in Requests, AnswerLost(q)
      PROVE  NamedIsShown'
  BY <1>19 DEF AnswerLost, Fault, Put, Untold, TypeOK, RequestType, Drafts, Pcs,
     Statuses, Ops, NamedIsShown
<1>20. CASE Restart
  BY <1>20 DEF Restart, Fault, Free, Waiting, TypeOK, RequestType, Drafts, Pcs,
     Statuses, Ops, NamedIsShown
<1>21. CASE Expire
  BY <1>21 DEF Expire, Free, tabs, bounds, TypeOK, RequestType, Drafts, Pcs,
     Statuses, Ops, NamedIsShown
<1> QED
  BY <1>1, <1>2, <1>3, <1>4, <1>5, <1>6, <1>7, <1>8, <1>9, <1>10, <1>11, <1>12,
     <1>13, <1>14, <1>15, <1>16, <1>17, <1>18, <1>19, <1>20, <1>21 DEF Next

\* Every step keeps the account of mails.
LEMMA MailStep ==
  ASSUME AgentRunAssumption, TypeOK, Mails, [Next]_vars
  PROVE  Mails'
<1>1. CASE UNCHANGED vars
  BY <1>1 DEF vars, TypeOK, RequestType, Drafts, Pcs, Statuses, Ops, Mails, MailOf
<1>2. ASSUME NEW c \in Clients, NEW q \in Requests,
             NEW op \in Ops, NEW named \in BOOLEAN, Post(c, q, op, named)
      PROVE  Mails'
  BY <1>2 DEF Post, Free, Waiting, Admitted, Put, tabs, TypeOK, RequestType, Drafts,
     Pcs, Statuses, Ops, Mails, MailOf
<1>3. ASSUME NEW c \in Clients, Reject(c)
      PROVE  Mails'
  BY <1>3 DEF Reject, Waiting, bounds, TypeOK, RequestType, Drafts, Pcs, Statuses,
     Ops, Mails, MailOf
<1>4. ASSUME NEW q \in Requests, Lack(q)
      PROVE  Mails'
  BY <1>4 DEF Lack, Respond, tabs, bounds, Put, TypeOK, RequestType, Drafts, Pcs,
     Statuses, Ops, Mails, MailOf
<1>5. ASSUME NEW q \in Requests, Read(q)
      PROVE  Mails'
  BY <1>5 DEF Read, Respond, tabs, bounds, Put, TypeOK, RequestType, Drafts, Pcs,
     Statuses, Ops, Mails, MailOf
<1>6. ASSUME NEW q \in Requests, Refine(q)
      PROVE  Mails'
  BY <1>6 DEF Refine, Respond, tabs, bounds, Put, TypeOK, RequestType, Drafts, Pcs,
     Statuses, Ops, Mails, MailOf
<1>7. ASSUME NEW q \in Requests, Write(q)
      PROVE  Mails'
  BY <1>7 DEF Write, Respond, tabs, bounds, Put, TypeOK, RequestType, Drafts, Pcs,
     Statuses, Ops, Mails, MailOf
<1>8. ASSUME NEW q \in Requests, Preview(q)
      PROVE  Mails'
  BY <1>8 DEF Preview, Respond, tabs, bounds, Put, TypeOK, RequestType, Drafts, Pcs,
     Statuses, Ops, Mails, MailOf
<1>9. ASSUME NEW q \in Requests, Confirm(q)
      PROVE  Mails'
  BY <1>9 DEF Confirm, Approved, Call, tabs, bounds, Put, TypeOK, RequestType,
     Drafts, Pcs, Statuses, Ops, Mails, MailOf
<1>10. ASSUME NEW q \in Requests, SendNow(q)
      PROVE  Mails'
  BY <1>10 DEF SendNow, Call, tabs, bounds, Put, TypeOK, RequestType, Drafts, Pcs,
     Statuses, Ops, Mails, MailOf
<1>11. ASSUME NEW q \in Requests, Resolve(q)
      PROVE  Mails'
  BY <1>11 DEF Resolve, ToolFails, tabs, bounds, Put, Retryable, TypeOK,
     RequestType, Drafts, Pcs, Statuses, Ops, Mails, MailOf
<1>12. ASSUME NEW q \in Requests, Refuse(q)
      PROVE  Mails'
  BY <1>12 DEF Refuse, ToolFails, tabs, bounds, Put, Retryable, TypeOK, RequestType,
     Drafts, Pcs, Statuses, Ops, Mails, MailOf
<1>13. ASSUME NEW q \in Requests, Deliver(q)
      PROVE  Mails'
  <2>1. CASE Put(q, Said(req[q]))
    BY <1>13, <2>1 DEF Deliver, Put, Said, TypeOK, RequestType, Drafts, Pcs,
       Statuses, Ops, Mails, MailOf
  <2>2. CASE Put(q, Unheard(req[q]))
    BY <1>13, <2>2 DEF Deliver, Put, Unheard, TypeOK, RequestType, Drafts, Pcs,
       Statuses, Ops, Mails, MailOf
  <2> QED
    BY <1>13, <2>1, <2>2, DeliverPuts
<1>14. ASSUME NEW q \in Requests, Log(q)
      PROVE  Mails'
  BY <1>14 DEF Log, Respond, tabs, bounds, Put, TypeOK, RequestType, Drafts, Pcs,
     Statuses, Ops, Mails, MailOf
<1>15. ASSUME NEW q \in Requests, Save(q)
      PROVE  Mails'
  BY <1>15 DEF Save, Put, Free, tabs, bounds, TypeOK, RequestType, Drafts, Pcs,
     Statuses, Ops, Mails, MailOf
<1>16. ASSUME NEW q \in Requests, Answer(q)
      PROVE  Mails'
  BY <1>16 DEF Answer, Pending, Released, Put, Free, tabs, bounds, Release, TypeOK,
     RequestType, Drafts, Pcs, Statuses, Ops, Mails, MailOf
<1>17. ASSUME NEW q \in Requests, TimesOut(q)
      PROVE  Mails'
  BY <1>17 DEF TimesOut, Released, Put, Untold, Release, TypeOK, RequestType,
     Drafts, Pcs, Statuses, Ops, Mails, MailOf
<1>18. ASSUME NEW q \in Requests, LogFails(q)
      PROVE  Mails'
  BY <1>18 DEF LogFails, Fault, Released, Put, Free, Untold, Release, TypeOK,
     RequestType, Drafts, Pcs, Statuses, Ops, Mails, MailOf
<1>19. ASSUME NEW q \in Requests, AnswerLost(q)
      PROVE  Mails'
  BY <1>19 DEF AnswerLost, Fault, Put, Untold, TypeOK, RequestType, Drafts, Pcs,
     Statuses, Ops, Mails, MailOf
<1>20. CASE Restart
  BY <1>20 DEF Restart, Fault, Free, Waiting, TypeOK, RequestType, Drafts, Pcs,
     Statuses, Ops, Mails, MailOf
<1>21. CASE Expire
  BY <1>21 DEF Expire, Free, tabs, bounds, TypeOK, RequestType, Drafts, Pcs,
     Statuses, Ops, Mails, MailOf
<1> QED
  BY <1>1, <1>2, <1>3, <1>4, <1>5, <1>6, <1>7, <1>8, <1>9, <1>10, <1>11, <1>12,
     <1>13, <1>14, <1>15, <1>16, <1>17, <1>18, <1>19, <1>20, <1>21 DEF Next

\* A tab never waits for two requests.
LEMMA WaitStep ==
  ASSUME AgentRunAssumption, TypeOK, Mails, OneWait, [Next]_vars
  PROVE  OneWait'
<1>1. CASE UNCHANGED vars
  BY <1>1 DEF vars, TypeOK, RequestType, Drafts, Pcs, Statuses, Ops, Mails, MailOf,
     OneWait
<1>2. ASSUME NEW c \in Clients, NEW q \in Requests,
             NEW op \in Ops, NEW named \in BOOLEAN, Post(c, q, op, named)
      PROVE  OneWait'
  BY <1>2 DEF Post, Free, Waiting, Admitted, Put, tabs, TypeOK, RequestType, Drafts,
     Pcs, Statuses, Ops, Mails, MailOf, OneWait
<1>3. ASSUME NEW c \in Clients, Reject(c)
      PROVE  OneWait'
  BY <1>3 DEF Reject, Waiting, bounds, TypeOK, RequestType, Drafts, Pcs, Statuses,
     Ops, Mails, MailOf, OneWait
<1>4. ASSUME NEW q \in Requests, Lack(q)
      PROVE  OneWait'
  BY <1>4 DEF Lack, Respond, tabs, bounds, Put, TypeOK, RequestType, Drafts, Pcs,
     Statuses, Ops, Mails, MailOf, OneWait
<1>5. ASSUME NEW q \in Requests, Read(q)
      PROVE  OneWait'
  BY <1>5 DEF Read, Respond, tabs, bounds, Put, TypeOK, RequestType, Drafts, Pcs,
     Statuses, Ops, Mails, MailOf, OneWait
<1>6. ASSUME NEW q \in Requests, Refine(q)
      PROVE  OneWait'
  BY <1>6 DEF Refine, Respond, tabs, bounds, Put, TypeOK, RequestType, Drafts, Pcs,
     Statuses, Ops, Mails, MailOf, OneWait
<1>7. ASSUME NEW q \in Requests, Write(q)
      PROVE  OneWait'
  BY <1>7 DEF Write, Respond, tabs, bounds, Put, TypeOK, RequestType, Drafts, Pcs,
     Statuses, Ops, Mails, MailOf, OneWait
<1>8. ASSUME NEW q \in Requests, Preview(q)
      PROVE  OneWait'
  BY <1>8 DEF Preview, Respond, tabs, bounds, Put, TypeOK, RequestType, Drafts, Pcs,
     Statuses, Ops, Mails, MailOf, OneWait
<1>9. ASSUME NEW q \in Requests, Confirm(q)
      PROVE  OneWait'
  BY <1>9 DEF Confirm, Approved, Call, tabs, bounds, Put, TypeOK, RequestType,
     Drafts, Pcs, Statuses, Ops, Mails, MailOf, OneWait
<1>10. ASSUME NEW q \in Requests, SendNow(q)
      PROVE  OneWait'
  BY <1>10 DEF SendNow, Call, tabs, bounds, Put, TypeOK, RequestType, Drafts, Pcs,
     Statuses, Ops, Mails, MailOf, OneWait
<1>11. ASSUME NEW q \in Requests, Resolve(q)
      PROVE  OneWait'
  BY <1>11 DEF Resolve, ToolFails, tabs, bounds, Put, Retryable, TypeOK,
     RequestType, Drafts, Pcs, Statuses, Ops, Mails, MailOf, OneWait
<1>12. ASSUME NEW q \in Requests, Refuse(q)
      PROVE  OneWait'
  BY <1>12 DEF Refuse, ToolFails, tabs, bounds, Put, Retryable, TypeOK, RequestType,
     Drafts, Pcs, Statuses, Ops, Mails, MailOf, OneWait
<1>13. ASSUME NEW q \in Requests, Deliver(q)
      PROVE  OneWait'
  <2>1. CASE Put(q, Said(req[q]))
    BY <1>13, <2>1 DEF Deliver, Put, Said, TypeOK, RequestType, Drafts, Pcs,
       Statuses, Ops, Mails, MailOf, OneWait
  <2>2. CASE Put(q, Unheard(req[q]))
    BY <1>13, <2>2 DEF Deliver, Put, Unheard, TypeOK, RequestType, Drafts, Pcs,
       Statuses, Ops, Mails, MailOf, OneWait
  <2> QED
    BY <1>13, <2>1, <2>2, DeliverPuts
<1>14. ASSUME NEW q \in Requests, Log(q)
      PROVE  OneWait'
  BY <1>14 DEF Log, Respond, tabs, bounds, Put, TypeOK, RequestType, Drafts, Pcs,
     Statuses, Ops, Mails, MailOf, OneWait
<1>15. ASSUME NEW q \in Requests, Save(q)
      PROVE  OneWait'
  BY <1>15 DEF Save, Put, Free, tabs, bounds, TypeOK, RequestType, Drafts, Pcs,
     Statuses, Ops, Mails, MailOf, OneWait
<1>16. ASSUME NEW q \in Requests, Answer(q)
      PROVE  OneWait'
  BY <1>16 DEF Answer, Pending, Released, Put, Free, tabs, bounds, Release, TypeOK,
     RequestType, Drafts, Pcs, Statuses, Ops, Mails, MailOf, OneWait
<1>17. ASSUME NEW q \in Requests, TimesOut(q)
      PROVE  OneWait'
  BY <1>17 DEF TimesOut, Released, Put, Untold, Release, TypeOK, RequestType,
     Drafts, Pcs, Statuses, Ops, Mails, MailOf, OneWait
<1>18. ASSUME NEW q \in Requests, LogFails(q)
      PROVE  OneWait'
  BY <1>18 DEF LogFails, Fault, Released, Put, Free, Untold, Release, TypeOK,
     RequestType, Drafts, Pcs, Statuses, Ops, Mails, MailOf, OneWait
<1>19. ASSUME NEW q \in Requests, AnswerLost(q)
      PROVE  OneWait'
  BY <1>19 DEF AnswerLost, Fault, Put, Untold, TypeOK, RequestType, Drafts, Pcs,
     Statuses, Ops, Mails, MailOf, OneWait
<1>20. CASE Restart
  BY <1>20 DEF Restart, Fault, Free, Waiting, TypeOK, RequestType, Drafts, Pcs,
     Statuses, Ops, Mails, MailOf, OneWait
<1>21. CASE Expire
  BY <1>21 DEF Expire, Free, tabs, bounds, TypeOK, RequestType, Drafts, Pcs,
     Statuses, Ops, Mails, MailOf, OneWait
<1> QED
  BY <1>1, <1>2, <1>3, <1>4, <1>5, <1>6, <1>7, <1>8, <1>9, <1>10, <1>11, <1>12,
     <1>13, <1>14, <1>15, <1>16, <1>17, <1>18, <1>19, <1>20, <1>21 DEF Next

-----------------------------------------------------------------------------
\* The mails sent on approvals.
Awaits(c, q) ==
  /\ req[q].by = c /\ req[q].waits /\ req[q].sent = 1
  /\ req[q].pc \in {"log", "end", "telemetry"}

\* A step that sends no mail, and lets go of an awaited request only when its
\* tab is excused.
LEMMA QuietStep ==
  ASSUME SendsAwaited, sends' = sends, excused \subseteq excused',
         \A c \in Clients, q \in Requests :
           Awaits(c, q) /\ c \notin excused' => Awaits(c, q)'
  PROVE  SendsAwaited'
  BY DEF SendsAwaited, Awaits

LEMMA SendsStep ==
  ASSUME AgentRunAssumption, TypeOK, Mails, OneWait, SendsAwaited, [Next]_vars
  PROVE  SendsAwaited'
<1>1. CASE UNCHANGED vars
  BY <1>1 DEF vars, SendsAwaited
<1>2. ASSUME NEW c \in Clients, NEW q \in Requests, NEW op \in Ops,
             NEW named \in BOOLEAN, Post(c, q, op, named)
      PROVE  SendsAwaited'
  <2>1. ~ req[q].waits
    BY <1>2 DEF Post, Free
  <2>2. \A p \in Requests : p # q => req'[p] = req[p]
    BY <1>2 DEF Post, Put, TypeOK
  <2> QED
    BY <1>2, <2>1, <2>2, QuietStep DEF Post, tabs, Awaits
<1>3. ASSUME NEW c \in Clients, Reject(c)
      PROVE  SendsAwaited'
  BY <1>3 DEF Reject, SendsAwaited, TypeOK
\* The request of an engine that is thinking or calling has sent nothing.
<1>4. ASSUME NEW q \in Requests,
             \/ Lack(q) \/ Read(q) \/ Refine(q) \/ Write(q) \/ Preview(q)
             \/ Confirm(q) \/ SendNow(q) \/ Resolve(q) \/ Refuse(q)
      PROVE  SendsAwaited'
  <2>1. req[q].pc \in {"think", "tools"}
    BY <1>4 DEF Lack, Read, Refine, Write, Preview, Confirm, SendNow, Resolve,
       Refuse
  <2>2. \E r : Put(q, r)
    BY <1>4 DEF Lack, Read, Refine, Write, Preview, Confirm, SendNow, Resolve,
                Refuse, Respond, Call, ToolFails
  <2>3. \A p \in Requests : p # q => req'[p] = req[p]
    BY <2>2 DEF Put, TypeOK
  <2>4. UNCHANGED <<sends, excused>>
    BY <1>4 DEF Lack, Read, Refine, Write, Preview, Confirm, SendNow, Resolve,
                Refuse, tabs
  <2> QED
    BY <2>1, <2>3, <2>4, QuietStep DEF Awaits
<1>5. ASSUME NEW q \in Requests, Deliver(q)
      PROVE  SendsAwaited'
  <2>0. PICK c \in Clients : c = req[q].by
    BY <1>5 DEF Deliver, Mails, MailOf
  <2>1. /\ \A p \in Requests : p # q => req'[p] = req[p]
        /\ req'[q] = Said(req[q]) \/ req'[q] = Unheard(req[q])
    BY <1>5, DeliverPuts DEF Put, TypeOK
  <2>2. req[q].pc = "tools" /\ req[q].sent = 0
    BY <1>5 DEF Deliver, Mails, MailOf
  <2>3. CASE UNCHANGED <<sends, excused>>
    BY <2>1, <2>2, <2>3, QuietStep DEF Awaits
  <2>4. CASE /\ sends' = [sends EXCEPT ![c] = @ + 1]
             /\ excused' = IF req[q].waits THEN excused ELSE excused \cup {c}
    \* The tab waits for this request, so that no other one has mailed its draft.
    <3>1. ASSUME req[q].waits, c \notin excused
          PROVE  sends[c] = 0
      <4>1. ASSUME sends[c] > 0
            PROVE  FALSE
        <5>1. PICK p \in Requests : Awaits(c, p)
          BY <3>1, <4>1 DEF SendsAwaited, Awaits
        <5>2. p = q
          BY <2>0, <3>1, <5>1 DEF OneWait, Awaits
        <5> QED
          BY <2>2, <5>1, <5>2 DEF Awaits
      <4> QED
        BY <4>1 DEF TypeOK
    <3>2. ASSUME req[q].waits
          PROVE  Awaits(c, q)'
      <4>1. req[q] \in RequestType
        BY RequestTyped
      <4>2. /\ Said(req[q]).by = c /\ Said(req[q]).waits
            /\ Said(req[q]).sent = 1 /\ Said(req[q]).pc = "log"
        BY <2>0, <2>2, <3>2, <4>1 DEF Said, RequestType
      <4>3. /\ Unheard(req[q]).by = c /\ Unheard(req[q]).waits
            /\ Unheard(req[q]).sent = 1 /\ Unheard(req[q]).pc = "end"
        BY <2>0, <2>2, <3>2, <4>1 DEF Unheard, RequestType
      <4> QED
        BY <2>1, <4>2, <4>3 DEF Awaits
    <3>3. ASSUME NEW e \in Clients, sends'[e] > 0, e \notin excused'
          PROVE  sends'[e] = 1 /\ \E p \in Requests : Awaits(e, p)'
      <4>1. CASE e = c
        <5>1. req[q].waits /\ c \notin excused
          BY <2>4, <3>3, <4>1
        <5>2. sends'[e] = 1
          BY <2>4, <3>1, <4>1, <5>1 DEF TypeOK
        <5> QED
          BY <3>2, <4>1, <5>1, <5>2
      <4>2. CASE e # c
        <5>1. sends'[e] = sends[e] /\ e \notin excused
          BY <2>4, <3>3, <4>2 DEF TypeOK
        <5>2. sends[e] = 1
          BY <3>3, <5>1 DEF SendsAwaited
        <5>3. PICK p \in Requests : Awaits(e, p)
          BY <3>3, <5>1 DEF SendsAwaited, Awaits
        <5>4. req'[p] = req[p]
          BY <2>1, <2>2, <5>3 DEF Awaits
        <5>5. Awaits(e, p)'
          BY <5>3, <5>4 DEF Awaits
        <5> QED
          BY <5>1, <5>2, <5>5
      <4> QED
        BY <4>1, <4>2
    <3> QED
      BY <3>3 DEF SendsAwaited, Awaits
  <2> QED
    BY <1>5, <2>0, <2>3, <2>4 DEF Deliver, Mailed
<1>6. ASSUME NEW q \in Requests, Log(q) \/ Save(q)
      PROVE  SendsAwaited'
  <2>1. \A p \in Requests : p # q => req'[p] = req[p]
    BY <1>6 DEF Log, Save, Respond, Put, TypeOK
  <2>2. UNCHANGED <<sends, excused>>
    BY <1>6 DEF Log, Save, tabs
  <2>3. ASSUME req[q].waits
        PROVE  /\ req'[q].by = req[q].by /\ req'[q].waits
               /\ req'[q].sent = req[q].sent
               /\ req'[q].pc \in {"end", "telemetry"}
    <3>1. req[q] \in RequestType /\ req[q].open
      BY <2>3, RequestTyped DEF Mails, MailOf
    <3>2. CASE Log(q)
      <4>1. req'[q] = [req[q] EXCEPT !.pc = "end", !.status = "completed",
                                     !.draft = req[q].text, !.text = NoDraft]
        BY <3>2 DEF Log, Respond, Put, TypeOK
      <4> QED
        BY <2>3, <3>1, <4>1 DEF RequestType
    <3>3. CASE Save(q)
      <4>1. req'[q] = [req[q] EXCEPT !.pc = "telemetry"]
        BY <3>1, <3>3 DEF Save, Put, TypeOK
      <4> QED
        BY <2>3, <3>1, <4>1 DEF RequestType
    <3> QED
      BY <1>6, <3>2, <3>3
  <2> QED
    BY <2>1, <2>2, <2>3, QuietStep DEF Awaits
<1>7. ASSUME NEW q \in Requests, Answer(q)
      PROVE  SendsAwaited'
  <2> DEFINE c == req[q].by
             d == Pending(req[q].status, req[q].text, pending[c])
  <2>1. \A p \in Requests : p # q => req'[p] = req[p]
    BY <1>7 DEF Answer, Put, TypeOK
  <2>2. CASE ~ req[q].waits
    BY <1>7, <2>1, <2>2, QuietStep DEF Answer, tabs, Awaits
  <2>3. CASE req[q].waits
    <3>1. c \in Clients /\ req[q].pc = "telemetry"
      BY <1>7, <2>3 DEF Answer, Mails, MailOf
    <3>2. \A e \in Clients : e # c =>
            /\ sends'[e] = sends[e]
            /\ e \in excused' <=> e \in excused
      BY <1>7, <2>3 DEF Answer, TypeOK
    \* The tab is told that its draft was mailed, and shows it no more, or it is
    \* not told what became of it.
    <3>3. sends'[c] > 0 => c \in excused'
      <4>1. CASE req[q].status = "needs_confirmation" \/ d = NoDraft
        <5>1. sends' = [sends EXCEPT ![c] = 0]
          BY <1>7, <2>3, <4>1 DEF Answer
        <5> QED
          BY <3>1, <5>1 DEF TypeOK
      <4>2. CASE req[q].status # "needs_confirmation" /\ d # NoDraft
        <5>1. /\ sends' = sends
              /\ excused' = IF req[q].lost THEN excused \cup {c} ELSE excused
          BY <1>7, <2>3, <4>2 DEF Answer
        <5>2. req[q].status # "completed"
          BY <4>2 DEF Pending
        <5>3. ~ req[q].lost => req[q].sent # 1
          BY <3>1, <5>2 DEF Mails, MailOf
        <5>4. ASSUME ~ req[q].lost, sends[c] > 0, c \notin excused
              PROVE  FALSE
          <6>1. PICK p \in Requests : Awaits(c, p)
            BY <3>1, <5>4 DEF SendsAwaited, Awaits
          <6>2. p = q
            BY <2>3, <6>1 DEF OneWait, Awaits
          <6> QED
            BY <5>3, <5>4, <6>1, <6>2 DEF Awaits
        <5> QED
          BY <5>1, <5>4
      <4> QED
        BY <4>1, <4>2
    <3>4. ASSUME NEW e \in Clients, e # c, sends[e] > 0, e \notin excused
          PROVE  sends[e] = 1 /\ \E p \in Requests : Awaits(e, p)'
      <4>1. sends[e] = 1 /\ \E p \in Requests : Awaits(e, p)
        BY <3>4 DEF SendsAwaited, Awaits
      <4> QED
        BY <2>1, <3>4, <4>1 DEF Awaits
    <3> HIDE DEF c, d
    <3> QED
      BY <3>2, <3>3, <3>4 DEF SendsAwaited, Awaits
  <2> QED
    BY <2>2, <2>3
<1>8. ASSUME NEW q \in Requests, TimesOut(q) \/ LogFails(q) \/ AnswerLost(q)
      PROVE  SendsAwaited'
  <2>1. \A p \in Requests : p # q => req'[p] = req[p]
    BY <1>8 DEF TimesOut, LogFails, AnswerLost, Put, TypeOK
  <2>2. sends' = sends /\ Untold(q)
    BY <1>8 DEF TimesOut, LogFails, AnswerLost
  <2> QED
    BY <2>1, <2>2, QuietStep DEF Untold, Awaits
<1>9. CASE Restart
  <2>1. sends' = sends /\ excused' = excused \cup {c \in Clients : Waiting(c)}
    BY <1>9 DEF Restart
  <2> QED
    BY <2>1, QuietStep DEF Waiting, Awaits
<1>10. CASE Expire
  BY <1>10, QuietStep DEF Expire, tabs, Awaits
<1> QED
  BY <1>1, <1>2, <1>3, <1>4, <1>5, <1>6, <1>7, <1>8, <1>9, <1>10 DEF Next

-----------------------------------------------------------------------------
LEMMA OpenedFinite ==
  ASSUME AgentRunAssumption
  PROVE  IsFiniteSet(Opened)
  BY FS_Subset DEF AgentRunAssumption, Opened

\* A request that is put in its place, and stays open or closed, or closes.
LEMMA PutOne ==
  ASSUME TypeOK, NEW q \in Requests, NEW r, Put(q, r)
  PROVE  req'[q] = r /\ \A p \in Requests : p # q => req'[p] = req[p]
  BY DEF TypeOK, Put

LEMMA Stays ==
  ASSUME TypeOK, Guarded, NEW q \in Requests, NEW r, Put(q, r),
         r.open <=> req[q].open, inflight' = inflight
  PROVE  Guarded'
<1>1. Opened' = Opened
  BY PutOne DEF Opened
<1> QED
  BY <1>1 DEF Guarded, Counted

LEMMA Closes ==
  ASSUME AgentRunAssumption, TypeOK, Guarded, NEW q \in Requests, NEW r, Put(q, r),
         req[q].open, ~ r.open, inflight' = Released(q)
  PROVE  Guarded'
<1>1. Opened' = Opened \ {q} /\ q \in Opened
  BY PutOne DEF Opened
<1>2. Cardinality(Opened') = Cardinality(Opened) - 1
  BY <1>1, OpenedFinite, FS_RemoveElement
<1>3. Cardinality(Opened) \in Nat /\ Cardinality(Opened') \in Nat
  BY <1>1, OpenedFinite, FS_RemoveElement, FS_CardinalityType
<1> QED
  BY <1>2, <1>3 DEF Guarded, Counted, Released, Release, AgentRunAssumption

LEMMA CountStep ==
  ASSUME AgentRunAssumption, TypeOK, Mails, Guarded, [Next]_vars
  PROVE  Guarded'
<1>1. CASE UNCHANGED vars
  BY <1>1 DEF vars, Guarded, Counted, Opened
<1>2. ASSUME NEW c \in Clients, NEW q \in Requests, NEW op \in Ops,
             NEW named \in BOOLEAN, Post(c, q, op, named)
      PROVE  Guarded'
  <2>1. ~ req[q].open
    BY <1>2 DEF Post, Free
  <2>2. req'[q].open /\ \A p \in Requests : p # q => req'[p] = req[p]
    BY <1>2 DEF Post, Put, Free, TypeOK
  <2>3. Opened' = Opened \cup {q} /\ q \notin Opened
    BY <2>1, <2>2 DEF Opened
  <2>4. Cardinality(Opened') = Cardinality(Opened) + 1
    BY <2>3, OpenedFinite, FS_AddElement
  <2>5. inflight' = inflight + 1 /\ inflight < MaxInflight
    BY <1>2 DEF Post, Admitted
  <2> QED
    BY <2>4, <2>5 DEF Guarded, Counted, TypeOK, AgentRunAssumption
<1>3. ASSUME NEW c \in Clients, Reject(c)
      PROVE  Guarded'
  BY <1>3 DEF Reject, Guarded, Counted, Opened
<1>4. ASSUME NEW q \in Requests,
             \/ Lack(q) \/ Read(q) \/ Refine(q) \/ Write(q) \/ Preview(q) \/ Log(q)
      PROVE  Guarded'
  <2>1. PICK s, d, x : Respond(q, s, d, x)
    BY <1>4 DEF Lack, Read, Refine, Write, Preview, Log
  <2> DEFINE r == [req[q] EXCEPT !.pc = "end", !.status = s, !.draft = d, !.text = x]
  <2>2. Put(q, r)
    BY <2>1 DEF Respond
  <2>3. r.open <=> req[q].open
    BY RequestTyped DEF RequestType
  <2> HIDE DEF r
  <2> QED
    BY <1>4, <2>2, <2>3, Stays DEF Lack, Read, Refine, Write, Preview, Log
<1>5. ASSUME NEW q \in Requests, Confirm(q) \/ SendNow(q)
      PROVE  Guarded'
  <2>1. PICK d : Call(q, d)
    BY <1>5 DEF Confirm, SendNow
  <2> DEFINE r == [req[q] EXCEPT !.pc = "tools", !.tries = 1, !.text = d]
  <2>2. Put(q, r)
    BY <2>1 DEF Call
  <2>3. r.open <=> req[q].open
    BY RequestTyped DEF RequestType
  <2> HIDE DEF r
  <2> QED
    BY <1>5, <2>2, <2>3, Stays DEF Confirm, SendNow
<1>6. ASSUME NEW q \in Requests, Resolve(q) \/ Refuse(q)
      PROVE  Guarded'
  <2>1. PICK code : ToolFails(q, code, req[q])
    BY <1>6 DEF Resolve, Refuse
  <2> DEFINE r == IF Retryable(code) /\ req[q].tries < RetryAttempts
                  THEN [req[q] EXCEPT !.tries = @ + 1]
                  ELSE [req[q] EXCEPT !.pc = "end", !.status = "error", !.text = NoDraft]
  <2>2. Put(q, r)
    BY <2>1 DEF ToolFails
  <2>3. r.open <=> req[q].open
    BY RequestTyped DEF RequestType
  <2> HIDE DEF r
  <2> QED
    BY <1>6, <2>2, <2>3, Stays DEF Resolve, Refuse
<1>7. ASSUME NEW q \in Requests, Deliver(q)
      PROVE  Guarded'
  <2>1. PICK r : Put(q, r) /\ r \in {Said(req[q]), Unheard(req[q])}
    BY <1>7, DeliverPuts
  <2>2. r.open <=> req[q].open
    BY <2>1, RequestTyped DEF Said, Unheard, RequestType
  <2> QED
    BY <1>7, <2>1, <2>2, Stays DEF Deliver
<1>8. ASSUME NEW q \in Requests, Save(q)
      PROVE  Guarded'
  <2> DEFINE r == [req[q] EXCEPT !.pc = "telemetry"]
  <2>1. r.open <=> req[q].open
    BY RequestTyped DEF RequestType
  <2>2. ~ Free.open
    BY DEF Free
  <2>3. IF req[q].open THEN Put(q, r) ELSE Put(q, Free)
    BY <1>8 DEF Save
  <2> HIDE DEF r
  <2> QED
    BY <1>8, <2>1, <2>2, <2>3, Stays DEF Save
<1>9. ASSUME NEW q \in Requests, Answer(q)
      PROVE  Guarded'
  <2>1. req[q].open /\ ~ Free.open
    BY <1>9 DEF Answer, Mails, MailOf, Free
  <2> QED
    BY <1>9, <2>1, Closes DEF Answer
<1>10. ASSUME NEW q \in Requests, TimesOut(q)
       PROVE  Guarded'
  <2> DEFINE r == [req[q] EXCEPT !.open = FALSE, !.waits = FALSE]
  <2>1. ~ r.open
    BY RequestTyped DEF RequestType
  <2>2. Put(q, r)
    BY <1>10 DEF TimesOut
  <2> HIDE DEF r
  <2> QED
    BY <1>10, <2>1, <2>2, Closes DEF TimesOut
<1>11. ASSUME NEW q \in Requests, LogFails(q)
       PROVE  Guarded'
  <2>1. ~ Free.open
    BY DEF Free
  <2> QED
    BY <1>11, <2>1, Stays, Closes DEF LogFails
<1>12. ASSUME NEW q \in Requests, AnswerLost(q)
       PROVE  Guarded'
  <2> DEFINE r == [req[q] EXCEPT !.waits = FALSE]
  <2>1. r.open <=> req[q].open
    BY RequestTyped DEF RequestType
  <2>2. Put(q, r)
    BY <1>12 DEF AnswerLost
  <2> HIDE DEF r
  <2> QED
    BY <1>12, <2>1, <2>2, Stays DEF AnswerLost
<1>13. CASE Restart
  <2>1. Opened' = {}
    BY <1>13 DEF Restart, Opened, Free
  <2>2. inflight' = 0
    BY <1>13 DEF Restart
  <2> QED
    BY <2>1, <2>2, FS_EmptySet DEF Guarded, Counted, AgentRunAssumption
<1>14. CASE Expire
  BY <1>14 DEF Expire, Guarded, Counted, Opened
<1> QED
  BY <1>1, <1>2, <1>3, <1>4, <1>5, <1>6, <1>7, <1>8, <1>9, <1>10, <1>11, <1>12,
     <1>13, <1>14 DEF Next

-----------------------------------------------------------------------------
LEMMA InitInv ==
  ASSUME AgentRunAssumption, Init
  PROVE  IInv
<1>1. TypeOK
  BY FreeTyped DEF Init, TypeOK, Drafts
<1>2. NamedIsShown /\ Mails /\ OneWait /\ SendsAwaited
  BY DEF Init, Free, NamedIsShown, Mails, MailOf, OneWait, SendsAwaited
<1>3. Opened = {}
  BY DEF Init, Free, Opened
<1>4. Guarded
  BY <1>3, FS_EmptySet DEF Init, Guarded, Counted, AgentRunAssumption
<1> QED
  BY <1>1, <1>2, <1>4 DEF IInv

LEMMA InvStep ==
  ASSUME AgentRunAssumption, IInv, [Next]_vars
  PROVE  IInv'
  BY TypeStep, ShownStep, MailStep, WaitStep, SendsStep, CountStep DEF IInv

LEMMA Invariance == Spec => []IInv
<1>1. Init => IInv
  BY InitInv, AgentRunAssumption
<1>2. IInv /\ [Next]_vars => IInv'
  BY InvStep, AgentRunAssumption
<1> QED
  BY <1>1, <1>2, PTL DEF Spec

\* Type correctness.
THEOREM TypeCorrect == Spec => []TypeOK
<1>1. IInv => TypeOK
  BY DEF IInv
<1> QED
  BY <1>1, Invariance, PTL

\* A mail that a tab approved says what the draft it approved says.
THEOREM ApprovedShown == Spec => []ApprovedIsShown
<1>1. IInv => ApprovedIsShown
  BY DEF IInv, NamedIsShown, Mails, MailOf, ApprovedIsShown
<1> QED
  BY <1>1, Invariance, PTL

\* A request sends one mail at most, and its answer says whether it has.
THEOREM OneMail == Spec => []OneMailPerAnswer
<1>1. IInv => OneMailPerAnswer
  <2> SUFFICES ASSUME IInv, NEW q \in Requests
               PROVE  LET r == req[q] IN
                      /\ r.sent <= (IF r.op \in {"confirm", "send"} THEN 1 ELSE 0)
                      /\ r.pc \in {"end", "telemetry"} /\ r.op # "read" =>
                           \/ (r.status = "completed") = (r.sent = 1)
                           \/ r.lost
    BY DEF OneMailPerAnswer
  <2>1. MailOf(req[q]) /\ req[q] \in RequestType
    BY RequestTyped DEF IInv, Mails
  <2>2. req[q].pc \in {"idle", "think", "tools", "log", "end", "telemetry"}
    BY <2>1 DEF RequestType, Pcs
  <2>3. /\ req[q].sent \in {0, 1}
        /\ req[q].sent = 1 => req[q].op \in {"confirm", "send"}
    BY <2>1, <2>2 DEF MailOf
  <2>4. req[q].sent <= (IF req[q].op \in {"confirm", "send"} THEN 1 ELSE 0)
    BY <2>3
  <2> QED
    BY <2>1, <2>4 DEF MailOf
<1> QED
  BY <1>1, Invariance, PTL

\* A draft is mailed once on a tab's approvals, unless one of them was not
\* answered, or not heard by the provider.
THEOREM SendsOnce == Spec => []ApprovalSendsOnce
<1>1. IInv => ApprovalSendsOnce
  BY DEF IInv, SendsAwaited, ApprovalSendsOnce, TypeOK
<1> QED
  BY <1>1, Invariance, PTL

\* The guard counts the requests that are not answered, and admits no more than
\* it may.
THEOREM GuardCounts == Spec => []GuardCountsRequests
<1>1. IInv => GuardCountsRequests
  BY DEF IInv, Guarded, Counted, Opened, GuardCountsRequests
<1> QED
  BY <1>1, Invariance, PTL

=============================================================================
