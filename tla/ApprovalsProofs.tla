--------------------------- MODULE ApprovalsProofs --------------------------
(***************************************************************************)
(* What holds of Approvals for every number of runs, agents, handlers,      *)
(* requests, calls and faults.                                              *)
(***************************************************************************)
EXTENDS Approvals, FiniteSetTheorems, TLAPS

-----------------------------------------------------------------------------
\* The parts of the inductive invariant.

HdlFull == [pc : HdlPc, run : Runs \cup {NoRun}, late : BOOLEAN,
            by : Requests \cup {NoRequest}]
ReqFull == [op : {"resolve", "resume"}, pc : ReqPc, run : Runs \cup {NoRun},
            yes : BOOLEAN, ends : BOOLEAN, go : BOOLEAN]

Decided(r) == cp[r] \in {"APPROVED", "REJECTED"}
Held(r)    == \E h \in Handlers : hdl[h].run = r

\* An execution has a run of its own, whose checkpoint it has created or not yet.
RunOf(h) ==
  /\ hdl[h].run # NoRun <=> hdl[h].pc \in {"begin", "work", "wait", "pause", "report"}
  /\ hdl[h].run # NoRun => run[hdl[h].run] # "none"
  /\ hdl[h].pc \in {"begin", "work", "report"} => cp[hdl[h].run] = "none"
  /\ hdl[h].pc = "wait" => cp[hdl[h].run] # "none"
  /\ hdl[h].pc = "pause" /\ hdl[h].late => cp[hdl[h].run] # "none"
  /\ hdl[h].late => hdl[h].pc \in {"work", "wait", "pause", "report"}
  /\ hdl[h].pc = "report" => run[hdl[h].run] \in Terminal
RunsHeld ==
  /\ \A h \in Handlers : RunOf(h)
  /\ \A g, h \in Handlers : g # h /\ hdl[g].run # NoRun => hdl[g].run # hdl[h].run
  /\ \A r \in Runs : /\ run[r] = "none" => cp[r] = "none"
                     /\ run[r] # "none" => owner[r] \in Agents

\* Who decides a checkpoint found it undecided, and finds it so, unless another
\* request does the same.
Deciding(q) == req[q].pc \in {"tx", "commit"}
DecidingOf(q) ==
  Deciding(q) => /\ req[q].op = "resolve" /\ req[q].run \in Runs
                 /\ cp[req[q].run] # "none"
                 /\ cp[req[q].run] = "PENDING" \/ req[q].run \in twice
Deciders ==
  /\ \A q \in Requests : DecidingOf(q)
  /\ \A p, q \in Requests :
       p # q /\ Deciding(p) /\ Deciding(q) /\ req[p].run = req[q].run =>
         req[p].run \in twice

\* One handler executes the task, and the task is RUNNING meanwhile.
Active(h) == hdl[h].pc \in {"load", "begin", "work", "wait", "pause", "report"}
Exclusive ==
  loose \cap {"forced", "seen"} = {} =>
    /\ \A g, h \in Handlers : Active(g) /\ Active(h) => g = h
    /\ \A h \in Handlers : Active(h) => task = "RUNNING"

\* A run whose checkpoint is decided, or about to be, while it is held is early.
Earliness ==
  /\ \A r \in Runs : Decided(r) /\ Held(r) => r \in early
  /\ \A q \in Requests : req[q].pc = "commit" =>
       /\ Held(req[q].run) => req[q].run \in early
       /\ ~ req[q].ends => \/ run[req[q].run] # "WAITING_HUMAN"
                           \/ req[q].run \in early
  /\ \A r \in early \cup aside : cp[r] # "none"

\* Who waits has asked, and what is decided ends the wait, but for the runs of
\* early decisions and those a resume has left aside.
Asks(r) == run[r] = "WAITING_HUMAN" /\ (cp[r] = "PENDING" \/ r \in early \cup aside)
Asked ==
  /\ \A r \in Runs : Decided(r) /\ run[r] = "WAITING_HUMAN" =>
                       r \in early \cup aside \/ Held(r)
  /\ \A a \in Agents : agent[a] = "WAITING_HUMAN" =>
                         \E r \in Runs : owner[r] = a /\ Asks(r)

\* Who will take an unfinished task on: a handler or a message, while none is
\* lost; a checkpoint that is not approved, or a run whose decision came early.
Blocks(r)    == cp[r] \in {"PENDING", "REJECTED"}
Stays(r)     == Blocks(r) \/ (r \in early /\ run[r] = "WAITING_HUMAN")
Approving(q) == req[q].pc = "commit" /\ req[q].yes
Carried ==
  /\ "fault" \notin loose =>
       /\ task = "RUNNING" => \E h \in Handlers : Active(h)
       /\ task = "QUEUED" =>
            \/ \E h \in Handlers : hdl[h].pc \in {"claim", "loop", "look", "grab"}
            \/ \E q \in Requests : req[q].pc = "publish"
  /\ "split" \notin loose =>
       /\ \A q \in Requests : Approving(q) /\ ~ req[q].go =>
            \E r \in Runs : r # req[q].run /\ Blocks(r)
       /\ \A p, q \in Requests : Approving(p) /\ Approving(q) => p = q
  /\ loose \cap {"fault", "bare", "split"} = {} /\ task = "PAUSED" =>
       \E r \in Runs : Stays(r)

IInv == TypeOK /\ RunsHeld /\ Deciders /\ Exclusive /\ Earliness /\ Asked /\ Carried

-----------------------------------------------------------------------------
\* What the steps do to handlers and requests.

Others(h) == \A g \in Handlers \ {h} : /\ hdl'[g].pc = hdl[g].pc
                                       /\ hdl'[g].run = hdl[g].run
                                       /\ (hdl'[g].late <=> hdl[g].late)
Becomes(h, l, r) == Others(h) /\ hdl'[h].pc = l /\ hdl'[h].run = r
Goes(h, l) == Becomes(h, l, hdl[h].run) /\ (hdl'[h].late <=> hdl[h].late)
Ends(h)    == Becomes(h, "idle", NoRun) /\ ~ hdl'[h].late
Loops(h)   == Becomes(h, "loop", NoRun) /\ ~ hdl'[h].late

\* An execution begins with a run of its own.
Executes(h) ==
  \E r \in Runs : /\ run[r] = "none" /\ run'[r] = "ACTIVE" /\ owner'[r] \in Agents
                  /\ \A s \in Runs \ {r} : run'[s] = run[s] /\ owner'[s] = owner[s]
                  /\ Becomes(h, "begin", r) /\ (hdl'[h].late <=> hdl[h].late)

\* Only the run of h changes.
RunBecomes(h, S) ==
  /\ run'[hdl[h].run] \in S
  /\ \A s \in Runs \ {hdl[h].run} : run'[s] = run[s]

\* Requests are answered, and nothing else.
Asking ==
  \A q \in Requests : \/ req'[q] = req[q]
                      \/ /\ req[q].pc \in {"posted", "kicked"}
                         /\ req'[q].pc \in {"kick", "idle"}
Rest(q) == \A p \in Requests \ {q} : req'[p] = req[p]

Ended     == \A r \in Runs : \/ run'[r] = run[r]
                             \/ run[r] = "WAITING_HUMAN" /\ run'[r] = "COMPLETED"
Activated == \A a \in Agents : agent'[a] = agent[a] \/ agent'[a] = "ACTIVE"

\* Only the run of the trace is ended, and then its agent is active.
Freeing ==
  /\ \A r \in Runs \ TracedRuns : run'[r] = run[r]
  /\ \A r \in TracedRuns : /\ run'[r] # "WAITING_HUMAN"
                           /\ owner[r] \in Agents => agent'[owner[r]] = "ACTIVE"

-----------------------------------------------------------------------------
LEMMA Full ==
  ASSUME TypeOK
  PROVE  /\ \A h \in Handlers : hdl[h].pc # "idle" => hdl[h] \in HdlFull
         /\ \A h \in Handlers : hdl[h] \in HdlFull \/ hdl[h] = Free
         /\ \A q \in Requests : req[q].pc # "idle" => req[q] \in ReqFull
         /\ \A q \in Requests : req[q] \in ReqFull \/ req[q] = Idle
  BY DEF TypeOK, HdlFull, ReqFull, Free, Idle

LEMMA Fulls ==
  /\ \A r \in HdlFull : r.pc # "idle" /\ r # Free
  /\ \A c \in ReqFull : c.pc # "idle" /\ c # Idle
  BY DEF HdlFull, ReqFull, HdlPc, ReqPc, Free, Idle

\* An answer leaves alone who decides or publishes.
LEMMA Replied ==
  ASSUME TypeOK, NEW h \in Handlers, Reply(h)
  PROVE  req' \in [Requests -> ReqFull \cup {Idle}] /\ Asking
<1>1. ASSUME NEW q \in Requests
      PROVE  /\ Answered(q) \in ReqFull \cup {Idle}
             /\ \/ Answered(q) = req[q]
                \/ /\ req[q].pc \in {"posted", "kicked"}
                   /\ Answered(q).pc \in {"kick", "idle"}
  <2>1. CASE req[q].pc = "posted"
    <3>1. Answered(q) = [req[q] EXCEPT !.pc = "kick"] /\ req[q] \in ReqFull
      BY <2>1, Full DEF Answered
    <3> QED
      BY <2>1, <3>1 DEF ReqFull, ReqPc
  <2>2. CASE req[q].pc = "kicked"
    <3>1. Answered(q) = Idle
      BY <2>2 DEF Answered
    <3> QED
      BY <2>2, <3>1 DEF Idle
  <2>3. CASE req[q].pc \notin {"posted", "kicked"}
    <3>1. Answered(q) = req[q]
      BY <2>3 DEF Answered
    <3> QED
      BY <3>1, Full
  <2> QED
    BY <2>1, <2>2, <2>3
<1> QED
  BY <1>1, Full DEF Reply, Asking

LEMMA Stepped ==
  ASSUME TypeOK, NEW h \in Handlers, NEW l \in HdlPc, hdl[h].pc # "idle", Step(h, l)
  PROVE  hdl' \in [Handlers -> HdlFull \cup {Free}] /\ Goes(h, l)
<1> DEFINE r == [hdl[h] EXCEPT !.pc = l]
<1>1. hdl' = [hdl EXCEPT ![h] = r]
  BY DEF Step
<1>2. r \in HdlFull /\ r.pc = l /\ r.run = hdl[h].run /\ (r.late <=> hdl[h].late)
  BY Full DEF HdlFull
<1> HIDE DEF r
<1>3. hdl \in [Handlers -> HdlFull \cup {Free}]
  BY DEF TypeOK, HdlFull
<1> QED
  BY <1>1, <1>2, <1>3 DEF Goes, Becomes, Others

LEMMA Freed ==
  ASSUME TypeOK, NEW h \in Handlers, hdl' = [hdl EXCEPT ![h] = Free]
  PROVE  hdl' \in [Handlers -> HdlFull \cup {Free}] /\ Ends(h)
  BY DEF TypeOK, HdlFull, Free, Ends, Becomes, Others

LEMMA Looped ==
  ASSUME TypeOK, NEW h \in Handlers,
         hdl' = [hdl EXCEPT ![h] = [Free EXCEPT !.pc = "loop", !.by = hdl[h].by]]
  PROVE  hdl' \in [Handlers -> HdlFull \cup {Free}] /\ Loops(h)
<1> DEFINE r == [Free EXCEPT !.pc = "loop", !.by = hdl[h].by]
<1>0. hdl[h].by \in Requests \cup {NoRequest}
  BY Full DEF HdlFull, Free
<1>1. r \in HdlFull /\ r.pc = "loop" /\ r.run = NoRun /\ ~ r.late
  BY <1>0 DEF HdlFull, HdlPc, Free
<1> HIDE DEF r
<1>2. hdl \in [Handlers -> HdlFull \cup {Free}] /\ hdl' = [hdl EXCEPT ![h] = r]
  BY DEF TypeOK, HdlFull, r
<1> QED
  BY <1>1, <1>2 DEF Loops, Becomes, Others

LEMMA Executed ==
  ASSUME TypeOK, NEW h \in Handlers, hdl[h].pc # "idle", Execute(h)
  PROVE  /\ hdl' \in [Handlers -> HdlFull \cup {Free}]
         /\ run' \in [Runs -> AgentStatus \cup {"none"}]
         /\ owner' \in [Runs -> Agents \cup {NoAgent}]
         /\ Executes(h)
<1>1. PICK s \in Runs, a \in Agents :
        /\ run[s] = "none" /\ run' = [run EXCEPT ![s] = "ACTIVE"]
        /\ owner' = [owner EXCEPT ![s] = a]
        /\ hdl' = [hdl EXCEPT ![h].pc = "begin", ![h].run = s]
  BY DEF Execute
<1> DEFINE r == [hdl[h] EXCEPT !.pc = "begin", !.run = s]
<1>2. r \in HdlFull /\ r.pc = "begin" /\ r.run = s /\ (r.late <=> hdl[h].late)
  BY Full DEF HdlFull, HdlPc
<1>3. hdl' = [hdl EXCEPT ![h] = r]
  BY <1>1, Full DEF HdlFull
<1> HIDE DEF r
<1>4. hdl' \in [Handlers -> HdlFull \cup {Free}] /\ Becomes(h, "begin", s)
      /\ (hdl'[h].late <=> hdl[h].late)
  BY <1>2, <1>3 DEF TypeOK, HdlFull, Becomes, Others
<1> QED
  BY <1>1, <1>4 DEF TypeOK, AgentStatus, Executes

LEMMA EndsTraced ==
  ASSUME TypeOK, run' = EndTraced
  PROVE  run' \in [Runs -> AgentStatus \cup {"none"}] /\ Ended
  BY DEF TypeOK, EndTraced, Set, Ended, AgentStatus

LEMMA Frees ==
  ASSUME TypeOK, run' = EndTraced, agent' = Set(agent, TracedAgents, "ACTIVE")
  PROVE  Freeing
<1>1. \A r \in Runs : r \in {t \in TracedRuns : run[t] = "WAITING_HUMAN"} =>
                                                  run'[r] = "COMPLETED"
  BY DEF TypeOK, EndTraced, Set
<1>2. \A r \in Runs : r \notin {t \in TracedRuns : run[t] = "WAITING_HUMAN"} =>
                                                  run'[r] = run[r]
  BY DEF TypeOK, EndTraced, Set
<1>3. \A a \in Agents : a \in TracedAgents => agent'[a] = "ACTIVE"
  BY DEF TypeOK, Set
<1> QED
  BY <1>1, <1>2, <1>3 DEF Freeing, TracedAgents, TracedRuns

LEMMA Sets ==
  ASSUME TypeOK, NEW S, NEW v \in AgentStatus, agent' = Set(agent, S, v)
  PROVE  /\ agent' \in [Agents -> AgentStatus]
         /\ \A a \in Agents : agent'[a] = agent[a] \/ (a \in S /\ agent'[a] = v)
  BY DEF TypeOK, Set

LEMMA Spent ==
  ASSUME TypeOK, NEW k \in {"resolve", "resume", "faults"}, Spend(k)
  PROVE  budget' \in [resolve : Nat, resume : Nat, faults : Nat]
<1>1. CASE k = "resolve"
  BY <1>1 DEF TypeOK, Spend
<1>2. CASE k = "resume"
  BY <1>2 DEF TypeOK, Spend
<1>3. CASE k = "faults"
  BY <1>3 DEF TypeOK, Spend
<1> QED
  BY <1>1, <1>2, <1>3

-----------------------------------------------------------------------------
\* What each action of the worker does.

LEMMA ClaimDoes ==
  ASSUME TypeOK, NEW h \in Handlers, ClaimResumed(h)
  PROVE  /\ TypeOK' /\ hdl[h].pc = "claim" /\ Ended /\ Activated
         /\ UNCHANGED <<traced, cp, owner, early, aside, twice, loose>>
         /\ \/ task \in Claimable /\ task' = "RUNNING" /\ Goes(h, "load") /\ req' = req
            \/ /\ task \notin Claimable /\ Ends(h) /\ Asking
               /\ UNCHANGED <<task, run, agent>>
         /\ task \in Claimable => Freeing
<1>1. CASE task \in Claimable
  <2>1. /\ hdl' \in [Handlers -> HdlFull \cup {Free}] /\ Goes(h, "load")
        /\ task' = "RUNNING" /\ req' = req
    BY <1>1, Stepped DEF ClaimResumed, HdlPc
  <2>2. run' \in [Runs -> AgentStatus \cup {"none"}] /\ Ended
    BY <1>1, EndsTraced DEF ClaimResumed
  <2>3. agent' \in [Agents -> AgentStatus] /\ Activated
    BY <1>1, Sets DEF ClaimResumed, AgentStatus, Activated
  <2>4. Freeing
    BY <1>1, Frees DEF ClaimResumed
  <2> QED
    BY <1>1, <2>1, <2>2, <2>3, <2>4 DEF ClaimResumed, ghosts, TypeOK, HdlFull, TaskStatus
<1>2. CASE task \notin Claimable
  <2>1. /\ hdl' \in [Handlers -> HdlFull \cup {Free}] /\ Ends(h)
        /\ UNCHANGED <<task, run, agent>>
    BY <1>2, Freed DEF ClaimResumed
  <2>2. req' \in [Requests -> ReqFull \cup {Idle}] /\ Asking
    BY <1>2, Replied DEF ClaimResumed
  <2> QED
    BY <1>2, <2>1, <2>2 DEF ClaimResumed, ghosts, TypeOK, HdlFull, ReqFull, Ended, Activated
<1> QED
  BY <1>1, <1>2

LEMMA DispatchDoes ==
  ASSUME TypeOK, NEW h \in Handlers, Dispatch(h)
  PROVE  /\ TypeOK' /\ hdl[h].pc = "loop"
         /\ UNCHANGED <<rows, early, aside, twice, loose>>
         /\ \/ task = "QUEUED" /\ Goes(h, "look") /\ req' = req
            \/ task # "QUEUED" /\ Ends(h) /\ Asking
<1>1. CASE task = "QUEUED"
  <2>1. hdl' \in [Handlers -> HdlFull \cup {Free}] /\ Goes(h, "look") /\ req' = req
    BY <1>1, Stepped DEF Dispatch, HdlPc
  <2> QED
    BY <1>1, <2>1 DEF Dispatch, rows, ghosts, TypeOK, HdlFull
<1>2. CASE task # "QUEUED"
  <2>1. hdl' \in [Handlers -> HdlFull \cup {Free}] /\ Ends(h)
    BY <1>2, Freed DEF Dispatch
  <2>2. req' \in [Requests -> ReqFull \cup {Idle}] /\ Asking
    BY <1>2, Replied DEF Dispatch
  <2> QED
    BY <1>2, <2>1, <2>2 DEF Dispatch, rows, ghosts, TypeOK, HdlFull, ReqFull
<1> QED
  BY <1>1, <1>2

LEMMA LoadDoes ==
  ASSUME TypeOK, NEW h \in Handlers, Load(h)
  PROVE  /\ TypeOK' /\ hdl[h].pc \in {"look", "load"}
         /\ UNCHANGED <<task, traced, cp, agent, req, early, aside, twice>>
         /\ \/ /\ task = "QUEUED" /\ Goes(h, "grab")
               /\ UNCHANGED <<run, owner, loose>>
            \/ /\ task \in Terminal /\ Goes(h, "loop")
               /\ UNCHANGED <<run, owner, loose>>
            \/ /\ task \notin Terminal \cup {"QUEUED"} /\ Executes(h)
               /\ loose \subseteq loose' /\ loose' \subseteq loose \cup {"seen"}
               /\ hdl[h].pc = "look" => "seen" \in loose'
<1>1. CASE task \in Terminal \cup {"QUEUED"}
  <2>1. CASE task = "QUEUED"
    <3>1. hdl' \in [Handlers -> HdlFull \cup {Free}] /\ Goes(h, "grab")
      BY <1>1, <2>1, Stepped DEF Load, HdlPc
    <3> QED
      BY <1>1, <2>1, <3>1 DEF Load, TypeOK, HdlFull
  <2>2. CASE task # "QUEUED"
    <3>1. hdl' \in [Handlers -> HdlFull \cup {Free}] /\ Goes(h, "loop")
      BY <1>1, <2>2, Stepped DEF Load, HdlPc
    <3> QED
      BY <1>1, <2>2, <3>1 DEF Load, TypeOK, HdlFull
  <2> QED
    BY <2>1, <2>2
<1>2. CASE task \notin Terminal \cup {"QUEUED"}
  <2>1. /\ hdl' \in [Handlers -> HdlFull \cup {Free}] /\ Executes(h)
        /\ run' \in [Runs -> AgentStatus \cup {"none"}]
        /\ owner' \in [Runs -> Agents \cup {NoAgent}]
    BY <1>2, Executed DEF Load
  <2>2. /\ loose \subseteq loose' /\ loose' \subseteq loose \cup {"seen"}
        /\ hdl[h].pc = "look" => "seen" \in loose'
    BY <1>2 DEF Load
  <2> QED
    BY <1>2, <2>1, <2>2 DEF Load, TypeOK, HdlFull
<1> QED
  BY <1>1, <1>2

LEMMA GrabDoes ==
  ASSUME TypeOK, NEW h \in Handlers, Grab(h)
  PROVE  /\ TypeOK' /\ hdl[h].pc = "grab"
         /\ UNCHANGED <<traced, cp, agent, req, early, aside, twice, loose>>
         /\ \/ task = "QUEUED" /\ task' = "RUNNING" /\ Executes(h)
            \/ /\ task # "QUEUED" /\ Goes(h, "loop")
               /\ UNCHANGED <<task, run, owner>>
<1>1. CASE task = "QUEUED"
  <2>1. /\ hdl' \in [Handlers -> HdlFull \cup {Free}] /\ Executes(h)
        /\ run' \in [Runs -> AgentStatus \cup {"none"}]
        /\ owner' \in [Runs -> Agents \cup {NoAgent}]
    BY <1>1, Executed DEF Grab
  <2> QED
    BY <1>1, <2>1 DEF Grab, ghosts, TypeOK, HdlFull, TaskStatus
<1>2. CASE task # "QUEUED"
  <2>1. hdl' \in [Handlers -> HdlFull \cup {Free}] /\ Goes(h, "loop")
    BY <1>2, Stepped DEF Grab, HdlPc
  <2> QED
    BY <1>2, <2>1 DEF Grab, ghosts, TypeOK, HdlFull
<1> QED
  BY <1>1, <1>2

LEMMA BeginDoes ==
  ASSUME TypeOK, RunsHeld, NEW h \in Handlers, Begin(h)
  PROVE  /\ TypeOK' /\ hdl[h].pc = "begin" /\ hdl[h].run \in Runs
         /\ UNCHANGED <<traced, cp, owner, agent, req, early, aside, twice, loose>>
         /\ \/ task' = task /\ RunBecomes(h, {"BLOCKED"}) /\ Goes(h, "pause")
            \/ task' = "RUNNING" /\ run' = run /\ Becomes(h, "work", hdl[h].run)
<1>0. hdl[h] \in HdlFull /\ hdl[h].run \in Runs
  BY Full DEF Begin, HdlFull, RunsHeld, RunOf
<1>1. CASE Step(h, "pause") /\ task' = task
           /\ run' = [run EXCEPT ![hdl[h].run] = "BLOCKED"]
  <2>1. hdl' \in [Handlers -> HdlFull \cup {Free}] /\ Goes(h, "pause")
    BY <1>1, Stepped DEF Begin, HdlPc
  <2> QED
    BY <1>0, <1>1, <2>1
       DEF Begin, ghosts, TypeOK, HdlFull, AgentStatus, RunBecomes
<1>2. CASE task' = "RUNNING" /\ run' = run
           /\ hdl' = [hdl EXCEPT ![h].pc = "work", ![h].late = TRUE]
  <2> DEFINE r == [hdl[h] EXCEPT !.pc = "work", !.late = TRUE]
  <2>1. hdl' = [hdl EXCEPT ![h] = r] /\ hdl \in [Handlers -> HdlFull \cup {Free}]
    BY <1>2, <1>0 DEF HdlFull, TypeOK
  <2>2. r \in HdlFull /\ r.pc = "work" /\ r.run = hdl[h].run /\ r.late
    BY <1>0 DEF HdlFull, HdlPc
  <2> HIDE DEF r
  <2>3. /\ hdl' \in [Handlers -> HdlFull \cup {Free}]
        /\ Becomes(h, "work", hdl[h].run)
    BY <2>1, <2>2 DEF Becomes, Others
  <2> QED
    BY <1>0, <1>2, <2>3 DEF Begin, ghosts, TypeOK, HdlFull, TaskStatus
<1> QED
  BY <1>1, <1>2 DEF Begin

LEMMA WorkDoes ==
  ASSUME TypeOK, RunsHeld, NEW h \in Handlers, Work(h)
  PROVE  /\ TypeOK' /\ hdl[h].pc = "work" /\ hdl[h].run \in Runs
         /\ UNCHANGED <<task, traced, cp, owner, agent, req, early, aside, twice, loose>>
         /\ RunBecomes(h, Terminal) /\ Goes(h, "report")
<1>1. hdl[h].run \in Runs
  BY Full DEF Work, HdlFull, RunsHeld, RunOf
<1>2. hdl' \in [Handlers -> HdlFull \cup {Free}] /\ Goes(h, "report")
  BY Stepped DEF Work, HdlPc
<1> QED
  BY <1>1, <1>2
     DEF Work, ghosts, TypeOK, HdlFull, AgentStatus, Terminal, RunBecomes

LEMMA AskDoes ==
  ASSUME TypeOK, RunsHeld, NEW h \in Handlers, Ask(h)
  PROVE  /\ TypeOK' /\ hdl[h].pc \in {"begin", "work"} /\ hdl[h].run \in Runs
         /\ UNCHANGED <<task, traced, run, owner, agent, req, early, aside, twice, loose>>
         /\ cp'[hdl[h].run] = "PENDING" /\ Goes(h, "wait")
         /\ \A r \in Runs \ {hdl[h].run} : cp'[r] = cp[r]
<1>1. hdl[h].run \in Runs
  BY Full DEF Ask, HdlFull, RunsHeld, RunOf
<1>2. hdl' \in [Handlers -> HdlFull \cup {Free}] /\ Goes(h, "wait")
  BY Stepped DEF Ask, HdlPc
<1> QED
  BY <1>1, <1>2 DEF Ask, ghosts, TypeOK, HdlFull, CpStatus

LEMMA WaitDoes ==
  ASSUME TypeOK, RunsHeld, NEW h \in Handlers, Wait(h)
  PROVE  /\ TypeOK' /\ hdl[h].pc = "wait" /\ hdl[h].run \in Runs
         /\ UNCHANGED <<task, traced, cp, owner, agent, req, early, aside, twice, loose>>
         /\ RunBecomes(h, {"WAITING_HUMAN"}) /\ Goes(h, "pause")
<1>1. hdl[h].run \in Runs
  BY Full DEF Wait, HdlFull, RunsHeld, RunOf
<1>2. hdl' \in [Handlers -> HdlFull \cup {Free}] /\ Goes(h, "pause")
  BY Stepped DEF Wait, HdlPc
<1> QED
  BY <1>1, <1>2 DEF Wait, ghosts, TypeOK, HdlFull, AgentStatus, RunBecomes

LEMMA PauseDoes ==
  ASSUME TypeOK, RunsHeld, NEW h \in Handlers, Pause(h)
  PROVE  /\ TypeOK' /\ hdl[h].pc = "pause" /\ hdl[h].run \in Runs
         /\ UNCHANGED <<cp, owner, req, early, aside, twice>>
         /\ task' = "PAUSED" /\ RunBecomes(h, {"WAITING_HUMAN"}) /\ Loops(h)
         /\ \A a \in Agents : \/ agent'[a] = agent[a]
                              \/ /\ hdl[h].late /\ a = owner[hdl[h].run]
                                 /\ agent'[a] = "WAITING_HUMAN"
         /\ loose \subseteq loose' /\ loose' \subseteq loose \cup {"bare"}
         /\ cp[hdl[h].run] = "none" => "bare" \in loose'
<1>1. hdl[h].run \in Runs
  BY Full DEF Pause, HdlFull, RunsHeld, RunOf
<1>2. hdl' \in [Handlers -> HdlFull \cup {Free}] /\ Loops(h)
  BY Looped DEF Pause
<1>3. /\ agent' \in [Agents -> AgentStatus]
      /\ \A a \in Agents : \/ agent'[a] = agent[a]
                           \/ a \in PauseAgents(h) /\ agent'[a] = "WAITING_HUMAN"
  BY Sets DEF Pause, AgentStatus
<1>4. /\ loose \subseteq loose' /\ loose' \subseteq loose \cup {"bare"}
      /\ cp[hdl[h].run] = "none" => "bare" \in loose'
  BY DEF Pause
<1>5. RunBecomes(h, {"WAITING_HUMAN"})
      /\ run' \in [Runs -> AgentStatus \cup {"none"}]
  BY <1>1 DEF Pause, TypeOK, AgentStatus, RunBecomes
<1>6. traced' \in Runs \cup {NoRun}
  BY <1>1 DEF Pause, TypeOK
<1>7. \A a \in PauseAgents(h) : hdl[h].late /\ a = owner[hdl[h].run]
  BY DEF PauseAgents
<1>8. UNCHANGED <<cp, owner, req, budget, early, aside, twice>> /\ task' = "PAUSED"
      /\ hdl[h].pc = "pause"
  BY DEF Pause
<1> QED
  BY <1>1, <1>2, <1>3, <1>4, <1>5, <1>6, <1>7, <1>8 DEF TypeOK, HdlFull, TaskStatus

LEMMA ReportDoes ==
  ASSUME TypeOK, RunsHeld, NEW h \in Handlers, Report(h)
  PROVE  /\ TypeOK' /\ hdl[h].pc = "report" /\ hdl[h].run \in Runs
         /\ UNCHANGED <<cp, run, owner, req, early, aside, twice, loose>>
         /\ task' \in Terminal /\ Loops(h)
         /\ \A a \in Agents : agent'[a] = agent[a] \/ agent'[a] \in Terminal
<1>1. hdl[h].run \in Runs /\ run[hdl[h].run] \in Terminal
  BY Full DEF Report, HdlFull, RunsHeld, RunOf
<1>2. hdl' \in [Handlers -> HdlFull \cup {Free}] /\ Loops(h)
  BY Looped DEF Report
<1>3. /\ agent' \in [Agents -> AgentStatus]
      /\ \A a \in Agents : agent'[a] = agent[a] \/ agent'[a] \in Terminal
  BY <1>1 DEF Report, TypeOK, AgentStatus, Terminal
<1> QED
  BY <1>1, <1>2, <1>3 DEF Report, ghosts, TypeOK, HdlFull, TaskStatus

LEMMA HandlerDiesDoes ==
  ASSUME TypeOK, NEW h \in Handlers, HandlerDies(h)
  PROVE  /\ TypeOK' /\ UNCHANGED <<rows, early, aside, twice>>
         /\ loose' = loose \cup {"fault"} /\ Ends(h) /\ Asking
<1>1. hdl' \in [Handlers -> HdlFull \cup {Free}] /\ Ends(h)
  BY Freed DEF HandlerDies
<1>2. req' \in [Requests -> ReqFull \cup {Idle}] /\ Asking
  BY Replied DEF HandlerDies
<1>3. budget' \in [resolve : Nat, resume : Nat, faults : Nat]
  BY Spent DEF HandlerDies, Fault
<1> QED
  BY <1>1, <1>2, <1>3 DEF HandlerDies, Fault, rows, TypeOK, HdlFull, ReqFull

-----------------------------------------------------------------------------
\* What each action of a request does.

LEMMA ResolveDoes ==
  ASSUME TypeOK, NEW q \in Requests, NEW r \in Runs, NEW yes \in BOOLEAN,
         Resolve(q, r, yes)
  PROVE  /\ TypeOK' /\ UNCHANGED <<rows, hdl, early, aside, loose>>
         /\ cp[r] = "PENDING" /\ req[q].pc = "idle" /\ Rest(q)
         /\ req'[q].pc = "tx" /\ req'[q].op = "resolve" /\ req'[q].run = r
         /\ twice \subseteq twice'
         /\ \A p \in Requests : req[p].op = "resolve" /\ req[p].run = r /\ Deciding(p)
                                  => r \in twice'
<1> DEFINE c == [Idle EXCEPT !.op = "resolve", !.pc = "tx", !.run = r, !.yes = yes]
<1>1. c \in ReqFull /\ c.pc = "tx" /\ c.op = "resolve" /\ c.run = r
  BY DEF ReqFull, ReqPc, Idle
<1>2. /\ req \in [Requests -> ReqFull \cup {Idle}] /\ req' = [req EXCEPT ![q] = c]
      /\ req[q].pc = "idle"
  BY DEF TypeOK, ReqFull, Resolve, Idle
<1> HIDE DEF c
<1>3. /\ req' \in [Requests -> ReqFull \cup {Idle}] /\ Rest(q)
      /\ req'[q].pc = "tx" /\ req'[q].op = "resolve" /\ req'[q].run = r
  BY <1>1, <1>2 DEF Rest
<1>4. budget' \in [resolve : Nat, resume : Nat, faults : Nat]
  BY Spent DEF Resolve
<1>5. /\ twice \subseteq twice' /\ twice' \subseteq Runs
      /\ \A p \in Requests : req[p].op = "resolve" /\ req[p].run = r /\ Deciding(p)
                               => r \in twice'
  BY DEF Resolve, TypeOK, Deciding
<1>6. UNCHANGED <<rows, hdl, early, aside, loose>> /\ cp[r] = "PENDING"
  BY DEF Resolve, Undecided
<1> QED
  BY <1>2, <1>3, <1>4, <1>5, <1>6 DEF rows, TypeOK, ReqFull

LEMMA ResolveTxDoes ==
  ASSUME TypeOK, Deciders, NEW q \in Requests, ResolveTx(q)
  PROVE  /\ TypeOK' /\ UNCHANGED <<rows, hdl, aside, twice>>
         /\ req[q].pc = "tx" /\ req[q].run \in Runs /\ Rest(q)
         /\ req'[q].pc = "commit" /\ req'[q].op = req[q].op
         /\ req'[q].run = req[q].run /\ (req'[q].yes <=> req[q].yes)
         /\ (req'[q].ends <=> run[req[q].run] = "WAITING_HUMAN")
         /\ (req'[q].go <=> req[q].yes /\ Siblings(req[q].run) = {})
         /\ \A p \in Requests : req[p].pc = "commit" =>
              /\ req[p].run # req[q].run
              /\ req[p].yes /\ req[q].yes => "split" \in loose'
         /\ loose \subseteq loose' /\ loose' \subseteq loose \cup {"split"}
         /\ early \subseteq early' /\ early' \subseteq early \cup {req[q].run}
         /\ Held(req[q].run) => req[q].run \in early'
<1>0. req[q].pc = "tx" /\ req[q] \in ReqFull /\ req[q].run \in Runs
  BY Full DEF ResolveTx, Deciders, DecidingOf, Deciding
<1> DEFINE e == run[req[q].run] = "WAITING_HUMAN"
           g == req[q].yes /\ Siblings(req[q].run) = {}
           c == [req[q] EXCEPT !.pc = "commit", !.ends = e, !.go = g]
<1>1. c \in ReqFull /\ c.pc = "commit" /\ c.op = req[q].op /\ c.run = req[q].run
      /\ (c.yes <=> req[q].yes) /\ (c.ends <=> e) /\ (c.go <=> g)
  <2>1. e \in BOOLEAN /\ g \in BOOLEAN
    BY <1>0 DEF ReqFull
  <2> HIDE DEF e, g
  <2> QED
    BY <1>0, <2>1 DEF ReqFull, ReqPc
<1>2. req \in [Requests -> ReqFull \cup {Idle}] /\ req' = [req EXCEPT ![q] = c]
  <2>1. req' = [req EXCEPT ![q].pc = "commit", ![q].ends = e, ![q].go = g]
    BY DEF ResolveTx
  <2> HIDE DEF e, g
  <2> QED
    BY <1>0, <2>1 DEF TypeOK, ReqFull
<1>3. /\ req' \in [Requests -> ReqFull \cup {Idle}] /\ Rest(q) /\ req'[q] = c
  <2> HIDE DEF c, e, g
  <2> QED
    BY <1>1, <1>2 DEF Rest
<1>4. /\ UNCHANGED <<rows, hdl, budget, aside, twice>>
      /\ \A p \in Requests : req[p].pc = "commit" =>
              /\ req[p].run # req[q].run
              /\ req[p].yes /\ req[q].yes => "split" \in loose'
      /\ loose \subseteq loose' /\ loose' \subseteq loose \cup {"split"}
      /\ early \subseteq early' /\ early' \subseteq early \cup {req[q].run}
      /\ Held(req[q].run) => req[q].run \in early'
  BY DEF ResolveTx, LockedCps, Committing, Held
<1>5. TypeOK'
  <2> HIDE DEF c, e, g
  <2> QED
    BY <1>0, <1>3, <1>4 DEF rows, TypeOK, ReqFull
<1> QED
  BY <1>0, <1>1, <1>3, <1>4, <1>5

LEMMA ResolveCommitDoes ==
  ASSUME TypeOK, RunsHeld, Deciders, NEW q \in Requests, ResolveCommit(q)
  PROVE  /\ TypeOK' /\ UNCHANGED <<traced, owner, hdl, early, aside, twice, loose>>
         /\ req[q].pc = "commit" /\ req[q].run \in Runs /\ Rest(q)
         /\ cp'[req[q].run] = Verdict(req[q].yes)
         /\ \A r \in Runs \ {req[q].run} : cp'[r] = cp[r] /\ run'[r] = run[r]
         /\ req[q].ends => run'[req[q].run] \in Terminal
         /\ ~ req[q].ends => run' = run
         /\ \A a \in Agents : \/ agent'[a] = agent[a]
                              \/ agent'[a] # "WAITING_HUMAN"
         /\ owner[req[q].run] \in Agents => agent'[owner[req[q].run]] # "WAITING_HUMAN"
         /\ \/ /\ req[q].go /\ task \in Resumable
               /\ task' = "QUEUED" /\ req'[q].pc = "publish"
            \/ /\ ~ req[q].go \/ task \notin Resumable
               /\ task' = task /\ req'[q].pc = "idle"
<1>0. req[q].pc = "commit" /\ req[q] \in ReqFull /\ req[q].run \in Runs
  BY Full DEF ResolveCommit, Deciders, DecidingOf, Deciding
<1>1. /\ req' \in [Requests -> ReqFull \cup {Idle}] /\ Rest(q)
      /\ task' \in TaskStatus
      /\ IF req[q].go /\ task \in Resumable
         THEN task' = "QUEUED" /\ req'[q].pc = "publish"
         ELSE task' = task /\ req'[q].pc = "idle"
  <2> DEFINE c == [req[q] EXCEPT !.pc = "publish"]
  <2>1. c \in ReqFull /\ c.pc = "publish" /\ Idle.pc = "idle"
    BY <1>0 DEF ReqFull, ReqPc, Idle
  <2>2. req \in [Requests -> ReqFull \cup {Idle}]
    BY DEF TypeOK, ReqFull
  <2>3. CASE req[q].go /\ task \in Resumable
    <3>1. req' = [req EXCEPT ![q] = c] /\ task' = "QUEUED"
      BY <1>0, <2>3 DEF ResolveCommit, TypeOK, ReqFull
    <3> HIDE DEF c
    <3> QED
      BY <2>1, <2>2, <2>3, <3>1 DEF Rest, TaskStatus
  <2>4. CASE ~ (req[q].go /\ task \in Resumable)
    <3>1. req' = [req EXCEPT ![q] = Idle] /\ task' = task
      BY <2>4 DEF ResolveCommit
    <3> QED
      BY <2>1, <2>2, <2>4, <3>1 DEF Rest, TypeOK
  <2> QED
    BY <2>3, <2>4
<1>2. /\ cp' \in [Runs -> CpStatus] /\ cp'[req[q].run] = Verdict(req[q].yes)
      /\ \A r \in Runs \ {req[q].run} : cp'[r] = cp[r]
  BY <1>0 DEF ResolveCommit, TypeOK, CpStatus, Verdict
<1>3. /\ run' \in [Runs -> AgentStatus \cup {"none"}]
      /\ \A r \in Runs \ {req[q].run} : run'[r] = run[r]
      /\ IF req[q].ends THEN run'[req[q].run] \in Terminal ELSE run' = run
  BY <1>0 DEF ResolveCommit, TypeOK, AgentStatus, EndOfRun, Terminal
<1>4. /\ agent' \in [Agents -> AgentStatus]
      /\ \A a \in Agents : agent'[a] = agent[a] \/ agent'[a] # "WAITING_HUMAN"
      /\ owner[req[q].run] \in Agents => agent'[owner[req[q].run]] # "WAITING_HUMAN"
  BY <1>0 DEF ResolveCommit, TypeOK, AgentStatus, AgentAfter
<1>5. UNCHANGED <<traced, owner, hdl, budget, early, aside, twice, loose>>
  BY DEF ResolveCommit, ghosts
<1>6. TypeOK'
  BY <1>1, <1>2, <1>3, <1>4, <1>5 DEF TypeOK, ReqFull
<1> QED
  BY <1>0, <1>1, <1>2, <1>3, <1>4, <1>5, <1>6

LEMMA ResumeDoes ==
  ASSUME TypeOK, Deciders, NEW q \in Requests, Resume(q)
  PROVE  /\ TypeOK' /\ UNCHANGED <<traced, owner, hdl>> /\ Ended /\ Activated /\ Freeing
         /\ req[q].pc = "idle" /\ req'[q].pc = "publish" /\ Rest(q)
         /\ \A p \in Requests : req[p].pc # "commit"
         /\ task' = "QUEUED"
         /\ \A r \in Runs : IF cp[r] = "PENDING" THEN cp'[r] = "APPROVED"
                                                 ELSE cp'[r] = cp[r]
         /\ \A r \in Runs : cp[r] = "PENDING" =>
              /\ Held(r) => r \in early'
              /\ ~ Held(r) => r \in aside' \/ r \in TracedRuns
         /\ \A r \in early' \cup aside' : r \in early \cup aside \/ cp[r] = "PENDING"
         /\ aside \subseteq aside'
         /\ \A p \in Requests : req[p].pc = "tx" => req[p].run \in twice'
         /\ early \subseteq early' /\ twice \subseteq twice'
         /\ loose \subseteq loose' /\ loose' \subseteq loose \cup {"forced"}
         /\ task = "RUNNING" => "forced" \in loose'
<1> DEFINE c == Resumed
<1>1. c \in ReqFull /\ c.pc = "publish"
  BY DEF ReqFull, ReqPc, Idle, Resumed
<1>2. /\ req \in [Requests -> ReqFull \cup {Idle}] /\ req' = [req EXCEPT ![q] = c]
      /\ req[q].pc = "idle" /\ task' = "QUEUED"
  BY DEF TypeOK, ReqFull, Resume, Idle
<1> HIDE DEF c
<1>3. req' \in [Requests -> ReqFull \cup {Idle}] /\ Rest(q) /\ req'[q].pc = "publish"
  BY <1>1, <1>2 DEF Rest
<1>4. run' \in [Runs -> AgentStatus \cup {"none"}] /\ Ended
  BY EndsTraced DEF Resume
<1>5. agent' \in [Agents -> AgentStatus] /\ Activated
  BY Sets DEF Resume, AgentStatus, Activated
<1>6. /\ cp' \in [Runs -> CpStatus]
      /\ \A r \in Runs : IF cp[r] = "PENDING" THEN cp'[r] = "APPROVED"
                                              ELSE cp'[r] = cp[r]
  BY DEF Resume, Set, TypeOK, CpStatus
<1>7. \A p \in Requests : req[p].pc = "tx" => req[p].run \in twice' /\ req[p].run \in Runs
  BY DEF Resume, Deciders, DecidingOf, Deciding
<1>8. /\ early \subseteq early' /\ early' \subseteq Runs
      /\ aside \subseteq aside' /\ aside' \subseteq Runs
      /\ twice \subseteq twice' /\ twice' \subseteq Runs
  BY <1>7 DEF Resume, TypeOK
<1>12. ASSUME NEW r \in Runs, cp[r] = "PENDING"
       PROVE  /\ Held(r) => r \in early'
              /\ ~ Held(r) => r \in aside' \/ r \in TracedRuns
  BY <1>12 DEF Resume, Held
<1>13. \A r \in early' \cup aside' : r \in early \cup aside \/ cp[r] = "PENDING"
  BY DEF Resume
<1>14. Freeing
  BY Frees DEF Resume
<1>9. /\ loose \subseteq loose' /\ loose' \subseteq loose \cup {"forced"}
      /\ task = "RUNNING" => "forced" \in loose'
      /\ \A p \in Requests : req[p].pc # "commit"
  BY DEF Resume, Committing
<1>10. budget' \in [resolve : Nat, resume : Nat, faults : Nat]
       /\ UNCHANGED <<traced, owner, hdl>>
  BY Spent DEF Resume
<1>11. TypeOK'
  BY <1>2, <1>3, <1>4, <1>5, <1>6, <1>8, <1>9, <1>10 DEF TypeOK, ReqFull, TaskStatus
<1> QED
  BY <1>2, <1>3, <1>4, <1>5, <1>6, <1>7, <1>8, <1>9, <1>10, <1>11, <1>12, <1>13, <1>14

LEMMA PostLostDoes ==
  ASSUME TypeOK, NEW q \in Requests, PostLost(q)
  PROVE  /\ TypeOK' /\ UNCHANGED <<rows, early, aside, twice>>
         /\ loose' = loose \cup {"fault"} /\ Rest(q)
         /\ req[q].pc \in {"publish", "posted", "kick", "kicked"}
         /\ req'[q].pc \in {"kick", "idle"}
         /\ \A h \in Handlers : /\ hdl'[h].pc = hdl[h].pc /\ hdl'[h].run = hdl[h].run
                                /\ (hdl'[h].late <=> hdl[h].late)
<1>1. req \in [Requests -> ReqFull \cup {Idle}] /\ hdl \in [Handlers -> HdlFull \cup {Free}]
  BY DEF TypeOK, ReqFull, HdlFull
<1>2. budget' \in [resolve : Nat, resume : Nat, faults : Nat]
  BY Spent DEF PostLost, Fault
<1>3. UNCHANGED <<rows, early, aside, twice>> /\ loose' = loose \cup {"fault"}
  BY DEF PostLost, Fault
<1>4. CASE /\ req[q].pc \in {"publish", "kick"}
           /\ req' = [req EXCEPT ![q] = IF @.pc = "kick" THEN Idle
                                        ELSE [@ EXCEPT !.pc = "kick"]]
           /\ hdl' = hdl
  <2>1. /\ req[q] \in ReqFull /\ [req[q] EXCEPT !.pc = "kick"] \in ReqFull
        /\ [req[q] EXCEPT !.pc = "kick"].pc = "kick" /\ Idle.pc = "idle"
    BY <1>4, Full DEF ReqFull, ReqPc, Idle
  <2>2. req' \in [Requests -> ReqFull \cup {Idle}] /\ Rest(q) /\ req'[q].pc \in {"kick", "idle"}
    BY <1>1, <1>4, <2>1 DEF Rest
  <2> QED
    BY <1>2, <1>3, <1>4, <2>2 DEF TypeOK, ReqFull, rows
<1>5. CASE /\ req[q].pc \in {"posted", "kicked"}
           /\ req' = [req EXCEPT ![q] = Answered(q)]
           /\ hdl' = [h \in Handlers |-> IF hdl[h].by = q
                                         THEN [hdl[h] EXCEPT !.by = NoRequest]
                                         ELSE hdl[h]]
  <2>1. Answered(q) \in ReqFull \cup {Idle} /\ Answered(q).pc \in {"kick", "idle"}
    <3>1. CASE req[q].pc = "posted"
      <4>1. Answered(q) = [req[q] EXCEPT !.pc = "kick"] /\ req[q] \in ReqFull
        BY <3>1, Full DEF Answered
      <4> QED
        BY <4>1 DEF ReqFull, ReqPc
    <3>2. CASE req[q].pc = "kicked"
      <4>1. Answered(q) = Idle
        BY <3>2 DEF Answered
      <4> QED
        BY <4>1 DEF Idle
    <3> QED
      BY <1>5, <3>1, <3>2
  <2>2. req' \in [Requests -> ReqFull \cup {Idle}] /\ Rest(q) /\ req'[q].pc \in {"kick", "idle"}
    BY <1>1, <1>5, <2>1 DEF Rest
  <2>3. ASSUME NEW h \in Handlers
        PROVE  /\ hdl'[h] \in HdlFull \cup {Free}
               /\ hdl'[h].pc = hdl[h].pc /\ hdl'[h].run = hdl[h].run
               /\ (hdl'[h].late <=> hdl[h].late)
    <3>1. CASE hdl[h].by = q
      <4>1. hdl'[h] = [hdl[h] EXCEPT !.by = NoRequest]
        BY <1>5, <3>1
      <4>2. hdl[h] \in HdlFull
        BY <3>1, Full, ApprovalsAssumption DEF Free
      <4> QED
        BY <4>1, <4>2 DEF HdlFull
    <3>2. CASE hdl[h].by # q
      BY <1>1, <1>5, <3>2
    <3> QED
      BY <3>1, <3>2
  <2>4. hdl' \in [Handlers -> HdlFull \cup {Free}]
    BY <1>5, <2>3
  <2> QED
    BY <1>2, <1>3, <1>5, <2>2, <2>3, <2>4 DEF TypeOK, ReqFull, HdlFull, rows
<1> QED
  BY <1>4, <1>5 DEF PostLost

LEMMA PostDoes ==
  ASSUME TypeOK, NEW q \in Requests, NEW h \in Handlers, Post(q, h)
  PROVE  /\ TypeOK' /\ UNCHANGED <<rows, early, aside, twice, loose>> /\ Rest(q)
         /\ hdl[h].pc = "idle" /\ hdl[h].run = NoRun /\ Becomes(h, "claim", NoRun) /\ ~ hdl'[h].late
         /\ \/ req[q].pc = "publish" /\ req'[q].pc = "posted"
            \/ req[q].pc = "kick" /\ req'[q].pc = "kicked"
<1>1. req \in [Requests -> ReqFull \cup {Idle}] /\ hdl \in [Handlers -> HdlFull \cup {Free}]
  BY DEF TypeOK, ReqFull, HdlFull
<1> DEFINE c == [Free EXCEPT !.pc = "claim", !.by = q]
           l == IF req[q].pc = "publish" THEN "posted" ELSE "kicked"
           d == [req[q] EXCEPT !.pc = l]
<1>2. c \in HdlFull /\ c.pc = "claim" /\ c.run = NoRun /\ ~ c.late
  BY DEF HdlFull, HdlPc, Free
<1>3. d \in ReqFull /\ d.pc = l
  BY Full DEF Post, ReqFull, ReqPc
<1>4. hdl' = [hdl EXCEPT ![h] = c] /\ req' = [req EXCEPT ![q] = d]
  BY <1>1 DEF Post
<1> HIDE DEF c, d
<1>5. /\ hdl' \in [Handlers -> HdlFull \cup {Free}]
      /\ Becomes(h, "claim", NoRun) /\ ~ hdl'[h].late
  BY <1>1, <1>2, <1>4 DEF Becomes, Others
<1>6. req' \in [Requests -> ReqFull \cup {Idle}] /\ Rest(q) /\ req'[q].pc = l
  BY <1>1, <1>3, <1>4 DEF Rest
<1>7. /\ UNCHANGED <<rows, budget, early, aside, twice, loose>>
      /\ hdl[h].pc = "idle" /\ hdl[h].run = NoRun /\ req[q].pc \in {"publish", "kick"}
  BY DEF Post, ghosts, Free
<1> QED
  BY <1>5, <1>6, <1>7 DEF TypeOK, ReqFull, HdlFull, rows

LEMMA DeadlockDoes ==
  ASSUME TypeOK, NEW q \in Requests, NEW h \in Handlers, Deadlock(q, h)
  PROVE  /\ TypeOK' /\ UNCHANGED <<rows, early, aside, twice>>
         /\ loose' = loose \cup {"fault"} /\ req[q].pc = "commit"
         /\ \/ Rest(q) /\ req'[q].pc = "idle" /\ hdl' = hdl
            \/ Ends(h) /\ Asking
<1>1. req \in [Requests -> ReqFull \cup {Idle}] /\ hdl \in [Handlers -> HdlFull \cup {Free}]
  BY DEF TypeOK, ReqFull, HdlFull
<1>2. /\ UNCHANGED <<rows, budget, early, aside, twice>>
      /\ loose' = loose \cup {"fault"} /\ req[q].pc = "commit"
  BY DEF Deadlock
<1>3. CASE req' = [req EXCEPT ![q] = Idle] /\ hdl' = hdl
  <2>1. req' \in [Requests -> ReqFull \cup {Idle}] /\ Rest(q) /\ req'[q].pc = "idle"
    BY <1>1, <1>3 DEF Rest, Idle
  <2> QED
    BY <1>2, <1>3, <2>1 DEF TypeOK, ReqFull, HdlFull, rows
<1>4. CASE hdl' = [hdl EXCEPT ![h] = Free] /\ Reply(h)
  <2>1. hdl' \in [Handlers -> HdlFull \cup {Free}] /\ Ends(h)
    BY <1>4, Freed
  <2>2. req' \in [Requests -> ReqFull \cup {Idle}] /\ Asking
    BY <1>4, Replied
  <2> QED
    BY <1>2, <2>1, <2>2 DEF TypeOK, ReqFull, HdlFull, rows
<1> QED
  BY <1>3, <1>4 DEF Deadlock

LEMMA Typed ==
  ASSUME TypeOK
  PROVE  /\ task \in TaskStatus /\ NoRun \notin Runs
         /\ \A r \in Runs : cp[r] \in CpStatus
         /\ \A h \in Handlers : hdl[h].run \in Runs \cup {NoRun}
         /\ \A q \in Requests : req[q].run \in Runs \cup {NoRun}
<1>1. /\ \A h \in Handlers : hdl[h].run \in Runs \cup {NoRun}
      /\ \A q \in Requests : req[q].run \in Runs \cup {NoRun}
  BY Full DEF HdlFull, ReqFull, Free, Idle
<1> QED
  BY <1>1, ApprovalsAssumption DEF TypeOK

-----------------------------------------------------------------------------
\* The parts of the invariant are kept.

LEMMA TypeStep ==
  ASSUME IInv, [Next]_vars
  PROVE  TypeOK'
<1> USE DEF IInv
<1>1. CASE UNCHANGED vars
  BY <1>1 DEF vars, TypeOK
<1>2. ASSUME NEW h \in Handlers, ClaimResumed(h)
      PROVE  TypeOK'
  BY <1>2, ClaimDoes
<1>3. ASSUME NEW h \in Handlers, Dispatch(h)
      PROVE  TypeOK'
  BY <1>3, DispatchDoes
<1>4. ASSUME NEW h \in Handlers, Load(h)
      PROVE  TypeOK'
  BY <1>4, LoadDoes
<1>5. ASSUME NEW h \in Handlers, Grab(h)
      PROVE  TypeOK'
  BY <1>5, GrabDoes
<1>6. ASSUME NEW h \in Handlers, Begin(h)
      PROVE  TypeOK'
  BY <1>6, BeginDoes
<1>7. ASSUME NEW h \in Handlers, Work(h)
      PROVE  TypeOK'
  BY <1>7, WorkDoes
<1>8. ASSUME NEW h \in Handlers, Ask(h)
      PROVE  TypeOK'
  BY <1>8, AskDoes
<1>9. ASSUME NEW h \in Handlers, Wait(h)
      PROVE  TypeOK'
  BY <1>9, WaitDoes
<1>10. ASSUME NEW h \in Handlers, Pause(h)
      PROVE  TypeOK'
  BY <1>10, PauseDoes
<1>11. ASSUME NEW h \in Handlers, Report(h)
      PROVE  TypeOK'
  BY <1>11, ReportDoes
<1>12. ASSUME NEW h \in Handlers, HandlerDies(h)
      PROVE  TypeOK'
  BY <1>12, HandlerDiesDoes
<1>13. ASSUME NEW q \in Requests, NEW r \in Runs, NEW yes \in BOOLEAN, Resolve(q, r, yes)
      PROVE  TypeOK'
  BY <1>13, ResolveDoes
<1>14. ASSUME NEW q \in Requests, ResolveTx(q)
      PROVE  TypeOK'
  BY <1>14, ResolveTxDoes
<1>15. ASSUME NEW q \in Requests, ResolveCommit(q)
      PROVE  TypeOK'
  BY <1>15, ResolveCommitDoes
<1>16. ASSUME NEW q \in Requests, Resume(q)
      PROVE  TypeOK'
  BY <1>16, ResumeDoes
<1>17. ASSUME NEW q \in Requests, PostLost(q)
      PROVE  TypeOK'
  BY <1>17, PostLostDoes
<1>18. ASSUME NEW q \in Requests, NEW h \in Handlers, Post(q, h)
      PROVE  TypeOK'
  BY <1>18, PostDoes
<1>19. ASSUME NEW q \in Requests, NEW h \in Handlers, Deadlock(q, h)
      PROVE  TypeOK'
  BY <1>19, DeadlockDoes
<1> QED
  BY <1>1, <1>2, <1>3, <1>4, <1>5, <1>6, <1>7, <1>8, <1>9, <1>10, <1>11, <1>12, <1>13,
     <1>14, <1>15, <1>16, <1>17, <1>18, <1>19 DEF Next

\* An execution has a run of its own, and the checkpoint it should have.
LEMMA RunOfStep ==
  ASSUME IInv, NEW g \in Handlers, [Next]_vars
  PROVE  RunOf(g)'
<1> USE DEF IInv
<1>1. CASE UNCHANGED vars
  BY <1>1 DEF vars, RunsHeld, RunOf, Terminal, Deciders, DecidingOf, Deciding, Verdict
<1>2. ASSUME NEW h \in Handlers, ClaimResumed(h)
      PROVE  RunOf(g)'
  BY <1>2, ClaimDoes, Typed DEF RunsHeld, RunOf, Terminal, Deciders, DecidingOf,
     Deciding, Verdict, Becomes, Others, Goes, Ends, Asking, Ended, Activated
<1>3. ASSUME NEW h \in Handlers, Dispatch(h)
      PROVE  RunOf(g)'
  BY <1>3, DispatchDoes, Typed DEF RunsHeld, RunOf, Terminal, Deciders, DecidingOf,
     Deciding, Verdict, Becomes, Others, Goes, Ends, Asking, rows
<1>4. ASSUME NEW h \in Handlers, Load(h)
      PROVE  RunOf(g)'
  BY <1>4, LoadDoes, Typed DEF RunsHeld, RunOf, Terminal, Deciders, DecidingOf,
     Deciding, Verdict, Becomes, Others, Goes, Executes
<1>5. ASSUME NEW h \in Handlers, Grab(h)
      PROVE  RunOf(g)'
  BY <1>5, GrabDoes, Typed DEF RunsHeld, RunOf, Terminal, Deciders, DecidingOf,
     Deciding, Verdict, Becomes, Others, Goes, Executes
<1>6. ASSUME NEW h \in Handlers, Begin(h)
      PROVE  RunOf(g)'
  BY <1>6, BeginDoes, Typed DEF RunsHeld, RunOf, Terminal, Deciders, DecidingOf,
     Deciding, Verdict, Becomes, Others, Goes, RunBecomes
<1>7. ASSUME NEW h \in Handlers, Work(h)
      PROVE  RunOf(g)'
  BY <1>7, WorkDoes, Typed DEF RunsHeld, RunOf, Terminal, Deciders, DecidingOf,
     Deciding, Verdict, Becomes, Others, Goes, RunBecomes
<1>8. ASSUME NEW h \in Handlers, Ask(h)
      PROVE  RunOf(g)'
  BY <1>8, AskDoes, Typed DEF RunsHeld, RunOf, Terminal, Deciders, DecidingOf,
     Deciding, Verdict, Becomes, Others, Goes
<1>9. ASSUME NEW h \in Handlers, Wait(h)
      PROVE  RunOf(g)'
  BY <1>9, WaitDoes, Typed DEF RunsHeld, RunOf, Terminal, Deciders, DecidingOf,
     Deciding, Verdict, Becomes, Others, Goes, RunBecomes
<1>10. ASSUME NEW h \in Handlers, Pause(h)
      PROVE  RunOf(g)'
  BY <1>10, PauseDoes, Typed DEF RunsHeld, RunOf, Terminal, Deciders, DecidingOf,
     Deciding, Verdict, Becomes, Others, Loops, RunBecomes
<1>11. ASSUME NEW h \in Handlers, Report(h)
      PROVE  RunOf(g)'
  BY <1>11, ReportDoes, Typed DEF RunsHeld, RunOf, Terminal, Deciders, DecidingOf,
     Deciding, Verdict, Becomes, Others, Loops
<1>12. ASSUME NEW h \in Handlers, HandlerDies(h)
      PROVE  RunOf(g)'
  BY <1>12, HandlerDiesDoes, Typed DEF RunsHeld, RunOf, Terminal, Deciders,
     DecidingOf, Deciding, Verdict, Becomes, Others, Ends, Asking, rows
<1>13. ASSUME NEW q \in Requests, NEW r \in Runs, NEW yes \in BOOLEAN, Resolve(q, r, yes)
      PROVE  RunOf(g)'
  BY <1>13, ResolveDoes, Typed DEF RunsHeld, RunOf, Terminal, Deciders, DecidingOf,
     Deciding, Verdict, Rest, rows
<1>14. ASSUME NEW q \in Requests, ResolveTx(q)
      PROVE  RunOf(g)'
  BY <1>14, ResolveTxDoes, Typed DEF RunsHeld, RunOf, Terminal, Deciders, DecidingOf,
     Deciding, Verdict, Rest, rows
<1>15. ASSUME NEW q \in Requests, ResolveCommit(q)
      PROVE  RunOf(g)'
  BY <1>15, ResolveCommitDoes, Typed DEF RunsHeld, RunOf, Terminal, Deciders,
     DecidingOf, Deciding, Verdict, Rest
<1>16. ASSUME NEW q \in Requests, Resume(q)
      PROVE  RunOf(g)'
  BY <1>16, ResumeDoes, Typed DEF RunsHeld, RunOf, Terminal, Deciders, DecidingOf,
     Deciding, Verdict, Rest, Ended, Activated
<1>17. ASSUME NEW q \in Requests, PostLost(q)
      PROVE  RunOf(g)'
  BY <1>17, PostLostDoes, Typed DEF RunsHeld, RunOf, Terminal, Deciders, DecidingOf,
     Deciding, Verdict, Rest, rows
<1>18. ASSUME NEW q \in Requests, NEW h \in Handlers, Post(q, h)
      PROVE  RunOf(g)'
  BY <1>18, PostDoes, Typed DEF RunsHeld, RunOf, Terminal, Deciders, DecidingOf,
     Deciding, Verdict, Becomes, Others, Rest, rows
<1>19. ASSUME NEW q \in Requests, NEW h \in Handlers, Deadlock(q, h)
      PROVE  RunOf(g)'
  BY <1>19, DeadlockDoes, Typed DEF RunsHeld, RunOf, Terminal, Deciders, DecidingOf,
     Deciding, Verdict, Becomes, Others, Ends, Asking, Rest, rows
<1> QED
  BY <1>1, <1>2, <1>3, <1>4, <1>5, <1>6, <1>7, <1>8, <1>9, <1>10, <1>11, <1>12, <1>13,
     <1>14, <1>15, <1>16, <1>17, <1>18, <1>19 DEF Next

\* No two executions share a run.
LEMMA ApartStep ==
  ASSUME IInv, NEW f \in Handlers, NEW g \in Handlers, f # g, hdl'[f].run # NoRun, [Next]_vars
  PROVE  hdl'[f].run # hdl'[g].run
<1> USE DEF IInv
<1>1. CASE UNCHANGED vars
  BY <1>1 DEF vars, RunsHeld, RunOf
<1>2. ASSUME NEW h \in Handlers, ClaimResumed(h)
      PROVE  hdl'[f].run # hdl'[g].run
  BY <1>2, ClaimDoes, Typed DEF RunsHeld, RunOf, Becomes, Others, Goes, Ends, Asking,
     Ended, Activated
<1>3. ASSUME NEW h \in Handlers, Dispatch(h)
      PROVE  hdl'[f].run # hdl'[g].run
  BY <1>3, DispatchDoes, Typed DEF RunsHeld, RunOf, Becomes, Others, Goes, Ends,
     Asking, rows
<1>4. ASSUME NEW h \in Handlers, Load(h)
      PROVE  hdl'[f].run # hdl'[g].run
  BY <1>4, LoadDoes, Typed DEF RunsHeld, RunOf, Becomes, Others, Goes, Executes
<1>5. ASSUME NEW h \in Handlers, Grab(h)
      PROVE  hdl'[f].run # hdl'[g].run
  BY <1>5, GrabDoes, Typed DEF RunsHeld, RunOf, Becomes, Others, Goes, Executes
<1>6. ASSUME NEW h \in Handlers, Begin(h)
      PROVE  hdl'[f].run # hdl'[g].run
  BY <1>6, BeginDoes, Typed DEF RunsHeld, RunOf, Becomes, Others, Goes, RunBecomes
<1>7. ASSUME NEW h \in Handlers, Work(h)
      PROVE  hdl'[f].run # hdl'[g].run
  BY <1>7, WorkDoes, Typed DEF RunsHeld, RunOf, Becomes, Others, Goes, RunBecomes
<1>8. ASSUME NEW h \in Handlers, Ask(h)
      PROVE  hdl'[f].run # hdl'[g].run
  BY <1>8, AskDoes, Typed DEF RunsHeld, RunOf, Becomes, Others, Goes
<1>9. ASSUME NEW h \in Handlers, Wait(h)
      PROVE  hdl'[f].run # hdl'[g].run
  BY <1>9, WaitDoes, Typed DEF RunsHeld, RunOf, Becomes, Others, Goes, RunBecomes
<1>10. ASSUME NEW h \in Handlers, Pause(h)
      PROVE  hdl'[f].run # hdl'[g].run
  BY <1>10, PauseDoes, Typed DEF RunsHeld, RunOf, Becomes, Others, Loops, RunBecomes
<1>11. ASSUME NEW h \in Handlers, Report(h)
      PROVE  hdl'[f].run # hdl'[g].run
  BY <1>11, ReportDoes, Typed DEF RunsHeld, RunOf, Becomes, Others, Loops
<1>12. ASSUME NEW h \in Handlers, HandlerDies(h)
      PROVE  hdl'[f].run # hdl'[g].run
  BY <1>12, HandlerDiesDoes, Typed DEF RunsHeld, RunOf, Becomes, Others, Ends, Asking,
     rows
<1>13. ASSUME NEW q \in Requests, NEW r \in Runs, NEW yes \in BOOLEAN, Resolve(q, r, yes)
      PROVE  hdl'[f].run # hdl'[g].run
  BY <1>13, ResolveDoes, Typed DEF RunsHeld, RunOf, Rest, rows
<1>14. ASSUME NEW q \in Requests, ResolveTx(q)
      PROVE  hdl'[f].run # hdl'[g].run
  BY <1>14, ResolveTxDoes, Typed DEF RunsHeld, RunOf, Rest, rows
<1>15. ASSUME NEW q \in Requests, ResolveCommit(q)
      PROVE  hdl'[f].run # hdl'[g].run
  BY <1>15, ResolveCommitDoes, Typed DEF RunsHeld, RunOf, Rest
<1>16. ASSUME NEW q \in Requests, Resume(q)
      PROVE  hdl'[f].run # hdl'[g].run
  BY <1>16, ResumeDoes, Typed DEF RunsHeld, RunOf, Rest, Ended, Activated
<1>17. ASSUME NEW q \in Requests, PostLost(q)
      PROVE  hdl'[f].run # hdl'[g].run
  BY <1>17, PostLostDoes, Typed DEF RunsHeld, RunOf, Rest, rows
<1>18. ASSUME NEW q \in Requests, NEW h \in Handlers, Post(q, h)
      PROVE  hdl'[f].run # hdl'[g].run
  BY <1>18, PostDoes, Typed DEF RunsHeld, RunOf, Becomes, Others, Rest, rows
<1>19. ASSUME NEW q \in Requests, NEW h \in Handlers, Deadlock(q, h)
      PROVE  hdl'[f].run # hdl'[g].run
  BY <1>19, DeadlockDoes, Typed DEF RunsHeld, RunOf, Becomes, Others, Ends, Asking,
     Rest, rows
<1> QED
  BY <1>1, <1>2, <1>3, <1>4, <1>5, <1>6, <1>7, <1>8, <1>9, <1>10, <1>11, <1>12, <1>13,
     <1>14, <1>15, <1>16, <1>17, <1>18, <1>19 DEF Next

\* A checkpoint has a run, and a run an agent.
LEMMA RowsStep ==
  ASSUME IInv, NEW s \in Runs, [Next]_vars
  PROVE  (run[s] = "none" => cp[s] = "none")' /\ (run[s] # "none" => owner[s] \in Agents)'
<1> USE DEF IInv
<1>1. CASE UNCHANGED vars
  BY <1>1 DEF vars, RunsHeld, RunOf, Terminal, Deciders, DecidingOf, Deciding
<1>2. ASSUME NEW h \in Handlers, ClaimResumed(h)
      PROVE  (run[s] = "none" => cp[s] = "none")' /\ (run[s] # "none" => owner[s] \in Agents)'
  BY <1>2, ClaimDoes, Typed DEF RunsHeld, RunOf, Terminal, Deciders, DecidingOf,
     Deciding, Becomes, Others, Goes, Ends, Asking, Ended, Activated
<1>3. ASSUME NEW h \in Handlers, Dispatch(h)
      PROVE  (run[s] = "none" => cp[s] = "none")' /\ (run[s] # "none" => owner[s] \in Agents)'
  BY <1>3, DispatchDoes, Typed DEF RunsHeld, RunOf, Terminal, Deciders, DecidingOf,
     Deciding, Becomes, Others, Goes, Ends, Asking, rows
<1>4. ASSUME NEW h \in Handlers, Load(h)
      PROVE  (run[s] = "none" => cp[s] = "none")' /\ (run[s] # "none" => owner[s] \in Agents)'
  BY <1>4, LoadDoes, Typed DEF RunsHeld, RunOf, Terminal, Deciders, DecidingOf,
     Deciding, Becomes, Others, Goes, Executes
<1>5. ASSUME NEW h \in Handlers, Grab(h)
      PROVE  (run[s] = "none" => cp[s] = "none")' /\ (run[s] # "none" => owner[s] \in Agents)'
  BY <1>5, GrabDoes, Typed DEF RunsHeld, RunOf, Terminal, Deciders, DecidingOf,
     Deciding, Becomes, Others, Goes, Executes
<1>6. ASSUME NEW h \in Handlers, Begin(h)
      PROVE  (run[s] = "none" => cp[s] = "none")' /\ (run[s] # "none" => owner[s] \in Agents)'
  BY <1>6, BeginDoes, Typed DEF RunsHeld, RunOf, Terminal, Deciders, DecidingOf,
     Deciding, Becomes, Others, Goes, RunBecomes
<1>7. ASSUME NEW h \in Handlers, Work(h)
      PROVE  (run[s] = "none" => cp[s] = "none")' /\ (run[s] # "none" => owner[s] \in Agents)'
  BY <1>7, WorkDoes, Typed DEF RunsHeld, RunOf, Terminal, Deciders, DecidingOf,
     Deciding, Becomes, Others, Goes, RunBecomes
<1>8. ASSUME NEW h \in Handlers, Ask(h)
      PROVE  (run[s] = "none" => cp[s] = "none")' /\ (run[s] # "none" => owner[s] \in Agents)'
  BY <1>8, AskDoes, Typed DEF RunsHeld, RunOf, Terminal, Deciders, DecidingOf,
     Deciding, Becomes, Others, Goes
<1>9. ASSUME NEW h \in Handlers, Wait(h)
      PROVE  (run[s] = "none" => cp[s] = "none")' /\ (run[s] # "none" => owner[s] \in Agents)'
  BY <1>9, WaitDoes, Typed DEF RunsHeld, RunOf, Terminal, Deciders, DecidingOf,
     Deciding, Becomes, Others, Goes, RunBecomes
<1>10. ASSUME NEW h \in Handlers, Pause(h)
      PROVE  (run[s] = "none" => cp[s] = "none")' /\ (run[s] # "none" => owner[s] \in Agents)'
  BY <1>10, PauseDoes, Typed DEF RunsHeld, RunOf, Terminal, Deciders, DecidingOf,
     Deciding, Becomes, Others, Loops, RunBecomes
<1>11. ASSUME NEW h \in Handlers, Report(h)
      PROVE  (run[s] = "none" => cp[s] = "none")' /\ (run[s] # "none" => owner[s] \in Agents)'
  BY <1>11, ReportDoes, Typed DEF RunsHeld, RunOf, Terminal, Deciders, DecidingOf,
     Deciding, Becomes, Others, Loops
<1>12. ASSUME NEW h \in Handlers, HandlerDies(h)
      PROVE  (run[s] = "none" => cp[s] = "none")' /\ (run[s] # "none" => owner[s] \in Agents)'
  BY <1>12, HandlerDiesDoes, Typed DEF RunsHeld, RunOf, Terminal, Deciders,
     DecidingOf, Deciding, Becomes, Others, Ends, Asking, rows
<1>13. ASSUME NEW q \in Requests, NEW r \in Runs, NEW yes \in BOOLEAN, Resolve(q, r, yes)
      PROVE  (run[s] = "none" => cp[s] = "none")' /\ (run[s] # "none" => owner[s] \in Agents)'
  BY <1>13, ResolveDoes, Typed DEF RunsHeld, RunOf, Terminal, Deciders, DecidingOf,
     Deciding, Rest, rows
<1>14. ASSUME NEW q \in Requests, ResolveTx(q)
      PROVE  (run[s] = "none" => cp[s] = "none")' /\ (run[s] # "none" => owner[s] \in Agents)'
  BY <1>14, ResolveTxDoes, Typed DEF RunsHeld, RunOf, Terminal, Deciders, DecidingOf,
     Deciding, Rest, rows
<1>15. ASSUME NEW q \in Requests, ResolveCommit(q)
      PROVE  (run[s] = "none" => cp[s] = "none")' /\ (run[s] # "none" => owner[s] \in Agents)'
  BY <1>15, ResolveCommitDoes, Typed DEF RunsHeld, RunOf, Terminal, Deciders,
     DecidingOf, Deciding, Rest
<1>16. ASSUME NEW q \in Requests, Resume(q)
      PROVE  (run[s] = "none" => cp[s] = "none")' /\ (run[s] # "none" => owner[s] \in Agents)'
  BY <1>16, ResumeDoes, Typed DEF RunsHeld, RunOf, Terminal, Deciders, DecidingOf,
     Deciding, Rest, Ended, Activated
<1>17. ASSUME NEW q \in Requests, PostLost(q)
      PROVE  (run[s] = "none" => cp[s] = "none")' /\ (run[s] # "none" => owner[s] \in Agents)'
  BY <1>17, PostLostDoes, Typed DEF RunsHeld, RunOf, Terminal, Deciders, DecidingOf,
     Deciding, Rest, rows
<1>18. ASSUME NEW q \in Requests, NEW h \in Handlers, Post(q, h)
      PROVE  (run[s] = "none" => cp[s] = "none")' /\ (run[s] # "none" => owner[s] \in Agents)'
  BY <1>18, PostDoes, Typed DEF RunsHeld, RunOf, Terminal, Deciders, DecidingOf,
     Deciding, Becomes, Others, Rest, rows
<1>19. ASSUME NEW q \in Requests, NEW h \in Handlers, Deadlock(q, h)
      PROVE  (run[s] = "none" => cp[s] = "none")' /\ (run[s] # "none" => owner[s] \in Agents)'
  BY <1>19, DeadlockDoes, Typed DEF RunsHeld, RunOf, Terminal, Deciders, DecidingOf,
     Deciding, Becomes, Others, Ends, Asking, Rest, rows
<1> QED
  BY <1>1, <1>2, <1>3, <1>4, <1>5, <1>6, <1>7, <1>8, <1>9, <1>10, <1>11, <1>12, <1>13,
     <1>14, <1>15, <1>16, <1>17, <1>18, <1>19 DEF Next

\* Whoever decides has found the checkpoint undecided.
LEMMA DecidingStep ==
  ASSUME IInv, NEW p \in Requests, [Next]_vars
  PROVE  DecidingOf(p)'
<1> USE DEF IInv
<1>1. CASE UNCHANGED vars
  BY <1>1 DEF vars, Deciders, DecidingOf, Deciding, RunsHeld, RunOf, Verdict
<1>2. ASSUME NEW h \in Handlers, ClaimResumed(h)
      PROVE  DecidingOf(p)'
  BY <1>2, ClaimDoes DEF Deciders, DecidingOf, Deciding, RunsHeld, RunOf, Verdict,
     Becomes, Others, Goes, Ends, Asking, Ended, Activated
<1>3. ASSUME NEW h \in Handlers, Dispatch(h)
      PROVE  DecidingOf(p)'
  BY <1>3, DispatchDoes DEF Deciders, DecidingOf, Deciding, RunsHeld, RunOf, Verdict,
     Becomes, Others, Goes, Ends, Asking, rows
<1>4. ASSUME NEW h \in Handlers, Load(h)
      PROVE  DecidingOf(p)'
  BY <1>4, LoadDoes DEF Deciders, DecidingOf, Deciding, RunsHeld, RunOf, Verdict,
     Becomes, Others, Goes, Executes
<1>5. ASSUME NEW h \in Handlers, Grab(h)
      PROVE  DecidingOf(p)'
  BY <1>5, GrabDoes DEF Deciders, DecidingOf, Deciding, RunsHeld, RunOf, Verdict,
     Becomes, Others, Goes, Executes
<1>6. ASSUME NEW h \in Handlers, Begin(h)
      PROVE  DecidingOf(p)'
  BY <1>6, BeginDoes DEF Deciders, DecidingOf, Deciding, RunsHeld, RunOf, Verdict,
     Becomes, Others, Goes, RunBecomes
<1>7. ASSUME NEW h \in Handlers, Work(h)
      PROVE  DecidingOf(p)'
  BY <1>7, WorkDoes DEF Deciders, DecidingOf, Deciding, RunsHeld, RunOf, Verdict,
     Becomes, Others, Goes, RunBecomes
<1>8. ASSUME NEW h \in Handlers, Ask(h)
      PROVE  DecidingOf(p)'
  BY <1>8, AskDoes DEF Deciders, DecidingOf, Deciding, RunsHeld, RunOf, Verdict,
     Becomes, Others, Goes
<1>9. ASSUME NEW h \in Handlers, Wait(h)
      PROVE  DecidingOf(p)'
  BY <1>9, WaitDoes DEF Deciders, DecidingOf, Deciding, RunsHeld, RunOf, Verdict,
     Becomes, Others, Goes, RunBecomes
<1>10. ASSUME NEW h \in Handlers, Pause(h)
      PROVE  DecidingOf(p)'
  BY <1>10, PauseDoes DEF Deciders, DecidingOf, Deciding, RunsHeld, RunOf, Verdict,
     Becomes, Others, Loops, RunBecomes
<1>11. ASSUME NEW h \in Handlers, Report(h)
      PROVE  DecidingOf(p)'
  BY <1>11, ReportDoes DEF Deciders, DecidingOf, Deciding, RunsHeld, RunOf, Verdict,
     Becomes, Others, Loops
<1>12. ASSUME NEW h \in Handlers, HandlerDies(h)
      PROVE  DecidingOf(p)'
  BY <1>12, HandlerDiesDoes DEF Deciders, DecidingOf, Deciding, RunsHeld, RunOf,
     Verdict, Becomes, Others, Ends, Asking, rows
<1>13. ASSUME NEW q \in Requests, NEW r \in Runs, NEW yes \in BOOLEAN, Resolve(q, r, yes)
      PROVE  DecidingOf(p)'
  BY <1>13, ResolveDoes DEF Deciders, DecidingOf, Deciding, RunsHeld, RunOf, Verdict,
     Rest, rows
<1>14. ASSUME NEW q \in Requests, ResolveTx(q)
      PROVE  DecidingOf(p)'
  BY <1>14, ResolveTxDoes DEF Deciders, DecidingOf, Deciding, RunsHeld, RunOf,
     Verdict, Rest, rows
<1>15. ASSUME NEW q \in Requests, ResolveCommit(q)
      PROVE  DecidingOf(p)'
  BY <1>15, ResolveCommitDoes DEF Deciders, DecidingOf, Deciding, RunsHeld, RunOf,
     Verdict, Rest
<1>16. ASSUME NEW q \in Requests, Resume(q)
      PROVE  DecidingOf(p)'
  BY <1>16, ResumeDoes DEF Deciders, DecidingOf, Deciding, RunsHeld, RunOf, Verdict,
     Rest, Ended, Activated
<1>17. ASSUME NEW q \in Requests, PostLost(q)
      PROVE  DecidingOf(p)'
  BY <1>17, PostLostDoes DEF Deciders, DecidingOf, Deciding, RunsHeld, RunOf, Verdict,
     Rest, rows
<1>18. ASSUME NEW q \in Requests, NEW h \in Handlers, Post(q, h)
      PROVE  DecidingOf(p)'
  BY <1>18, PostDoes DEF Deciders, DecidingOf, Deciding, RunsHeld, RunOf, Verdict,
     Becomes, Others, Rest, rows
<1>19. ASSUME NEW q \in Requests, NEW h \in Handlers, Deadlock(q, h)
      PROVE  DecidingOf(p)'
  BY <1>19, DeadlockDoes DEF Deciders, DecidingOf, Deciding, RunsHeld, RunOf, Verdict,
     Becomes, Others, Ends, Asking, Rest, rows
<1> QED
  BY <1>1, <1>2, <1>3, <1>4, <1>5, <1>6, <1>7, <1>8, <1>9, <1>10, <1>11, <1>12, <1>13,
     <1>14, <1>15, <1>16, <1>17, <1>18, <1>19 DEF Next

\* Two requests that decide one checkpoint did so at the same time.
LEMMA DecidersApart ==
  ASSUME IInv, NEW o \in Requests, NEW p \in Requests, o # p,
         Deciding(o)', Deciding(p)', req'[o].run = req'[p].run, [Next]_vars
  PROVE  req'[p].run \in twice'
<1> USE DEF IInv
<1>1. CASE UNCHANGED vars
  BY <1>1 DEF vars, Deciders, DecidingOf, Deciding
<1>2. ASSUME NEW h \in Handlers, ClaimResumed(h)
      PROVE  req'[p].run \in twice'
  BY <1>2, ClaimDoes DEF Deciders, DecidingOf, Deciding, Becomes, Others, Goes, Ends,
     Asking, Ended, Activated
<1>3. ASSUME NEW h \in Handlers, Dispatch(h)
      PROVE  req'[p].run \in twice'
  BY <1>3, DispatchDoes DEF Deciders, DecidingOf, Deciding, Becomes, Others, Goes,
     Ends, Asking, rows
<1>4. ASSUME NEW h \in Handlers, Load(h)
      PROVE  req'[p].run \in twice'
  BY <1>4, LoadDoes DEF Deciders, DecidingOf, Deciding, Becomes, Others, Goes,
     Executes
<1>5. ASSUME NEW h \in Handlers, Grab(h)
      PROVE  req'[p].run \in twice'
  BY <1>5, GrabDoes DEF Deciders, DecidingOf, Deciding, Becomes, Others, Goes,
     Executes
<1>6. ASSUME NEW h \in Handlers, Begin(h)
      PROVE  req'[p].run \in twice'
  BY <1>6, BeginDoes DEF Deciders, DecidingOf, Deciding, Becomes, Others, Goes,
     RunBecomes
<1>7. ASSUME NEW h \in Handlers, Work(h)
      PROVE  req'[p].run \in twice'
  BY <1>7, WorkDoes DEF Deciders, DecidingOf, Deciding, Becomes, Others, Goes,
     RunBecomes
<1>8. ASSUME NEW h \in Handlers, Ask(h)
      PROVE  req'[p].run \in twice'
  BY <1>8, AskDoes DEF Deciders, DecidingOf, Deciding, Becomes, Others, Goes
<1>9. ASSUME NEW h \in Handlers, Wait(h)
      PROVE  req'[p].run \in twice'
  BY <1>9, WaitDoes DEF Deciders, DecidingOf, Deciding, Becomes, Others, Goes,
     RunBecomes
<1>10. ASSUME NEW h \in Handlers, Pause(h)
      PROVE  req'[p].run \in twice'
  BY <1>10, PauseDoes DEF Deciders, DecidingOf, Deciding, Becomes, Others, Loops,
     RunBecomes
<1>11. ASSUME NEW h \in Handlers, Report(h)
      PROVE  req'[p].run \in twice'
  BY <1>11, ReportDoes DEF Deciders, DecidingOf, Deciding, Becomes, Others, Loops
<1>12. ASSUME NEW h \in Handlers, HandlerDies(h)
      PROVE  req'[p].run \in twice'
  BY <1>12, HandlerDiesDoes DEF Deciders, DecidingOf, Deciding, Becomes, Others, Ends,
     Asking, rows
<1>13. ASSUME NEW q \in Requests, NEW r \in Runs, NEW yes \in BOOLEAN, Resolve(q, r, yes)
      PROVE  req'[p].run \in twice'
  BY <1>13, ResolveDoes DEF Deciders, DecidingOf, Deciding, Rest, rows
<1>14. ASSUME NEW q \in Requests, ResolveTx(q)
      PROVE  req'[p].run \in twice'
  BY <1>14, ResolveTxDoes DEF Deciders, DecidingOf, Deciding, Rest, rows
<1>15. ASSUME NEW q \in Requests, ResolveCommit(q)
      PROVE  req'[p].run \in twice'
  BY <1>15, ResolveCommitDoes DEF Deciders, DecidingOf, Deciding, Rest
<1>16. ASSUME NEW q \in Requests, Resume(q)
      PROVE  req'[p].run \in twice'
  BY <1>16, ResumeDoes DEF Deciders, DecidingOf, Deciding, Rest, Ended, Activated
<1>17. ASSUME NEW q \in Requests, PostLost(q)
      PROVE  req'[p].run \in twice'
  BY <1>17, PostLostDoes DEF Deciders, DecidingOf, Deciding, Rest, rows
<1>18. ASSUME NEW q \in Requests, NEW h \in Handlers, Post(q, h)
      PROVE  req'[p].run \in twice'
  BY <1>18, PostDoes DEF Deciders, DecidingOf, Deciding, Becomes, Others, Rest, rows
<1>19. ASSUME NEW q \in Requests, NEW h \in Handlers, Deadlock(q, h)
      PROVE  req'[p].run \in twice'
  BY <1>19, DeadlockDoes DEF Deciders, DecidingOf, Deciding, Becomes, Others, Ends,
     Asking, Rest, rows
<1> QED
  BY <1>1, <1>2, <1>3, <1>4, <1>5, <1>6, <1>7, <1>8, <1>9, <1>10, <1>11, <1>12, <1>13,
     <1>14, <1>15, <1>16, <1>17, <1>18, <1>19 DEF Next

\* The task is RUNNING while it is executed.
LEMMA RunningStep ==
  ASSUME IInv, NEW g \in Handlers, Active(g)', loose' \cap {"forced", "seen"} = {}, [Next]_vars
  PROVE  task' = "RUNNING"
<1> USE DEF IInv
<1>1. CASE UNCHANGED vars
  BY <1>1 DEF vars, Exclusive, Active, Claimable, Resumable
<1>2. ASSUME NEW h \in Handlers, ClaimResumed(h)
      PROVE  task' = "RUNNING"
  BY <1>2, ClaimDoes DEF Exclusive, Active, Claimable, Resumable, Becomes, Others,
     Goes, Ends, Asking, Ended, Activated
<1>3. ASSUME NEW h \in Handlers, Dispatch(h)
      PROVE  task' = "RUNNING"
  BY <1>3, DispatchDoes DEF Exclusive, Active, Claimable, Resumable, Becomes, Others,
     Goes, Ends, Asking, rows
<1>4. ASSUME NEW h \in Handlers, Load(h)
      PROVE  task' = "RUNNING"
  BY <1>4, LoadDoes DEF Exclusive, Active, Claimable, Resumable, Becomes, Others,
     Goes, Executes
<1>5. ASSUME NEW h \in Handlers, Grab(h)
      PROVE  task' = "RUNNING"
  BY <1>5, GrabDoes DEF Exclusive, Active, Claimable, Resumable, Becomes, Others,
     Goes, Executes
<1>6. ASSUME NEW h \in Handlers, Begin(h)
      PROVE  task' = "RUNNING"
  BY <1>6, BeginDoes DEF Exclusive, Active, Claimable, Resumable, Becomes, Others,
     Goes, RunBecomes
<1>7. ASSUME NEW h \in Handlers, Work(h)
      PROVE  task' = "RUNNING"
  BY <1>7, WorkDoes DEF Exclusive, Active, Claimable, Resumable, Becomes, Others,
     Goes, RunBecomes
<1>8. ASSUME NEW h \in Handlers, Ask(h)
      PROVE  task' = "RUNNING"
  BY <1>8, AskDoes DEF Exclusive, Active, Claimable, Resumable, Becomes, Others, Goes
<1>9. ASSUME NEW h \in Handlers, Wait(h)
      PROVE  task' = "RUNNING"
  BY <1>9, WaitDoes DEF Exclusive, Active, Claimable, Resumable, Becomes, Others,
     Goes, RunBecomes
<1>10. ASSUME NEW h \in Handlers, Pause(h)
      PROVE  task' = "RUNNING"
  BY <1>10, PauseDoes DEF Exclusive, Active, Claimable, Resumable, Becomes, Others,
     Loops, RunBecomes
<1>11. ASSUME NEW h \in Handlers, Report(h)
      PROVE  task' = "RUNNING"
  BY <1>11, ReportDoes DEF Exclusive, Active, Claimable, Resumable, Becomes, Others,
     Loops
<1>12. ASSUME NEW h \in Handlers, HandlerDies(h)
      PROVE  task' = "RUNNING"
  BY <1>12, HandlerDiesDoes DEF Exclusive, Active, Claimable, Resumable, Becomes,
     Others, Ends, Asking, rows
<1>13. ASSUME NEW q \in Requests, NEW r \in Runs, NEW yes \in BOOLEAN, Resolve(q, r, yes)
      PROVE  task' = "RUNNING"
  BY <1>13, ResolveDoes DEF Exclusive, Active, Claimable, Resumable, Rest, rows
<1>14. ASSUME NEW q \in Requests, ResolveTx(q)
      PROVE  task' = "RUNNING"
  BY <1>14, ResolveTxDoes DEF Exclusive, Active, Claimable, Resumable, Rest, rows
<1>15. ASSUME NEW q \in Requests, ResolveCommit(q)
      PROVE  task' = "RUNNING"
  BY <1>15, ResolveCommitDoes DEF Exclusive, Active, Claimable, Resumable, Rest
<1>16. ASSUME NEW q \in Requests, Resume(q)
      PROVE  task' = "RUNNING"
  BY <1>16, ResumeDoes DEF Exclusive, Active, Claimable, Resumable, Rest, Ended,
     Activated
<1>17. ASSUME NEW q \in Requests, PostLost(q)
      PROVE  task' = "RUNNING"
  BY <1>17, PostLostDoes DEF Exclusive, Active, Claimable, Resumable, Rest, rows
<1>18. ASSUME NEW q \in Requests, NEW h \in Handlers, Post(q, h)
      PROVE  task' = "RUNNING"
  BY <1>18, PostDoes DEF Exclusive, Active, Claimable, Resumable, Becomes, Others,
     Rest, rows
<1>19. ASSUME NEW q \in Requests, NEW h \in Handlers, Deadlock(q, h)
      PROVE  task' = "RUNNING"
  BY <1>19, DeadlockDoes DEF Exclusive, Active, Claimable, Resumable, Becomes, Others,
     Ends, Asking, Rest, rows
<1> QED
  BY <1>1, <1>2, <1>3, <1>4, <1>5, <1>6, <1>7, <1>8, <1>9, <1>10, <1>11, <1>12, <1>13,
     <1>14, <1>15, <1>16, <1>17, <1>18, <1>19 DEF Next

\* One handler executes the task at a time.
LEMMA ExclusiveStep ==
  ASSUME IInv, NEW f \in Handlers, NEW g \in Handlers, Active(f)', Active(g)',
         loose' \cap {"forced", "seen"} = {}, [Next]_vars
  PROVE  f = g
<1> USE DEF IInv
<1>1. CASE UNCHANGED vars
  BY <1>1 DEF vars, Exclusive, Active, Claimable
<1>2. ASSUME NEW h \in Handlers, ClaimResumed(h)
      PROVE  f = g
  BY <1>2, ClaimDoes DEF Exclusive, Active, Claimable, Becomes, Others, Goes, Ends,
     Asking, Ended, Activated
<1>3. ASSUME NEW h \in Handlers, Dispatch(h)
      PROVE  f = g
  BY <1>3, DispatchDoes DEF Exclusive, Active, Claimable, Becomes, Others, Goes, Ends,
     Asking, rows
<1>4. ASSUME NEW h \in Handlers, Load(h)
      PROVE  f = g
  BY <1>4, LoadDoes DEF Exclusive, Active, Claimable, Becomes, Others, Goes, Executes
<1>5. ASSUME NEW h \in Handlers, Grab(h)
      PROVE  f = g
  BY <1>5, GrabDoes DEF Exclusive, Active, Claimable, Becomes, Others, Goes, Executes
<1>6. ASSUME NEW h \in Handlers, Begin(h)
      PROVE  f = g
  BY <1>6, BeginDoes DEF Exclusive, Active, Claimable, Becomes, Others, Goes,
     RunBecomes
<1>7. ASSUME NEW h \in Handlers, Work(h)
      PROVE  f = g
  BY <1>7, WorkDoes DEF Exclusive, Active, Claimable, Becomes, Others, Goes,
     RunBecomes
<1>8. ASSUME NEW h \in Handlers, Ask(h)
      PROVE  f = g
  BY <1>8, AskDoes DEF Exclusive, Active, Claimable, Becomes, Others, Goes
<1>9. ASSUME NEW h \in Handlers, Wait(h)
      PROVE  f = g
  BY <1>9, WaitDoes DEF Exclusive, Active, Claimable, Becomes, Others, Goes,
     RunBecomes
<1>10. ASSUME NEW h \in Handlers, Pause(h)
      PROVE  f = g
  BY <1>10, PauseDoes DEF Exclusive, Active, Claimable, Becomes, Others, Loops,
     RunBecomes
<1>11. ASSUME NEW h \in Handlers, Report(h)
      PROVE  f = g
  BY <1>11, ReportDoes DEF Exclusive, Active, Claimable, Becomes, Others, Loops
<1>12. ASSUME NEW h \in Handlers, HandlerDies(h)
      PROVE  f = g
  BY <1>12, HandlerDiesDoes DEF Exclusive, Active, Claimable, Becomes, Others, Ends,
     Asking, rows
<1>13. ASSUME NEW q \in Requests, NEW r \in Runs, NEW yes \in BOOLEAN, Resolve(q, r, yes)
      PROVE  f = g
  BY <1>13, ResolveDoes DEF Exclusive, Active, Claimable, Rest, rows
<1>14. ASSUME NEW q \in Requests, ResolveTx(q)
      PROVE  f = g
  BY <1>14, ResolveTxDoes DEF Exclusive, Active, Claimable, Rest, rows
<1>15. ASSUME NEW q \in Requests, ResolveCommit(q)
      PROVE  f = g
  BY <1>15, ResolveCommitDoes DEF Exclusive, Active, Claimable, Rest
<1>16. ASSUME NEW q \in Requests, Resume(q)
      PROVE  f = g
  BY <1>16, ResumeDoes DEF Exclusive, Active, Claimable, Rest, Ended, Activated
<1>17. ASSUME NEW q \in Requests, PostLost(q)
      PROVE  f = g
  BY <1>17, PostLostDoes DEF Exclusive, Active, Claimable, Rest, rows
<1>18. ASSUME NEW q \in Requests, NEW h \in Handlers, Post(q, h)
      PROVE  f = g
  BY <1>18, PostDoes DEF Exclusive, Active, Claimable, Becomes, Others, Rest, rows
<1>19. ASSUME NEW q \in Requests, NEW h \in Handlers, Deadlock(q, h)
      PROVE  f = g
  BY <1>19, DeadlockDoes DEF Exclusive, Active, Claimable, Becomes, Others, Ends,
     Asking, Rest, rows
<1> QED
  BY <1>1, <1>2, <1>3, <1>4, <1>5, <1>6, <1>7, <1>8, <1>9, <1>10, <1>11, <1>12, <1>13,
     <1>14, <1>15, <1>16, <1>17, <1>18, <1>19 DEF Next

\* A decision on a run that is held is early.
LEMMA EarlyHeldStep ==
  ASSUME IInv, NEW s \in Runs, NEW g \in Handlers, hdl'[g].run = s, Decided(s)', [Next]_vars
  PROVE  s \in early'
<1> USE DEF IInv
<1>1. CASE UNCHANGED vars
  BY <1>1 DEF vars, Earliness, Decided, Held, Verdict, RunsHeld, RunOf
<1>2. ASSUME NEW h \in Handlers, ClaimResumed(h)
      PROVE  s \in early'
  BY <1>2, ClaimDoes, Typed DEF Earliness, Decided, Held, Verdict, RunsHeld, RunOf,
     Becomes, Others, Goes, Ends, Asking, Ended, Activated
<1>3. ASSUME NEW h \in Handlers, Dispatch(h)
      PROVE  s \in early'
  BY <1>3, DispatchDoes, Typed DEF Earliness, Decided, Held, Verdict, RunsHeld, RunOf,
     Becomes, Others, Goes, Ends, Asking, rows
<1>4. ASSUME NEW h \in Handlers, Load(h)
      PROVE  s \in early'
  BY <1>4, LoadDoes, Typed DEF Earliness, Decided, Held, Verdict, RunsHeld, RunOf,
     Becomes, Others, Goes, Executes
<1>5. ASSUME NEW h \in Handlers, Grab(h)
      PROVE  s \in early'
  BY <1>5, GrabDoes, Typed DEF Earliness, Decided, Held, Verdict, RunsHeld, RunOf,
     Becomes, Others, Goes, Executes
<1>6. ASSUME NEW h \in Handlers, Begin(h)
      PROVE  s \in early'
  BY <1>6, BeginDoes, Typed DEF Earliness, Decided, Held, Verdict, RunsHeld, RunOf,
     Becomes, Others, Goes, RunBecomes
<1>7. ASSUME NEW h \in Handlers, Work(h)
      PROVE  s \in early'
  BY <1>7, WorkDoes, Typed DEF Earliness, Decided, Held, Verdict, RunsHeld, RunOf,
     Becomes, Others, Goes, RunBecomes
<1>8. ASSUME NEW h \in Handlers, Ask(h)
      PROVE  s \in early'
  BY <1>8, AskDoes, Typed DEF Earliness, Decided, Held, Verdict, RunsHeld, RunOf,
     Becomes, Others, Goes
<1>9. ASSUME NEW h \in Handlers, Wait(h)
      PROVE  s \in early'
  BY <1>9, WaitDoes, Typed DEF Earliness, Decided, Held, Verdict, RunsHeld, RunOf,
     Becomes, Others, Goes, RunBecomes
<1>10. ASSUME NEW h \in Handlers, Pause(h)
      PROVE  s \in early'
  BY <1>10, PauseDoes, Typed DEF Earliness, Decided, Held, Verdict, RunsHeld, RunOf,
     Becomes, Others, Loops, RunBecomes
<1>11. ASSUME NEW h \in Handlers, Report(h)
      PROVE  s \in early'
  BY <1>11, ReportDoes, Typed DEF Earliness, Decided, Held, Verdict, RunsHeld, RunOf,
     Becomes, Others, Loops
<1>12. ASSUME NEW h \in Handlers, HandlerDies(h)
      PROVE  s \in early'
  BY <1>12, HandlerDiesDoes, Typed DEF Earliness, Decided, Held, Verdict, RunsHeld,
     RunOf, Becomes, Others, Ends, Asking, rows
<1>13. ASSUME NEW q \in Requests, NEW r \in Runs, NEW yes \in BOOLEAN, Resolve(q, r, yes)
      PROVE  s \in early'
  BY <1>13, ResolveDoes, Typed DEF Earliness, Decided, Held, Verdict, RunsHeld, RunOf,
     Rest, rows
<1>14. ASSUME NEW q \in Requests, ResolveTx(q)
      PROVE  s \in early'
  BY <1>14, ResolveTxDoes, Typed DEF Earliness, Decided, Held, Verdict, RunsHeld,
     RunOf, Rest, rows
<1>15. ASSUME NEW q \in Requests, ResolveCommit(q)
      PROVE  s \in early'
  BY <1>15, ResolveCommitDoes, Typed DEF Earliness, Decided, Held, Verdict, RunsHeld,
     RunOf, Rest
<1>16. ASSUME NEW q \in Requests, Resume(q)
      PROVE  s \in early'
  BY <1>16, ResumeDoes, Typed DEF Earliness, Decided, Held, Verdict, RunsHeld, RunOf,
     Rest, Ended, Activated
<1>17. ASSUME NEW q \in Requests, PostLost(q)
      PROVE  s \in early'
  BY <1>17, PostLostDoes, Typed DEF Earliness, Decided, Held, Verdict, RunsHeld,
     RunOf, Rest, rows
<1>18. ASSUME NEW q \in Requests, NEW h \in Handlers, Post(q, h)
      PROVE  s \in early'
  BY <1>18, PostDoes, Typed DEF Earliness, Decided, Held, Verdict, RunsHeld, RunOf,
     Becomes, Others, Rest, rows
<1>19. ASSUME NEW q \in Requests, NEW h \in Handlers, Deadlock(q, h)
      PROVE  s \in early'
  BY <1>19, DeadlockDoes, Typed DEF Earliness, Decided, Held, Verdict, RunsHeld,
     RunOf, Becomes, Others, Ends, Asking, Rest, rows
<1> QED
  BY <1>1, <1>2, <1>3, <1>4, <1>5, <1>6, <1>7, <1>8, <1>9, <1>10, <1>11, <1>12, <1>13,
     <1>14, <1>15, <1>16, <1>17, <1>18, <1>19 DEF Next

\* An early decision, or one that is set aside, is one on a checkpoint.
LEMMA KnownStep ==
  ASSUME IInv, NEW s \in Runs, s \in early' \cup aside', [Next]_vars
  PROVE  cp'[s] # "none"
<1> USE DEF IInv
<1>1. CASE UNCHANGED vars
  BY <1>1 DEF vars, Earliness, Deciders, Decided, Held, Verdict, RunsHeld, RunOf
<1>2. ASSUME NEW h \in Handlers, ClaimResumed(h)
      PROVE  cp'[s] # "none"
  BY <1>2, ClaimDoes, Typed DEF Earliness, Deciders, DecidingOf, Deciding, Decided,
     Held, Verdict, RunsHeld, RunOf, Becomes, Others, Goes, Ends, Asking, Ended, Activated
<1>3. ASSUME NEW h \in Handlers, Dispatch(h)
      PROVE  cp'[s] # "none"
  BY <1>3, DispatchDoes, Typed DEF Earliness, Deciders, DecidingOf, Deciding, Decided,
     Held, Verdict, RunsHeld, RunOf, Becomes, Others, Goes, Ends, Asking, rows
<1>4. ASSUME NEW h \in Handlers, Load(h)
      PROVE  cp'[s] # "none"
  BY <1>4, LoadDoes, Typed DEF Earliness, Deciders, DecidingOf, Deciding, Decided, Held,
     Verdict, RunsHeld, RunOf, Becomes, Others, Goes, Executes
<1>5. ASSUME NEW h \in Handlers, Grab(h)
      PROVE  cp'[s] # "none"
  BY <1>5, GrabDoes, Typed DEF Earliness, Deciders, DecidingOf, Deciding, Decided, Held,
     Verdict, RunsHeld, RunOf, Becomes, Others, Goes, Executes
<1>6. ASSUME NEW h \in Handlers, Begin(h)
      PROVE  cp'[s] # "none"
  BY <1>6, BeginDoes, Typed DEF Earliness, Deciders, DecidingOf, Deciding, Decided,
     Held, Verdict, RunsHeld, RunOf, Becomes, Others, Goes, RunBecomes
<1>7. ASSUME NEW h \in Handlers, Work(h)
      PROVE  cp'[s] # "none"
  BY <1>7, WorkDoes, Typed DEF Earliness, Deciders, DecidingOf, Deciding, Decided, Held,
     Verdict, RunsHeld, RunOf, Becomes, Others, Goes, RunBecomes
<1>8. ASSUME NEW h \in Handlers, Ask(h)
      PROVE  cp'[s] # "none"
  BY <1>8, AskDoes, Typed DEF Earliness, Deciders, DecidingOf, Deciding, Decided, Held,
     Verdict, RunsHeld, RunOf, Becomes, Others, Goes
<1>9. ASSUME NEW h \in Handlers, Wait(h)
      PROVE  cp'[s] # "none"
  BY <1>9, WaitDoes, Typed DEF Earliness, Deciders, DecidingOf, Deciding, Decided, Held,
     Verdict, RunsHeld, RunOf, Becomes, Others, Goes, RunBecomes
<1>10. ASSUME NEW h \in Handlers, Pause(h)
      PROVE  cp'[s] # "none"
  BY <1>10, PauseDoes, Typed DEF Earliness, Deciders, DecidingOf, Deciding, Decided,
     Held, Verdict, RunsHeld, RunOf, Becomes, Others, Loops, RunBecomes
<1>11. ASSUME NEW h \in Handlers, Report(h)
      PROVE  cp'[s] # "none"
  BY <1>11, ReportDoes, Typed DEF Earliness, Deciders, DecidingOf, Deciding, Decided,
     Held, Verdict, RunsHeld, RunOf, Becomes, Others, Loops
<1>12. ASSUME NEW h \in Handlers, HandlerDies(h)
      PROVE  cp'[s] # "none"
  BY <1>12, HandlerDiesDoes, Typed DEF Earliness, Deciders, DecidingOf, Deciding,
     Decided, Held, Verdict, RunsHeld, RunOf, Becomes, Others, Ends, Asking, rows
<1>13. ASSUME NEW q \in Requests, NEW r \in Runs, NEW yes \in BOOLEAN, Resolve(q, r, yes)
      PROVE  cp'[s] # "none"
  BY <1>13, ResolveDoes, Typed DEF Earliness, Deciders, DecidingOf, Deciding, Decided,
     Held, Verdict, RunsHeld, RunOf, Rest, rows
<1>14. ASSUME NEW q \in Requests, ResolveTx(q)
      PROVE  cp'[s] # "none"
  BY <1>14, ResolveTxDoes, Typed DEF Earliness, Deciders, DecidingOf, Deciding, Decided,
     Held, Verdict, RunsHeld, RunOf, Rest, rows
<1>15. ASSUME NEW q \in Requests, ResolveCommit(q)
      PROVE  cp'[s] # "none"
  BY <1>15, ResolveCommitDoes, Typed DEF Earliness, Deciders, DecidingOf, Deciding,
     Decided, Held, Verdict, RunsHeld, RunOf, Rest
<1>16. ASSUME NEW q \in Requests, Resume(q)
      PROVE  cp'[s] # "none"
  BY <1>16, ResumeDoes, Typed DEF Earliness, Deciders, DecidingOf, Deciding, Decided,
     Held, Verdict, RunsHeld, RunOf, Rest, Ended, Activated
<1>17. ASSUME NEW q \in Requests, PostLost(q)
      PROVE  cp'[s] # "none"
  BY <1>17, PostLostDoes, Typed DEF Earliness, Deciders, DecidingOf, Deciding, Decided,
     Held, Verdict, RunsHeld, RunOf, Rest, rows
<1>18. ASSUME NEW q \in Requests, NEW h \in Handlers, Post(q, h)
      PROVE  cp'[s] # "none"
  BY <1>18, PostDoes, Typed DEF Earliness, Deciders, DecidingOf, Deciding, Decided,
     Held, Verdict, RunsHeld, RunOf, Becomes, Others, Rest, rows
<1>19. ASSUME NEW q \in Requests, NEW h \in Handlers, Deadlock(q, h)
      PROVE  cp'[s] # "none"
  BY <1>19, DeadlockDoes, Typed DEF Earliness, Deciders, DecidingOf, Deciding, Decided,
     Held, Verdict, RunsHeld, RunOf, Becomes, Others, Ends, Asking, Rest, rows
<1> QED
  BY <1>1, <1>2, <1>3, <1>4, <1>5, <1>6, <1>7, <1>8, <1>9, <1>10, <1>11, <1>12, <1>13,
     <1>14, <1>15, <1>16, <1>17, <1>18, <1>19 DEF Next

\* Nor can a held run be about to be decided and not early.
LEMMA EarlyCommitStep ==
  ASSUME IInv, NEW p \in Requests, NEW g \in Handlers, req'[p].pc = "commit",
         hdl'[g].run = req'[p].run, [Next]_vars
  PROVE  req'[p].run \in early'
<1> USE DEF IInv
<1>1. CASE UNCHANGED vars
  BY <1>1 DEF vars, Earliness, Decided, Held, Deciders, DecidingOf, Deciding,
     RunsHeld, RunOf
<1>2. ASSUME NEW h \in Handlers, ClaimResumed(h)
      PROVE  req'[p].run \in early'
  BY <1>2, ClaimDoes, Typed DEF Earliness, Decided, Held, Deciders, DecidingOf,
     Deciding, RunsHeld, RunOf, Becomes, Others, Goes, Ends, Asking, Ended, Activated
<1>3. ASSUME NEW h \in Handlers, Dispatch(h)
      PROVE  req'[p].run \in early'
  BY <1>3, DispatchDoes, Typed DEF Earliness, Decided, Held, Deciders, DecidingOf,
     Deciding, RunsHeld, RunOf, Becomes, Others, Goes, Ends, Asking, rows
<1>4. ASSUME NEW h \in Handlers, Load(h)
      PROVE  req'[p].run \in early'
  BY <1>4, LoadDoes, Typed DEF Earliness, Decided, Held, Deciders, DecidingOf,
     Deciding, RunsHeld, RunOf, Becomes, Others, Goes, Executes
<1>5. ASSUME NEW h \in Handlers, Grab(h)
      PROVE  req'[p].run \in early'
  BY <1>5, GrabDoes, Typed DEF Earliness, Decided, Held, Deciders, DecidingOf,
     Deciding, RunsHeld, RunOf, Becomes, Others, Goes, Executes
<1>6. ASSUME NEW h \in Handlers, Begin(h)
      PROVE  req'[p].run \in early'
  BY <1>6, BeginDoes, Typed DEF Earliness, Decided, Held, Deciders, DecidingOf,
     Deciding, RunsHeld, RunOf, Becomes, Others, Goes, RunBecomes
<1>7. ASSUME NEW h \in Handlers, Work(h)
      PROVE  req'[p].run \in early'
  BY <1>7, WorkDoes, Typed DEF Earliness, Decided, Held, Deciders, DecidingOf,
     Deciding, RunsHeld, RunOf, Becomes, Others, Goes, RunBecomes
<1>8. ASSUME NEW h \in Handlers, Ask(h)
      PROVE  req'[p].run \in early'
  BY <1>8, AskDoes, Typed DEF Earliness, Decided, Held, Deciders, DecidingOf,
     Deciding, RunsHeld, RunOf, Becomes, Others, Goes
<1>9. ASSUME NEW h \in Handlers, Wait(h)
      PROVE  req'[p].run \in early'
  BY <1>9, WaitDoes, Typed DEF Earliness, Decided, Held, Deciders, DecidingOf,
     Deciding, RunsHeld, RunOf, Becomes, Others, Goes, RunBecomes
<1>10. ASSUME NEW h \in Handlers, Pause(h)
      PROVE  req'[p].run \in early'
  BY <1>10, PauseDoes, Typed DEF Earliness, Decided, Held, Deciders, DecidingOf,
     Deciding, RunsHeld, RunOf, Becomes, Others, Loops, RunBecomes
<1>11. ASSUME NEW h \in Handlers, Report(h)
      PROVE  req'[p].run \in early'
  BY <1>11, ReportDoes, Typed DEF Earliness, Decided, Held, Deciders, DecidingOf,
     Deciding, RunsHeld, RunOf, Becomes, Others, Loops
<1>12. ASSUME NEW h \in Handlers, HandlerDies(h)
      PROVE  req'[p].run \in early'
  BY <1>12, HandlerDiesDoes, Typed DEF Earliness, Decided, Held, Deciders, DecidingOf,
     Deciding, RunsHeld, RunOf, Becomes, Others, Ends, Asking, rows
<1>13. ASSUME NEW q \in Requests, NEW r \in Runs, NEW yes \in BOOLEAN, Resolve(q, r, yes)
      PROVE  req'[p].run \in early'
  BY <1>13, ResolveDoes, Typed DEF Earliness, Decided, Held, Deciders, DecidingOf,
     Deciding, RunsHeld, RunOf, Rest, rows
<1>14. ASSUME NEW q \in Requests, ResolveTx(q)
      PROVE  req'[p].run \in early'
  BY <1>14, ResolveTxDoes, Typed DEF Earliness, Decided, Held, Deciders, DecidingOf,
     Deciding, RunsHeld, RunOf, Rest, rows
<1>15. ASSUME NEW q \in Requests, ResolveCommit(q)
      PROVE  req'[p].run \in early'
  BY <1>15, ResolveCommitDoes, Typed DEF Earliness, Decided, Held, Deciders,
     DecidingOf, Deciding, RunsHeld, RunOf, Rest
<1>16. ASSUME NEW q \in Requests, Resume(q)
      PROVE  req'[p].run \in early'
  BY <1>16, ResumeDoes, Typed DEF Earliness, Decided, Held, Deciders, DecidingOf,
     Deciding, RunsHeld, RunOf, Rest, Ended, Activated
<1>17. ASSUME NEW q \in Requests, PostLost(q)
      PROVE  req'[p].run \in early'
  BY <1>17, PostLostDoes, Typed DEF Earliness, Decided, Held, Deciders, DecidingOf,
     Deciding, RunsHeld, RunOf, Rest, rows
<1>18. ASSUME NEW q \in Requests, NEW h \in Handlers, Post(q, h)
      PROVE  req'[p].run \in early'
  BY <1>18, PostDoes, Typed DEF Earliness, Decided, Held, Deciders, DecidingOf,
     Deciding, RunsHeld, RunOf, Becomes, Others, Rest, rows
<1>19. ASSUME NEW q \in Requests, NEW h \in Handlers, Deadlock(q, h)
      PROVE  req'[p].run \in early'
  BY <1>19, DeadlockDoes, Typed DEF Earliness, Decided, Held, Deciders, DecidingOf,
     Deciding, RunsHeld, RunOf, Becomes, Others, Ends, Asking, Rest, rows
<1> QED
  BY <1>1, <1>2, <1>3, <1>4, <1>5, <1>6, <1>7, <1>8, <1>9, <1>10, <1>11, <1>12, <1>13,
     <1>14, <1>15, <1>16, <1>17, <1>18, <1>19 DEF Next

\* A decision that will not end the run found it not waiting.
LEMMA NotEndingStep ==
  ASSUME IInv, NEW p \in Requests, req'[p].pc = "commit", ~ req'[p].ends, [Next]_vars
  PROVE  run'[req'[p].run] # "WAITING_HUMAN" \/ req'[p].run \in early'
<1> USE DEF IInv
<1>1. CASE UNCHANGED vars
  BY <1>1 DEF vars, Earliness, Decided, Held, Deciders, DecidingOf, Deciding,
     RunsHeld, RunOf, Terminal
<1>2. ASSUME NEW h \in Handlers, ClaimResumed(h)
      PROVE  run'[req'[p].run] # "WAITING_HUMAN" \/ req'[p].run \in early'
  BY <1>2, ClaimDoes, Typed DEF Earliness, Decided, Held, Deciders, DecidingOf,
     Deciding, RunsHeld, RunOf, Terminal, Becomes, Others, Goes, Ends, Asking, Ended,
     Activated
<1>3. ASSUME NEW h \in Handlers, Dispatch(h)
      PROVE  run'[req'[p].run] # "WAITING_HUMAN" \/ req'[p].run \in early'
  BY <1>3, DispatchDoes, Typed DEF Earliness, Decided, Held, Deciders, DecidingOf,
     Deciding, RunsHeld, RunOf, Terminal, Becomes, Others, Goes, Ends, Asking, rows
<1>4. ASSUME NEW h \in Handlers, Load(h)
      PROVE  run'[req'[p].run] # "WAITING_HUMAN" \/ req'[p].run \in early'
  BY <1>4, LoadDoes, Typed DEF Earliness, Decided, Held, Deciders, DecidingOf,
     Deciding, RunsHeld, RunOf, Terminal, Becomes, Others, Goes, Executes
<1>5. ASSUME NEW h \in Handlers, Grab(h)
      PROVE  run'[req'[p].run] # "WAITING_HUMAN" \/ req'[p].run \in early'
  BY <1>5, GrabDoes, Typed DEF Earliness, Decided, Held, Deciders, DecidingOf,
     Deciding, RunsHeld, RunOf, Terminal, Becomes, Others, Goes, Executes
<1>6. ASSUME NEW h \in Handlers, Begin(h)
      PROVE  run'[req'[p].run] # "WAITING_HUMAN" \/ req'[p].run \in early'
  BY <1>6, BeginDoes, Typed DEF Earliness, Decided, Held, Deciders, DecidingOf,
     Deciding, RunsHeld, RunOf, Terminal, Becomes, Others, Goes, RunBecomes
<1>7. ASSUME NEW h \in Handlers, Work(h)
      PROVE  run'[req'[p].run] # "WAITING_HUMAN" \/ req'[p].run \in early'
  BY <1>7, WorkDoes, Typed DEF Earliness, Decided, Held, Deciders, DecidingOf,
     Deciding, RunsHeld, RunOf, Terminal, Becomes, Others, Goes, RunBecomes
<1>8. ASSUME NEW h \in Handlers, Ask(h)
      PROVE  run'[req'[p].run] # "WAITING_HUMAN" \/ req'[p].run \in early'
  BY <1>8, AskDoes, Typed DEF Earliness, Decided, Held, Deciders, DecidingOf,
     Deciding, RunsHeld, RunOf, Terminal, Becomes, Others, Goes
<1>9. ASSUME NEW h \in Handlers, Wait(h)
      PROVE  run'[req'[p].run] # "WAITING_HUMAN" \/ req'[p].run \in early'
  BY <1>9, WaitDoes, Typed DEF Earliness, Decided, Held, Deciders, DecidingOf,
     Deciding, RunsHeld, RunOf, Terminal, Becomes, Others, Goes, RunBecomes
<1>10. ASSUME NEW h \in Handlers, Pause(h)
      PROVE  run'[req'[p].run] # "WAITING_HUMAN" \/ req'[p].run \in early'
  BY <1>10, PauseDoes, Typed DEF Earliness, Decided, Held, Deciders, DecidingOf,
     Deciding, RunsHeld, RunOf, Terminal, Becomes, Others, Loops, RunBecomes
<1>11. ASSUME NEW h \in Handlers, Report(h)
      PROVE  run'[req'[p].run] # "WAITING_HUMAN" \/ req'[p].run \in early'
  BY <1>11, ReportDoes, Typed DEF Earliness, Decided, Held, Deciders, DecidingOf,
     Deciding, RunsHeld, RunOf, Terminal, Becomes, Others, Loops
<1>12. ASSUME NEW h \in Handlers, HandlerDies(h)
      PROVE  run'[req'[p].run] # "WAITING_HUMAN" \/ req'[p].run \in early'
  BY <1>12, HandlerDiesDoes, Typed DEF Earliness, Decided, Held, Deciders, DecidingOf,
     Deciding, RunsHeld, RunOf, Terminal, Becomes, Others, Ends, Asking, rows
<1>13. ASSUME NEW q \in Requests, NEW r \in Runs, NEW yes \in BOOLEAN, Resolve(q, r, yes)
      PROVE  run'[req'[p].run] # "WAITING_HUMAN" \/ req'[p].run \in early'
  BY <1>13, ResolveDoes, Typed DEF Earliness, Decided, Held, Deciders, DecidingOf,
     Deciding, RunsHeld, RunOf, Terminal, Rest, rows
<1>14. ASSUME NEW q \in Requests, ResolveTx(q)
      PROVE  run'[req'[p].run] # "WAITING_HUMAN" \/ req'[p].run \in early'
  BY <1>14, ResolveTxDoes, Typed DEF Earliness, Decided, Held, Deciders, DecidingOf,
     Deciding, RunsHeld, RunOf, Terminal, Rest, rows
<1>15. ASSUME NEW q \in Requests, ResolveCommit(q)
      PROVE  run'[req'[p].run] # "WAITING_HUMAN" \/ req'[p].run \in early'
  BY <1>15, ResolveCommitDoes, Typed DEF Earliness, Decided, Held, Deciders,
     DecidingOf, Deciding, RunsHeld, RunOf, Terminal, Rest
<1>16. ASSUME NEW q \in Requests, Resume(q)
      PROVE  run'[req'[p].run] # "WAITING_HUMAN" \/ req'[p].run \in early'
  BY <1>16, ResumeDoes, Typed DEF Earliness, Decided, Held, Deciders, DecidingOf,
     Deciding, RunsHeld, RunOf, Terminal, Rest, Ended, Activated
<1>17. ASSUME NEW q \in Requests, PostLost(q)
      PROVE  run'[req'[p].run] # "WAITING_HUMAN" \/ req'[p].run \in early'
  BY <1>17, PostLostDoes, Typed DEF Earliness, Decided, Held, Deciders, DecidingOf,
     Deciding, RunsHeld, RunOf, Terminal, Rest, rows
<1>18. ASSUME NEW q \in Requests, NEW h \in Handlers, Post(q, h)
      PROVE  run'[req'[p].run] # "WAITING_HUMAN" \/ req'[p].run \in early'
  BY <1>18, PostDoes, Typed DEF Earliness, Decided, Held, Deciders, DecidingOf,
     Deciding, RunsHeld, RunOf, Terminal, Becomes, Others, Rest, rows
<1>19. ASSUME NEW q \in Requests, NEW h \in Handlers, Deadlock(q, h)
      PROVE  run'[req'[p].run] # "WAITING_HUMAN" \/ req'[p].run \in early'
  BY <1>19, DeadlockDoes, Typed DEF Earliness, Decided, Held, Deciders, DecidingOf,
     Deciding, RunsHeld, RunOf, Terminal, Becomes, Others, Ends, Asking, Rest, rows
<1> QED
  BY <1>1, <1>2, <1>3, <1>4, <1>5, <1>6, <1>7, <1>8, <1>9, <1>10, <1>11, <1>12, <1>13,
     <1>14, <1>15, <1>16, <1>17, <1>18, <1>19 DEF Next

\* A run that waits although it is decided was decided early, or is held.
LEMMA WaitingStep ==
  ASSUME IInv, NEW s \in Runs, Decided(s)', run'[s] = "WAITING_HUMAN", [Next]_vars
  PROVE  s \in early' \cup aside' \/ Held(s)'
<1> USE DEF IInv
<1>1. CASE UNCHANGED vars
  BY <1>1 DEF vars, Asked, Earliness, Decided, Held, Verdict, Terminal, RunsHeld,
     RunOf
<1>2. ASSUME NEW h \in Handlers, ClaimResumed(h)
      PROVE  s \in early' \cup aside' \/ Held(s)'
  BY <1>2, ClaimDoes, Typed DEF Asked, Earliness, Decided, Held, Verdict, Terminal,
     RunsHeld, RunOf, Becomes, Others, Goes, Ends, Asking, Ended, Activated
<1>3. ASSUME NEW h \in Handlers, Dispatch(h)
      PROVE  s \in early' \cup aside' \/ Held(s)'
  BY <1>3, DispatchDoes, Typed DEF Asked, Earliness, Decided, Held, Verdict, Terminal,
     RunsHeld, RunOf, Becomes, Others, Goes, Ends, Asking, rows
<1>4. ASSUME NEW h \in Handlers, Load(h)
      PROVE  s \in early' \cup aside' \/ Held(s)'
  BY <1>4, LoadDoes, Typed DEF Asked, Earliness, Decided, Held, Verdict, Terminal,
     RunsHeld, RunOf, Becomes, Others, Goes, Executes
<1>5. ASSUME NEW h \in Handlers, Grab(h)
      PROVE  s \in early' \cup aside' \/ Held(s)'
  BY <1>5, GrabDoes, Typed DEF Asked, Earliness, Decided, Held, Verdict, Terminal,
     RunsHeld, RunOf, Becomes, Others, Goes, Executes
<1>6. ASSUME NEW h \in Handlers, Begin(h)
      PROVE  s \in early' \cup aside' \/ Held(s)'
  BY <1>6, BeginDoes, Typed DEF Asked, Earliness, Decided, Held, Verdict, Terminal,
     RunsHeld, RunOf, Becomes, Others, Goes, RunBecomes
<1>7. ASSUME NEW h \in Handlers, Work(h)
      PROVE  s \in early' \cup aside' \/ Held(s)'
  BY <1>7, WorkDoes, Typed DEF Asked, Earliness, Decided, Held, Verdict, Terminal,
     RunsHeld, RunOf, Becomes, Others, Goes, RunBecomes
<1>8. ASSUME NEW h \in Handlers, Ask(h)
      PROVE  s \in early' \cup aside' \/ Held(s)'
  BY <1>8, AskDoes, Typed DEF Asked, Earliness, Decided, Held, Verdict, Terminal,
     RunsHeld, RunOf, Becomes, Others, Goes
<1>9. ASSUME NEW h \in Handlers, Wait(h)
      PROVE  s \in early' \cup aside' \/ Held(s)'
  BY <1>9, WaitDoes, Typed DEF Asked, Earliness, Decided, Held, Verdict, Terminal,
     RunsHeld, RunOf, Becomes, Others, Goes, RunBecomes
<1>10. ASSUME NEW h \in Handlers, Pause(h)
      PROVE  s \in early' \cup aside' \/ Held(s)'
  BY <1>10, PauseDoes, Typed DEF Asked, Earliness, Decided, Held, Verdict, Terminal,
     RunsHeld, RunOf, Becomes, Others, Loops, RunBecomes
<1>11. ASSUME NEW h \in Handlers, Report(h)
      PROVE  s \in early' \cup aside' \/ Held(s)'
  BY <1>11, ReportDoes, Typed DEF Asked, Earliness, Decided, Held, Verdict, Terminal,
     RunsHeld, RunOf, Becomes, Others, Loops
<1>12. ASSUME NEW h \in Handlers, HandlerDies(h)
      PROVE  s \in early' \cup aside' \/ Held(s)'
  BY <1>12, HandlerDiesDoes, Typed DEF Asked, Earliness, Decided, Held, Verdict,
     Terminal, RunsHeld, RunOf, Becomes, Others, Ends, Asking, rows
<1>13. ASSUME NEW q \in Requests, NEW r \in Runs, NEW yes \in BOOLEAN, Resolve(q, r, yes)
      PROVE  s \in early' \cup aside' \/ Held(s)'
  BY <1>13, ResolveDoes, Typed DEF Asked, Earliness, Decided, Held, Verdict, Terminal,
     RunsHeld, RunOf, Rest, rows
<1>14. ASSUME NEW q \in Requests, ResolveTx(q)
      PROVE  s \in early' \cup aside' \/ Held(s)'
  BY <1>14, ResolveTxDoes, Typed DEF Asked, Earliness, Decided, Held, Verdict,
     Terminal, RunsHeld, RunOf, Rest, rows
<1>15. ASSUME NEW q \in Requests, ResolveCommit(q)
      PROVE  s \in early' \cup aside' \/ Held(s)'
  BY <1>15, ResolveCommitDoes, Typed DEF Asked, Earliness, Decided, Held, Verdict,
     Terminal, RunsHeld, RunOf, Rest
<1>16. ASSUME NEW q \in Requests, Resume(q)
      PROVE  s \in early' \cup aside' \/ Held(s)'
  <2>1. Held(s)' <=> Held(s)
    BY <1>16, ResumeDoes DEF Held
  <2>0. Freeing
    BY <1>16, ResumeDoes
  <2>2. s \notin TracedRuns /\ run[s] = "WAITING_HUMAN"
    BY <2>0 DEF Freeing
  <2>3. CASE cp[s] = "PENDING"
    BY <1>16, <2>1, <2>2, <2>3, ResumeDoes
  <2>4. CASE cp[s] # "PENDING"
    BY <1>16, <2>1, <2>2, <2>4, ResumeDoes DEF Asked, Decided
  <2> QED
    BY <2>3, <2>4
<1>17. ASSUME NEW q \in Requests, PostLost(q)
      PROVE  s \in early' \cup aside' \/ Held(s)'
  BY <1>17, PostLostDoes, Typed DEF Asked, Earliness, Decided, Held, Verdict,
     Terminal, RunsHeld, RunOf, Rest, rows
<1>18. ASSUME NEW q \in Requests, NEW h \in Handlers, Post(q, h)
      PROVE  s \in early' \cup aside' \/ Held(s)'
  BY <1>18, PostDoes, Typed DEF Asked, Earliness, Decided, Held, Verdict, Terminal,
     RunsHeld, RunOf, Becomes, Others, Rest, rows
<1>19. ASSUME NEW q \in Requests, NEW h \in Handlers, Deadlock(q, h)
      PROVE  s \in early' \cup aside' \/ Held(s)'
  BY <1>19, DeadlockDoes, Typed DEF Asked, Earliness, Decided, Held, Verdict,
     Terminal, RunsHeld, RunOf, Becomes, Others, Ends, Asking, Rest, rows
<1> QED
  BY <1>1, <1>2, <1>3, <1>4, <1>5, <1>6, <1>7, <1>8, <1>9, <1>10, <1>11, <1>12, <1>13,
     <1>14, <1>15, <1>16, <1>17, <1>18, <1>19 DEF Next

\* An agent that waits has asked.
LEMMA AskedStep ==
  ASSUME IInv,
         NEW a \in Agents, agent'[a] = "WAITING_HUMAN", [Next]_vars
  PROVE  \E s \in Runs : owner'[s] = a /\ Asks(s)'
<1> USE DEF IInv
<1>1. CASE UNCHANGED vars
  BY <1>1 DEF vars, Asked, Asks, Earliness, Decided, Held, Terminal, RunsHeld, RunOf,
     CpStatus
<1>2. ASSUME NEW h \in Handlers, ClaimResumed(h)
      PROVE  \E s \in Runs : owner'[s] = a /\ Asks(s)'
  <2>1. PICK s \in Runs : owner[s] = a /\ Asks(s)
    BY <1>2, ClaimDoes DEF Asked, Activated
  <2>0. (UNCHANGED <<run, agent>>) \/ Freeing
    BY <1>2, ClaimDoes
  <2>2. run'[s] = run[s]
    BY <2>0, <2>1 DEF Freeing
  <2> QED
    BY <1>2, <2>1, <2>2, ClaimDoes DEF Asks
<1>3. ASSUME NEW h \in Handlers, Dispatch(h)
      PROVE  \E s \in Runs : owner'[s] = a /\ Asks(s)'
  BY <1>3, DispatchDoes, Typed DEF Asked, Asks, Earliness, Decided, Held, Terminal,
     RunsHeld, RunOf, CpStatus, Becomes, Others, Goes, Ends, Asking, rows
<1>4. ASSUME NEW h \in Handlers, Load(h)
      PROVE  \E s \in Runs : owner'[s] = a /\ Asks(s)'
  BY <1>4, LoadDoes, Typed DEF Asked, Asks, Earliness, Decided, Held, Terminal, RunsHeld,
     RunOf, CpStatus, Becomes, Others, Goes, Executes
<1>5. ASSUME NEW h \in Handlers, Grab(h)
      PROVE  \E s \in Runs : owner'[s] = a /\ Asks(s)'
  BY <1>5, GrabDoes, Typed DEF Asked, Asks, Earliness, Decided, Held, Terminal, RunsHeld,
     RunOf, CpStatus, Becomes, Others, Goes, Executes
<1>6. ASSUME NEW h \in Handlers, Begin(h)
      PROVE  \E s \in Runs : owner'[s] = a /\ Asks(s)'
  BY <1>6, BeginDoes, Typed DEF Asked, Asks, Earliness, Decided, Held, Terminal, RunsHeld,
     RunOf, CpStatus, Becomes, Others, Goes, RunBecomes
<1>7. ASSUME NEW h \in Handlers, Work(h)
      PROVE  \E s \in Runs : owner'[s] = a /\ Asks(s)'
  BY <1>7, WorkDoes, Typed DEF Asked, Asks, Earliness, Decided, Held, Terminal, RunsHeld,
     RunOf, CpStatus, Becomes, Others, Goes, RunBecomes
<1>8. ASSUME NEW h \in Handlers, Ask(h)
      PROVE  \E s \in Runs : owner'[s] = a /\ Asks(s)'
  BY <1>8, AskDoes, Typed DEF Asked, Asks, Earliness, Decided, Held, Terminal, RunsHeld,
     RunOf, CpStatus, Becomes, Others, Goes
<1>9. ASSUME NEW h \in Handlers, Wait(h)
      PROVE  \E s \in Runs : owner'[s] = a /\ Asks(s)'
  BY <1>9, WaitDoes, Typed DEF Asked, Asks, Earliness, Decided, Held, Terminal, RunsHeld,
     RunOf, CpStatus, Becomes, Others, Goes, RunBecomes
<1>10. ASSUME NEW h \in Handlers, Pause(h)
      PROVE  \E s \in Runs : owner'[s] = a /\ Asks(s)'
  BY <1>10, PauseDoes, Typed DEF Asked, Asks, Earliness, Decided, Held, Terminal, RunsHeld,
     RunOf, CpStatus, Becomes, Others, Loops, RunBecomes
<1>11. ASSUME NEW h \in Handlers, Report(h)
      PROVE  \E s \in Runs : owner'[s] = a /\ Asks(s)'
  BY <1>11, ReportDoes, Typed DEF Asked, Asks, Earliness, Decided, Held, Terminal, RunsHeld,
     RunOf, CpStatus, Becomes, Others, Loops
<1>12. ASSUME NEW h \in Handlers, HandlerDies(h)
      PROVE  \E s \in Runs : owner'[s] = a /\ Asks(s)'
  BY <1>12, HandlerDiesDoes, Typed DEF Asked, Asks, Earliness, Decided, Held, Terminal,
     RunsHeld, RunOf, CpStatus, Becomes, Others, Ends, Asking, rows
<1>13. ASSUME NEW q \in Requests, NEW r \in Runs, NEW yes \in BOOLEAN, Resolve(q, r, yes)
      PROVE  \E s \in Runs : owner'[s] = a /\ Asks(s)'
  BY <1>13, ResolveDoes, Typed DEF Asked, Asks, Earliness, Decided, Held, Terminal,
     RunsHeld, RunOf, CpStatus, Rest, rows
<1>14. ASSUME NEW q \in Requests, ResolveTx(q)
      PROVE  \E s \in Runs : owner'[s] = a /\ Asks(s)'
  BY <1>14, ResolveTxDoes, Typed DEF Asked, Asks, Earliness, Decided, Held, Terminal,
     RunsHeld, RunOf, CpStatus, Rest, rows
<1>15. ASSUME NEW q \in Requests, ResolveCommit(q)
      PROVE  \E s \in Runs : owner'[s] = a /\ Asks(s)'
  BY <1>15, ResolveCommitDoes, Typed DEF Asked, Asks, Earliness, Decided, Held, Terminal,
     RunsHeld, RunOf, CpStatus, Rest
<1>16. ASSUME NEW q \in Requests, Resume(q)
      PROVE  \E s \in Runs : owner'[s] = a /\ Asks(s)'
  <2>1. PICK s \in Runs : owner[s] = a /\ Asks(s)
    BY <1>16, ResumeDoes DEF Asked, Activated
  <2>0. Freeing
    BY <1>16, ResumeDoes
  <2>2. run'[s] = run[s] /\ s \notin TracedRuns
    BY <2>0, <2>1 DEF Freeing
  <2>3. s \in early' \cup aside'
    BY <1>16, <2>1, <2>2, ResumeDoes DEF Asks
  <2> QED
    BY <1>16, <2>1, <2>2, <2>3, ResumeDoes DEF Asks
<1>17. ASSUME NEW q \in Requests, PostLost(q)
      PROVE  \E s \in Runs : owner'[s] = a /\ Asks(s)'
  BY <1>17, PostLostDoes, Typed DEF Asked, Asks, Earliness, Decided, Held, Terminal,
     RunsHeld, RunOf, CpStatus, Rest, rows
<1>18. ASSUME NEW q \in Requests, NEW h \in Handlers, Post(q, h)
      PROVE  \E s \in Runs : owner'[s] = a /\ Asks(s)'
  BY <1>18, PostDoes, Typed DEF Asked, Asks, Earliness, Decided, Held, Terminal, RunsHeld,
     RunOf, CpStatus, Becomes, Others, Rest, rows
<1>19. ASSUME NEW q \in Requests, NEW h \in Handlers, Deadlock(q, h)
      PROVE  \E s \in Runs : owner'[s] = a /\ Asks(s)'
  BY <1>19, DeadlockDoes, Typed DEF Asked, Asks, Earliness, Decided, Held, Terminal,
     RunsHeld, RunOf, CpStatus, Becomes, Others, Ends, Asking, Rest, rows
<1> QED
  BY <1>1, <1>2, <1>3, <1>4, <1>5, <1>6, <1>7, <1>8, <1>9, <1>10, <1>11, <1>12, <1>13,
     <1>14, <1>15, <1>16, <1>17, <1>18, <1>19 DEF Next

\* While nothing exceptional has happened, a RUNNING task is executed.
LEMMA CarriedRunning ==
  ASSUME IInv, "fault" \notin loose', task' = "RUNNING", [Next]_vars
  PROVE  \E g \in Handlers : Active(g)'
<1> USE DEF IInv
<1>1. CASE UNCHANGED vars
  BY <1>1 DEF vars, Carried, Active, Terminal
<1>2. ASSUME NEW h \in Handlers, ClaimResumed(h)
      PROVE  \E g \in Handlers : Active(g)'
  BY <1>2, ClaimDoes DEF Carried, Active, Terminal, Becomes, Others, Goes, Ends,
     Asking, Ended, Activated
<1>3. ASSUME NEW h \in Handlers, Dispatch(h)
      PROVE  \E g \in Handlers : Active(g)'
  BY <1>3, DispatchDoes DEF Carried, Active, Terminal, Becomes, Others, Goes, Ends,
     Asking, rows
<1>4. ASSUME NEW h \in Handlers, Load(h)
      PROVE  \E g \in Handlers : Active(g)'
  BY <1>4, LoadDoes DEF Carried, Active, Terminal, Becomes, Others, Goes, Executes
<1>5. ASSUME NEW h \in Handlers, Grab(h)
      PROVE  \E g \in Handlers : Active(g)'
  BY <1>5, GrabDoes DEF Carried, Active, Terminal, Becomes, Others, Goes, Executes
<1>6. ASSUME NEW h \in Handlers, Begin(h)
      PROVE  \E g \in Handlers : Active(g)'
  BY <1>6, BeginDoes DEF Carried, Active, Terminal, Becomes, Others, Goes, RunBecomes
<1>7. ASSUME NEW h \in Handlers, Work(h)
      PROVE  \E g \in Handlers : Active(g)'
  BY <1>7, WorkDoes DEF Carried, Active, Terminal, Becomes, Others, Goes, RunBecomes
<1>8. ASSUME NEW h \in Handlers, Ask(h)
      PROVE  \E g \in Handlers : Active(g)'
  BY <1>8, AskDoes DEF Carried, Active, Terminal, Becomes, Others, Goes
<1>9. ASSUME NEW h \in Handlers, Wait(h)
      PROVE  \E g \in Handlers : Active(g)'
  BY <1>9, WaitDoes DEF Carried, Active, Terminal, Becomes, Others, Goes, RunBecomes
<1>10. ASSUME NEW h \in Handlers, Pause(h)
      PROVE  \E g \in Handlers : Active(g)'
  BY <1>10, PauseDoes DEF Carried, Active, Terminal, Becomes, Others, Loops,
     RunBecomes
<1>11. ASSUME NEW h \in Handlers, Report(h)
      PROVE  \E g \in Handlers : Active(g)'
  BY <1>11, ReportDoes DEF Carried, Active, Terminal, Becomes, Others, Loops
<1>12. ASSUME NEW h \in Handlers, HandlerDies(h)
      PROVE  \E g \in Handlers : Active(g)'
  BY <1>12, HandlerDiesDoes DEF Carried, Active, Terminal, Becomes, Others, Ends,
     Asking, rows
<1>13. ASSUME NEW q \in Requests, NEW r \in Runs, NEW yes \in BOOLEAN, Resolve(q, r, yes)
      PROVE  \E g \in Handlers : Active(g)'
  BY <1>13, ResolveDoes DEF Carried, Active, Terminal, Rest, rows
<1>14. ASSUME NEW q \in Requests, ResolveTx(q)
      PROVE  \E g \in Handlers : Active(g)'
  BY <1>14, ResolveTxDoes DEF Carried, Active, Terminal, Rest, rows
<1>15. ASSUME NEW q \in Requests, ResolveCommit(q)
      PROVE  \E g \in Handlers : Active(g)'
  BY <1>15, ResolveCommitDoes DEF Carried, Active, Terminal, Rest
<1>16. ASSUME NEW q \in Requests, Resume(q)
      PROVE  \E g \in Handlers : Active(g)'
  BY <1>16, ResumeDoes DEF Carried, Active, Terminal, Rest, Ended, Activated
<1>17. ASSUME NEW q \in Requests, PostLost(q)
      PROVE  \E g \in Handlers : Active(g)'
  BY <1>17, PostLostDoes DEF Carried, Active, Terminal, Rest, rows
<1>18. ASSUME NEW q \in Requests, NEW h \in Handlers, Post(q, h)
      PROVE  \E g \in Handlers : Active(g)'
  BY <1>18, PostDoes DEF Carried, Active, Terminal, Becomes, Others, Rest, rows
<1>19. ASSUME NEW q \in Requests, NEW h \in Handlers, Deadlock(q, h)
      PROVE  \E g \in Handlers : Active(g)'
  BY <1>19, DeadlockDoes DEF Carried, Active, Terminal, Becomes, Others, Ends, Asking,
     Rest, rows
<1> QED
  BY <1>1, <1>2, <1>3, <1>4, <1>5, <1>6, <1>7, <1>8, <1>9, <1>10, <1>11, <1>12, <1>13,
     <1>14, <1>15, <1>16, <1>17, <1>18, <1>19 DEF Next

\* A QUEUED one is about to be found or published.
LEMMA CarriedQueued ==
  ASSUME IInv, "fault" \notin loose', task' = "QUEUED", [Next]_vars
  PROVE  \/ \E g \in Handlers : hdl'[g].pc \in {"claim", "loop", "look", "grab"}
         \/ \E p \in Requests : req'[p].pc = "publish"
<1> USE DEF IInv
<1>1. CASE UNCHANGED vars
  BY <1>1 DEF vars, Carried, Active, Terminal, Claimable
<1>2. ASSUME NEW h \in Handlers, ClaimResumed(h)
      PROVE  \/ \E g \in Handlers : hdl'[g].pc \in {"claim", "loop", "look", "grab"}
         \/ \E p \in Requests : req'[p].pc = "publish"
  BY <1>2, ClaimDoes DEF Carried, Active, Terminal, Claimable, Becomes, Others, Goes,
     Ends, Asking, Ended, Activated
<1>3. ASSUME NEW h \in Handlers, Dispatch(h)
      PROVE  \/ \E g \in Handlers : hdl'[g].pc \in {"claim", "loop", "look", "grab"}
         \/ \E p \in Requests : req'[p].pc = "publish"
  BY <1>3, DispatchDoes DEF Carried, Active, Terminal, Claimable, Becomes, Others,
     Goes, Ends, Asking, rows
<1>4. ASSUME NEW h \in Handlers, Load(h)
      PROVE  \/ \E g \in Handlers : hdl'[g].pc \in {"claim", "loop", "look", "grab"}
         \/ \E p \in Requests : req'[p].pc = "publish"
  BY <1>4, LoadDoes DEF Carried, Active, Terminal, Claimable, Becomes, Others, Goes,
     Executes
<1>5. ASSUME NEW h \in Handlers, Grab(h)
      PROVE  \/ \E g \in Handlers : hdl'[g].pc \in {"claim", "loop", "look", "grab"}
         \/ \E p \in Requests : req'[p].pc = "publish"
  BY <1>5, GrabDoes DEF Carried, Active, Terminal, Claimable, Becomes, Others, Goes,
     Executes
<1>6. ASSUME NEW h \in Handlers, Begin(h)
      PROVE  \/ \E g \in Handlers : hdl'[g].pc \in {"claim", "loop", "look", "grab"}
         \/ \E p \in Requests : req'[p].pc = "publish"
  BY <1>6, BeginDoes DEF Carried, Active, Terminal, Claimable, Becomes, Others, Goes,
     RunBecomes
<1>7. ASSUME NEW h \in Handlers, Work(h)
      PROVE  \/ \E g \in Handlers : hdl'[g].pc \in {"claim", "loop", "look", "grab"}
         \/ \E p \in Requests : req'[p].pc = "publish"
  BY <1>7, WorkDoes DEF Carried, Active, Terminal, Claimable, Becomes, Others, Goes,
     RunBecomes
<1>8. ASSUME NEW h \in Handlers, Ask(h)
      PROVE  \/ \E g \in Handlers : hdl'[g].pc \in {"claim", "loop", "look", "grab"}
         \/ \E p \in Requests : req'[p].pc = "publish"
  BY <1>8, AskDoes DEF Carried, Active, Terminal, Claimable, Becomes, Others, Goes
<1>9. ASSUME NEW h \in Handlers, Wait(h)
      PROVE  \/ \E g \in Handlers : hdl'[g].pc \in {"claim", "loop", "look", "grab"}
         \/ \E p \in Requests : req'[p].pc = "publish"
  BY <1>9, WaitDoes DEF Carried, Active, Terminal, Claimable, Becomes, Others, Goes,
     RunBecomes
<1>10. ASSUME NEW h \in Handlers, Pause(h)
      PROVE  \/ \E g \in Handlers : hdl'[g].pc \in {"claim", "loop", "look", "grab"}
         \/ \E p \in Requests : req'[p].pc = "publish"
  BY <1>10, PauseDoes DEF Carried, Active, Terminal, Claimable, Becomes, Others,
     Loops, RunBecomes
<1>11. ASSUME NEW h \in Handlers, Report(h)
      PROVE  \/ \E g \in Handlers : hdl'[g].pc \in {"claim", "loop", "look", "grab"}
         \/ \E p \in Requests : req'[p].pc = "publish"
  BY <1>11, ReportDoes DEF Carried, Active, Terminal, Claimable, Becomes, Others,
     Loops
<1>12. ASSUME NEW h \in Handlers, HandlerDies(h)
      PROVE  \/ \E g \in Handlers : hdl'[g].pc \in {"claim", "loop", "look", "grab"}
         \/ \E p \in Requests : req'[p].pc = "publish"
  BY <1>12, HandlerDiesDoes DEF Carried, Active, Terminal, Claimable, Becomes, Others,
     Ends, Asking, rows
<1>13. ASSUME NEW q \in Requests, NEW r \in Runs, NEW yes \in BOOLEAN, Resolve(q, r, yes)
      PROVE  \/ \E g \in Handlers : hdl'[g].pc \in {"claim", "loop", "look", "grab"}
         \/ \E p \in Requests : req'[p].pc = "publish"
  BY <1>13, ResolveDoes DEF Carried, Active, Terminal, Claimable, Rest, rows
<1>14. ASSUME NEW q \in Requests, ResolveTx(q)
      PROVE  \/ \E g \in Handlers : hdl'[g].pc \in {"claim", "loop", "look", "grab"}
         \/ \E p \in Requests : req'[p].pc = "publish"
  BY <1>14, ResolveTxDoes DEF Carried, Active, Terminal, Claimable, Rest, rows
<1>15. ASSUME NEW q \in Requests, ResolveCommit(q)
      PROVE  \/ \E g \in Handlers : hdl'[g].pc \in {"claim", "loop", "look", "grab"}
         \/ \E p \in Requests : req'[p].pc = "publish"
  BY <1>15, ResolveCommitDoes DEF Carried, Active, Terminal, Claimable, Rest
<1>16. ASSUME NEW q \in Requests, Resume(q)
      PROVE  \/ \E g \in Handlers : hdl'[g].pc \in {"claim", "loop", "look", "grab"}
         \/ \E p \in Requests : req'[p].pc = "publish"
  BY <1>16, ResumeDoes DEF Carried, Active, Terminal, Claimable, Rest, Ended,
     Activated
<1>17. ASSUME NEW q \in Requests, PostLost(q)
      PROVE  \/ \E g \in Handlers : hdl'[g].pc \in {"claim", "loop", "look", "grab"}
         \/ \E p \in Requests : req'[p].pc = "publish"
  BY <1>17, PostLostDoes DEF Carried, Active, Terminal, Claimable, Rest, rows
<1>18. ASSUME NEW q \in Requests, NEW h \in Handlers, Post(q, h)
      PROVE  \/ \E g \in Handlers : hdl'[g].pc \in {"claim", "loop", "look", "grab"}
         \/ \E p \in Requests : req'[p].pc = "publish"
  BY <1>18, PostDoes DEF Carried, Active, Terminal, Claimable, Becomes, Others, Rest,
     rows
<1>19. ASSUME NEW q \in Requests, NEW h \in Handlers, Deadlock(q, h)
      PROVE  \/ \E g \in Handlers : hdl'[g].pc \in {"claim", "loop", "look", "grab"}
         \/ \E p \in Requests : req'[p].pc = "publish"
  BY <1>19, DeadlockDoes DEF Carried, Active, Terminal, Claimable, Becomes, Others,
     Ends, Asking, Rest, rows
<1> QED
  BY <1>1, <1>2, <1>3, <1>4, <1>5, <1>6, <1>7, <1>8, <1>9, <1>10, <1>11, <1>12, <1>13,
     <1>14, <1>15, <1>16, <1>17, <1>18, <1>19 DEF Next

\* A PAUSED one has a checkpoint that is undecided or rejected, or was decided early.
LEMMA CarriedPaused ==
  ASSUME IInv, loose' \cap {"fault", "bare", "split"} = {}, task' = "PAUSED", [Next]_vars
  PROVE  \E s \in Runs : Stays(s)'
<1> USE DEF IInv
<1>1. CASE UNCHANGED vars
  BY <1>1 DEF vars, Carried, Active, Terminal, Blocks, Stays, Decided, Verdict, CpStatus,
     Resumable, Approving, RunsHeld, RunOf, Earliness, Held
<1>2. ASSUME NEW h \in Handlers, ClaimResumed(h)
      PROVE  \E s \in Runs : Stays(s)'
  BY <1>2, ClaimDoes, Typed DEF Carried, Active, Terminal, Blocks, Stays, Decided, Verdict,
     CpStatus, Resumable, Approving, RunsHeld, RunOf, Earliness, Held, Becomes,
     Others, Goes, Ends, Asking, Ended, Activated
<1>3. ASSUME NEW h \in Handlers, Dispatch(h)
      PROVE  \E s \in Runs : Stays(s)'
  BY <1>3, DispatchDoes, Typed DEF Carried, Active, Terminal, Blocks, Stays, Decided,
     Verdict, CpStatus, Resumable, Approving, RunsHeld, RunOf, Earliness, Held,
     Becomes, Others, Goes, Ends, Asking, rows
<1>4. ASSUME NEW h \in Handlers, Load(h)
      PROVE  \E s \in Runs : Stays(s)'
  BY <1>4, LoadDoes, Typed DEF Carried, Active, Terminal, Blocks, Stays, Decided, Verdict,
     CpStatus, Resumable, Approving, RunsHeld, RunOf, Earliness, Held, Becomes,
     Others, Goes, Executes
<1>5. ASSUME NEW h \in Handlers, Grab(h)
      PROVE  \E s \in Runs : Stays(s)'
  BY <1>5, GrabDoes, Typed DEF Carried, Active, Terminal, Blocks, Stays, Decided, Verdict,
     CpStatus, Resumable, Approving, RunsHeld, RunOf, Earliness, Held, Becomes,
     Others, Goes, Executes
<1>6. ASSUME NEW h \in Handlers, Begin(h)
      PROVE  \E s \in Runs : Stays(s)'
  BY <1>6, BeginDoes, Typed DEF Carried, Active, Terminal, Blocks, Stays, Decided, Verdict,
     CpStatus, Resumable, Approving, RunsHeld, RunOf, Earliness, Held, Becomes,
     Others, Goes, RunBecomes
<1>7. ASSUME NEW h \in Handlers, Work(h)
      PROVE  \E s \in Runs : Stays(s)'
  BY <1>7, WorkDoes, Typed DEF Carried, Active, Terminal, Blocks, Stays, Decided, Verdict,
     CpStatus, Resumable, Approving, RunsHeld, RunOf, Earliness, Held, Becomes,
     Others, Goes, RunBecomes
<1>8. ASSUME NEW h \in Handlers, Ask(h)
      PROVE  \E s \in Runs : Stays(s)'
  BY <1>8, AskDoes, Typed DEF Carried, Active, Terminal, Blocks, Stays, Decided, Verdict,
     CpStatus, Resumable, Approving, RunsHeld, RunOf, Earliness, Held, Becomes,
     Others, Goes
<1>9. ASSUME NEW h \in Handlers, Wait(h)
      PROVE  \E s \in Runs : Stays(s)'
  BY <1>9, WaitDoes, Typed DEF Carried, Active, Terminal, Blocks, Stays, Decided, Verdict,
     CpStatus, Resumable, Approving, RunsHeld, RunOf, Earliness, Held, Becomes,
     Others, Goes, RunBecomes
<1>10. ASSUME NEW h \in Handlers, Pause(h)
      PROVE  \E s \in Runs : Stays(s)'
  BY <1>10, PauseDoes, Typed DEF Carried, Active, Terminal, Blocks, Stays, Decided, Verdict,
     CpStatus, Resumable, Approving, RunsHeld, RunOf, Earliness, Held, Becomes,
     Others, Loops, RunBecomes
<1>11. ASSUME NEW h \in Handlers, Report(h)
      PROVE  \E s \in Runs : Stays(s)'
  BY <1>11, ReportDoes, Typed DEF Carried, Active, Terminal, Blocks, Stays, Decided, Verdict,
     CpStatus, Resumable, Approving, RunsHeld, RunOf, Earliness, Held, Becomes,
     Others, Loops
<1>12. ASSUME NEW h \in Handlers, HandlerDies(h)
      PROVE  \E s \in Runs : Stays(s)'
  BY <1>12, HandlerDiesDoes, Typed DEF Carried, Active, Terminal, Blocks, Stays, Decided,
     Verdict, CpStatus, Resumable, Approving, RunsHeld, RunOf, Earliness, Held,
     Becomes, Others, Ends, Asking, rows
<1>13. ASSUME NEW q \in Requests, NEW r \in Runs, NEW yes \in BOOLEAN, Resolve(q, r, yes)
      PROVE  \E s \in Runs : Stays(s)'
  BY <1>13, ResolveDoes, Typed DEF Carried, Active, Terminal, Blocks, Stays, Decided,
     Verdict, CpStatus, Resumable, Approving, RunsHeld, RunOf, Earliness, Held, Rest,
     rows
<1>14. ASSUME NEW q \in Requests, ResolveTx(q)
      PROVE  \E s \in Runs : Stays(s)'
  BY <1>14, ResolveTxDoes, Typed DEF Carried, Active, Terminal, Blocks, Stays, Decided,
     Verdict, CpStatus, Resumable, Approving, RunsHeld, RunOf, Earliness, Held, Rest,
     rows
<1>15. ASSUME NEW q \in Requests, ResolveCommit(q)
      PROVE  \E s \in Runs : Stays(s)'
  BY <1>15, ResolveCommitDoes, Typed DEF Carried, Active, Terminal, Blocks, Stays, Decided,
     Verdict, CpStatus, Resumable, Approving, RunsHeld, RunOf, Earliness, Held, Rest
<1>16. ASSUME NEW q \in Requests, Resume(q)
      PROVE  \E s \in Runs : Stays(s)'
  BY <1>16, ResumeDoes, Typed DEF Carried, Active, Terminal, Blocks, Stays, Decided, Verdict,
     CpStatus, Resumable, Approving, RunsHeld, RunOf, Earliness, Held, Rest, Ended,
     Activated
<1>17. ASSUME NEW q \in Requests, PostLost(q)
      PROVE  \E s \in Runs : Stays(s)'
  BY <1>17, PostLostDoes, Typed DEF Carried, Active, Terminal, Blocks, Stays, Decided,
     Verdict, CpStatus, Resumable, Approving, RunsHeld, RunOf, Earliness, Held, Rest,
     rows
<1>18. ASSUME NEW q \in Requests, NEW h \in Handlers, Post(q, h)
      PROVE  \E s \in Runs : Stays(s)'
  BY <1>18, PostDoes, Typed DEF Carried, Active, Terminal, Blocks, Stays, Decided, Verdict,
     CpStatus, Resumable, Approving, RunsHeld, RunOf, Earliness, Held, Becomes,
     Others, Rest, rows
<1>19. ASSUME NEW q \in Requests, NEW h \in Handlers, Deadlock(q, h)
      PROVE  \E s \in Runs : Stays(s)'
  BY <1>19, DeadlockDoes, Typed DEF Carried, Active, Terminal, Blocks, Stays, Decided,
     Verdict, CpStatus, Resumable, Approving, RunsHeld, RunOf, Earliness, Held,
     Becomes, Others, Ends, Asking, Rest, rows
<1> QED
  BY <1>1, <1>2, <1>3, <1>4, <1>5, <1>6, <1>7, <1>8, <1>9, <1>10, <1>11, <1>12, <1>13,
     <1>14, <1>15, <1>16, <1>17, <1>18, <1>19 DEF Next

\* An approval that does not queue the task leaves another checkpoint.
LEMMA CarriedApproving ==
  ASSUME IInv, "split" \notin loose', NEW p \in Requests, Approving(p)', ~ req'[p].go,
         [Next]_vars
  PROVE  \E s \in Runs : s # req'[p].run /\ Blocks(s)'
<1> USE DEF IInv
<1>1. CASE UNCHANGED vars
  BY <1>1 DEF vars, Carried, Approving, Blocks, Siblings, Verdict
<1>2. ASSUME NEW h \in Handlers, ClaimResumed(h)
      PROVE  \E s \in Runs : s # req'[p].run /\ Blocks(s)'
  BY <1>2, ClaimDoes, Typed DEF Carried, Approving, Blocks, Siblings, Verdict,
     Becomes, Others, Goes, Ends, Asking, Ended, Activated
<1>3. ASSUME NEW h \in Handlers, Dispatch(h)
      PROVE  \E s \in Runs : s # req'[p].run /\ Blocks(s)'
  BY <1>3, DispatchDoes, Typed DEF Carried, Approving, Blocks, Siblings, Verdict,
     Becomes, Others, Goes, Ends, Asking, rows
<1>4. ASSUME NEW h \in Handlers, Load(h)
      PROVE  \E s \in Runs : s # req'[p].run /\ Blocks(s)'
  BY <1>4, LoadDoes, Typed DEF Carried, Approving, Blocks, Siblings, Verdict, Becomes,
     Others, Goes, Executes
<1>5. ASSUME NEW h \in Handlers, Grab(h)
      PROVE  \E s \in Runs : s # req'[p].run /\ Blocks(s)'
  BY <1>5, GrabDoes, Typed DEF Carried, Approving, Blocks, Siblings, Verdict, Becomes,
     Others, Goes, Executes
<1>6. ASSUME NEW h \in Handlers, Begin(h)
      PROVE  \E s \in Runs : s # req'[p].run /\ Blocks(s)'
  BY <1>6, BeginDoes, Typed DEF Carried, Approving, Blocks, Siblings, Verdict,
     Becomes, Others, Goes, RunBecomes
<1>7. ASSUME NEW h \in Handlers, Work(h)
      PROVE  \E s \in Runs : s # req'[p].run /\ Blocks(s)'
  BY <1>7, WorkDoes, Typed DEF Carried, Approving, Blocks, Siblings, Verdict, Becomes,
     Others, Goes, RunBecomes
<1>8. ASSUME NEW h \in Handlers, Ask(h)
      PROVE  \E s \in Runs : s # req'[p].run /\ Blocks(s)'
  BY <1>8, AskDoes, Typed DEF Carried, Approving, Blocks, Siblings, Verdict, Becomes,
     Others, Goes
<1>9. ASSUME NEW h \in Handlers, Wait(h)
      PROVE  \E s \in Runs : s # req'[p].run /\ Blocks(s)'
  BY <1>9, WaitDoes, Typed DEF Carried, Approving, Blocks, Siblings, Verdict, Becomes,
     Others, Goes, RunBecomes
<1>10. ASSUME NEW h \in Handlers, Pause(h)
      PROVE  \E s \in Runs : s # req'[p].run /\ Blocks(s)'
  BY <1>10, PauseDoes, Typed DEF Carried, Approving, Blocks, Siblings, Verdict,
     Becomes, Others, Loops, RunBecomes
<1>11. ASSUME NEW h \in Handlers, Report(h)
      PROVE  \E s \in Runs : s # req'[p].run /\ Blocks(s)'
  BY <1>11, ReportDoes, Typed DEF Carried, Approving, Blocks, Siblings, Verdict,
     Becomes, Others, Loops
<1>12. ASSUME NEW h \in Handlers, HandlerDies(h)
      PROVE  \E s \in Runs : s # req'[p].run /\ Blocks(s)'
  BY <1>12, HandlerDiesDoes, Typed DEF Carried, Approving, Blocks, Siblings, Verdict,
     Becomes, Others, Ends, Asking, rows
<1>13. ASSUME NEW q \in Requests, NEW r \in Runs, NEW yes \in BOOLEAN, Resolve(q, r, yes)
      PROVE  \E s \in Runs : s # req'[p].run /\ Blocks(s)'
  BY <1>13, ResolveDoes, Typed DEF Carried, Approving, Blocks, Siblings, Verdict,
     Rest, rows
<1>14. ASSUME NEW q \in Requests, ResolveTx(q)
      PROVE  \E s \in Runs : s # req'[p].run /\ Blocks(s)'
  BY <1>14, ResolveTxDoes, Typed DEF Carried, Approving, Blocks, Siblings, Verdict,
     Rest, rows
<1>15. ASSUME NEW q \in Requests, ResolveCommit(q)
      PROVE  \E s \in Runs : s # req'[p].run /\ Blocks(s)'
  BY <1>15, ResolveCommitDoes, Typed DEF Carried, Approving, Blocks, Siblings,
     Verdict, Rest
<1>16. ASSUME NEW q \in Requests, Resume(q)
      PROVE  \E s \in Runs : s # req'[p].run /\ Blocks(s)'
  BY <1>16, ResumeDoes, Typed DEF Carried, Approving, Blocks, Siblings, Verdict, Rest,
     Ended, Activated
<1>17. ASSUME NEW q \in Requests, PostLost(q)
      PROVE  \E s \in Runs : s # req'[p].run /\ Blocks(s)'
  BY <1>17, PostLostDoes, Typed DEF Carried, Approving, Blocks, Siblings, Verdict,
     Rest, rows
<1>18. ASSUME NEW q \in Requests, NEW h \in Handlers, Post(q, h)
      PROVE  \E s \in Runs : s # req'[p].run /\ Blocks(s)'
  BY <1>18, PostDoes, Typed DEF Carried, Approving, Blocks, Siblings, Verdict,
     Becomes, Others, Rest, rows
<1>19. ASSUME NEW q \in Requests, NEW h \in Handlers, Deadlock(q, h)
      PROVE  \E s \in Runs : s # req'[p].run /\ Blocks(s)'
  BY <1>19, DeadlockDoes, Typed DEF Carried, Approving, Blocks, Siblings, Verdict,
     Becomes, Others, Ends, Asking, Rest, rows
<1> QED
  BY <1>1, <1>2, <1>3, <1>4, <1>5, <1>6, <1>7, <1>8, <1>9, <1>10, <1>11, <1>12, <1>13,
     <1>14, <1>15, <1>16, <1>17, <1>18, <1>19 DEF Next

\* One approval at a time.
LEMMA CarriedAlone ==
  ASSUME IInv, "split" \notin loose',
         NEW o \in Requests, NEW p \in Requests, Approving(o)', Approving(p)', [Next]_vars
  PROVE  o = p
<1> USE DEF IInv
<1>1. CASE UNCHANGED vars
  BY <1>1 DEF vars, Carried, Approving
<1>2. ASSUME NEW h \in Handlers, ClaimResumed(h)
      PROVE  o = p
  BY <1>2, ClaimDoes DEF Carried, Approving, Becomes, Others, Goes, Ends, Asking,
     Ended, Activated
<1>3. ASSUME NEW h \in Handlers, Dispatch(h)
      PROVE  o = p
  BY <1>3, DispatchDoes DEF Carried, Approving, Becomes, Others, Goes, Ends, Asking,
     rows
<1>4. ASSUME NEW h \in Handlers, Load(h)
      PROVE  o = p
  BY <1>4, LoadDoes DEF Carried, Approving, Becomes, Others, Goes, Executes
<1>5. ASSUME NEW h \in Handlers, Grab(h)
      PROVE  o = p
  BY <1>5, GrabDoes DEF Carried, Approving, Becomes, Others, Goes, Executes
<1>6. ASSUME NEW h \in Handlers, Begin(h)
      PROVE  o = p
  BY <1>6, BeginDoes DEF Carried, Approving, Becomes, Others, Goes, RunBecomes
<1>7. ASSUME NEW h \in Handlers, Work(h)
      PROVE  o = p
  BY <1>7, WorkDoes DEF Carried, Approving, Becomes, Others, Goes, RunBecomes
<1>8. ASSUME NEW h \in Handlers, Ask(h)
      PROVE  o = p
  BY <1>8, AskDoes DEF Carried, Approving, Becomes, Others, Goes
<1>9. ASSUME NEW h \in Handlers, Wait(h)
      PROVE  o = p
  BY <1>9, WaitDoes DEF Carried, Approving, Becomes, Others, Goes, RunBecomes
<1>10. ASSUME NEW h \in Handlers, Pause(h)
      PROVE  o = p
  BY <1>10, PauseDoes DEF Carried, Approving, Becomes, Others, Loops, RunBecomes
<1>11. ASSUME NEW h \in Handlers, Report(h)
      PROVE  o = p
  BY <1>11, ReportDoes DEF Carried, Approving, Becomes, Others, Loops
<1>12. ASSUME NEW h \in Handlers, HandlerDies(h)
      PROVE  o = p
  BY <1>12, HandlerDiesDoes DEF Carried, Approving, Becomes, Others, Ends, Asking,
     rows
<1>13. ASSUME NEW q \in Requests, NEW r \in Runs, NEW yes \in BOOLEAN, Resolve(q, r, yes)
      PROVE  o = p
  BY <1>13, ResolveDoes DEF Carried, Approving, Rest, rows
<1>14. ASSUME NEW q \in Requests, ResolveTx(q)
      PROVE  o = p
  BY <1>14, ResolveTxDoes DEF Carried, Approving, Rest, rows
<1>15. ASSUME NEW q \in Requests, ResolveCommit(q)
      PROVE  o = p
  BY <1>15, ResolveCommitDoes DEF Carried, Approving, Rest
<1>16. ASSUME NEW q \in Requests, Resume(q)
      PROVE  o = p
  BY <1>16, ResumeDoes DEF Carried, Approving, Rest, Ended, Activated
<1>17. ASSUME NEW q \in Requests, PostLost(q)
      PROVE  o = p
  BY <1>17, PostLostDoes DEF Carried, Approving, Rest, rows
<1>18. ASSUME NEW q \in Requests, NEW h \in Handlers, Post(q, h)
      PROVE  o = p
  BY <1>18, PostDoes DEF Carried, Approving, Becomes, Others, Rest, rows
<1>19. ASSUME NEW q \in Requests, NEW h \in Handlers, Deadlock(q, h)
      PROVE  o = p
  BY <1>19, DeadlockDoes DEF Carried, Approving, Becomes, Others, Ends, Asking, Rest,
     rows
<1> QED
  BY <1>1, <1>2, <1>3, <1>4, <1>5, <1>6, <1>7, <1>8, <1>9, <1>10, <1>11, <1>12, <1>13,
     <1>14, <1>15, <1>16, <1>17, <1>18, <1>19 DEF Next

-----------------------------------------------------------------------------
LEMMA Initially == Init => IInv
<1> SUFFICES ASSUME Init PROVE IInv
  OBVIOUS
<1>1. PICK h \in Handlers : hdl = [g \in Handlers |-> IF g = h
                                   THEN [Free EXCEPT !.pc = "loop"] ELSE Free]
  BY DEF Init
<1> DEFINE l == [Free EXCEPT !.pc = "loop"]
<1>2. /\ l \in HdlFull /\ l.pc = "loop" /\ l.run = NoRun /\ ~ l.late
      /\ Free.pc = "idle" /\ Free.run = NoRun /\ ~ Free.late
  BY DEF HdlFull, HdlPc, Free
<1>3. /\ hdl \in [Handlers -> HdlFull \cup {Free}] /\ hdl[h].pc = "loop"
      /\ \A g \in Handlers : hdl[g].pc \in {"loop", "idle"} /\ hdl[g].run = NoRun
                             /\ ~ hdl[g].late
  <2> HIDE DEF l
  <2>1. hdl = [g \in Handlers |-> IF g = h THEN l ELSE Free]
    BY <1>1 DEF l
  <2> QED
    BY <1>2, <2>1
<1>4. /\ req \in [Requests -> ReqFull \cup {Idle}]
      /\ \A q \in Requests : req[q].pc = "idle"
  BY DEF Init, Idle
<1>5. TypeOK
  BY <1>3, <1>4, ApprovalsAssumption
     DEF Init, TypeOK, HdlFull, ReqFull, TaskStatus, CpStatus, AgentStatus
<1>6. \A r \in Runs : cp[r] = "none" /\ run[r] = "none" /\ ~ Held(r)
  BY <1>3, ApprovalsAssumption DEF Init, Held
<1>7. \A a \in Agents : agent[a] = "ACTIVE"
  BY DEF Init
<1>8. task = "QUEUED"
  BY DEF Init
<1>9. RunsHeld
  BY <1>3, <1>6 DEF RunsHeld, RunOf
<1>10. Deciders /\ Exclusive
  BY <1>3, <1>4 DEF Deciders, DecidingOf, Deciding, Exclusive, Active
<1>11. Earliness /\ Asked
  <2>1. early = {} /\ aside = {}
    BY DEF Init
  <2> QED
    BY <1>4, <1>6, <1>7, <2>1 DEF Earliness, Asked, Decided
<1>12. Carried
  BY <1>3, <1>4, <1>8 DEF Carried, Approving
<1> QED
  BY <1>5, <1>9, <1>10, <1>11, <1>12 DEF IInv

LEMMA Kept == IInv /\ [Next]_vars => IInv'
<1> SUFFICES ASSUME IInv, [Next]_vars PROVE IInv'
  OBVIOUS
<1>1. TypeOK'
  BY TypeStep
<1>2. RunsHeld'
  BY RunOfStep, ApartStep, RowsStep DEF RunsHeld
<1>3. Deciders'
  BY DecidingStep, DecidersApart DEF Deciders
<1>4. Exclusive'
  BY RunningStep, ExclusiveStep DEF Exclusive
<1>5. Earliness'
  BY EarlyHeldStep, EarlyCommitStep, NotEndingStep, KnownStep, <1>1 DEF Earliness, Held, TypeOK
<1>6. Asked'
  BY WaitingStep, AskedStep DEF Asked
<1>7. Carried'
  BY CarriedRunning, CarriedQueued, CarriedPaused, CarriedApproving, CarriedAlone
     DEF Carried
<1> QED
  BY <1>1, <1>2, <1>3, <1>4, <1>5, <1>6, <1>7 DEF IInv

LEMMA Always == Spec => []IInv
  BY Initially, Kept, PTL DEF Spec

-----------------------------------------------------------------------------
\* The rows, the handlers' and the requests' places stay in their domains.
THEOREM TypeCorrect == Spec => []TypeOK
<1>1. IInv => TypeOK
  BY DEF IInv
<1> QED
  BY Always, <1>1, PTL

\* A decision of a checkpoint is never changed or taken back, unless two
\* requests found the checkpoint undecided: POST .../resolve reads the status
\* before its transaction, and POST .../resume decides all that is PENDING.
THEOREM DecisionsStand == Spec => DecisionStands
<1>1. IInv /\ [Next]_vars =>
        [\A r \in Runs : cp[r] \in {"APPROVED", "REJECTED"} /\ cp'[r] # cp[r]
                        => r \in twice]_vars
  <2> SUFFICES ASSUME IInv, [Next]_vars, NEW r \in Runs, Decided(r), cp'[r] # cp[r]
               PROVE  r \in twice
    BY DEF Decided
  <2>1. UNCHANGED cp \/ (\E h \in Handlers : Ask(h))
        \/ (\E q \in Requests : ResolveCommit(q) \/ Resume(q))
    BY DEF Next, vars, rows, ClaimResumed, Dispatch, Load, Grab, Begin, Work, Wait,
           Pause, Report, HandlerDies, Resolve, ResolveTx, PostLost, Post, Deadlock
  <2>2. ASSUME NEW h \in Handlers, Ask(h)
        PROVE  r \in twice
    BY <2>2, AskDoes DEF IInv, RunsHeld, RunOf, Decided
  <2>3. ASSUME NEW q \in Requests, ResolveCommit(q)
        PROVE  r \in twice
    BY <2>3, ResolveCommitDoes DEF IInv, Deciders, DecidingOf, Deciding, Decided
  <2>4. ASSUME NEW q \in Requests, Resume(q)
        PROVE  r \in twice
    BY <2>4, ResumeDoes DEF IInv, Decided
  <2> QED
    BY <2>1, <2>2, <2>3, <2>4
<1> QED
  BY <1>1, Always, PTL DEF Spec, DecisionStands

\* However approvals, resumes, their events, kicks and faults interleave, one
\* execution of the task runs at a time, with the two exceptions OneExecution names.
THEOREM ExecutesOnce == Spec => []OneExecution
<1>1. IInv => OneExecution
  <2> SUFFICES ASSUME IInv, loose \cap {"forced", "seen"} = {}
               PROVE  Cardinality(Executing) <= 1
    BY DEF OneExecution
  <2>1. \A g, h \in Executing : g = h
    BY DEF IInv, Exclusive, RunsHeld, RunOf, Active, Executing
  <2>2. CASE Executing = {}
    BY <2>2, FS_EmptySet
  <2>3. CASE Executing # {}
    <3>1. PICK h \in Executing : TRUE
      BY <2>3
    <3>2. Executing = {h}
      BY <2>1, <3>1
    <3> QED
      BY <3>2, FS_Singleton
  <2> QED
    BY <2>2, <2>3
<1> QED
  BY Always, <1>1, PTL

\* A run whose checkpoint is decided does not stay WAITING_HUMAN, and an agent
\* that waits has a run that waits and is undecided, but for the early decisions
\* and the resumes NobodyWaitsInVain names.
THEOREM NobodyInVain == Spec => []NobodyWaitsInVain
<1>1. IInv => NobodyWaitsInVain
  BY DEF IInv, Asked, Asks, Decided, Held, NobodyWaitsInVain
<1> QED
  BY Always, <1>1, PTL

\* While no message is lost and nothing dies, a task nobody works on and no
\* request is about is paused, and a human can find it by an undecided or rejected
\* checkpoint or the exceptions LeftForAHuman names: a resumed task is taken up.
THEOREM LeftHuman == Spec => []LeftForAHuman
<1>1. IInv => LeftForAHuman
  <2> SUFFICES ASSUME IInv, Quiet, task \notin Terminal, "fault" \notin loose
               PROVE  task = "PAUSED" /\ (\/ \E r \in Runs : Stays(r)
                                         \/ loose \cap {"bare", "split"} # {})
    BY DEF LeftForAHuman, Blocks, Stays
  <2>1. /\ \A h \in Handlers : hdl[h].pc = "idle"
        /\ \A q \in Requests : req[q].pc = "idle"
    BY DEF Quiet, Free, Idle
  <2>2. task \in {"QUEUED", "RUNNING", "PAUSED"}
    BY DEF IInv, TypeOK, TaskStatus
  <2>3. task = "PAUSED"
    BY <2>1, <2>2 DEF IInv, Carried, Active
  <2> QED
    BY <2>3 DEF IInv, Carried
<1> QED
  BY Always, <1>1, PTL

=============================================================================
