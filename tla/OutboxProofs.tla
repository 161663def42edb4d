---------------------------- MODULE OutboxProofs ----------------------------
(***************************************************************************)
(* What holds of Outbox for every number of events, dispatchers, handlers,   *)
(* origins and faults, and for every set of modes.                          *)
(***************************************************************************)
EXTENDS Outbox, TLAPS

-----------------------------------------------------------------------------
\* The parts of the inductive invariant.

PubRecord == [pc : PubPc, mode : Mode, ok : BOOLEAN, at : 1..Origins,
              on : Handlers \cup {NoHandler}]
HdlRecord == [event : Events, pc : HdlPc, seen : Record]
RowRecord == [status : RowStatus, event : Events \cup {NoEvent}]

Shadowed(e) == NameOf[e] \in DOMAIN Target

\* A request past handleEvent is of an event that was handled and is shadowed,
\* and its update is one the life cycle allows.
HandlingOf(r) ==
  /\ r.pc # "handle" => Shadowed(r.event) /\ handled[r.event] > 0
  /\ r.pc = "update" => /\ r.seen.state \in Lifecycle
                        /\ CanTransition(r.seen.state, Target[NameOf[r.event]])
Handling == \A h \in Handlers : hdl[h] # Idle => HandlingOf(hdl[h])

\* Who waits for an answer waits for a request of its own event.
Called ==
  \A e \in Events : pub[e].on # NoHandler =>
    hdl[pub[e].on] # Idle /\ hdl[pub[e].on].event = e

\* A dispatcher is at a row of its batch, and if the queue took the job, the
\* job is there.
Batched ==
  \A d \in Dispatchers :
    /\ disp[d].at \subseteq disp[d].batch
    /\ \A k \in Keys : disp[d].at = {k} /\ disp[d].ok => job[k] # "none"

\* One request writes the shadow of a task at a time, unless two of them raced,
\* and what it has read of state and attempt is what they are.
WritingOf(h, t) ==
  /\ hdl[h].pc = "create" => shadow[t].state = "none" /\ attempt[t] = "none"
  /\ hdl[h].pc = "update" => attempt[t] = shadow[t].state
  /\ hdl[h].pc = "insert" => attempt[t] = "none"
  /\ hdl[h].pc \in {"insert", "upsert"} =>
       shadow[t].state = Target[NameOf[hdl[h].event]]
Written(t) ==
  /\ \A g, h \in Busy(t) : g = h
  /\ \A h \in Busy(t) : WritingOf(h, t)
  /\ Busy(t) = {} => attempt[t] = shadow[t].state
Writing == \A t \in Tasks \ raced : Written(t)

\* While nothing has failed: how often an event has been handled where its call
\* is, and who waits for the requests that are served.
Base(e) == IF e \in Direct \/ (pub[e].mode = "cutover" /\ Mapped(e)) THEN 0 ELSE 1
On(e) == IF hdl[pub[e].on].pc = "handle" THEN 0 ELSE 1
CountOf(e) ==
  /\ pub[e].pc \in {"start", "outbox", "post"} => e \notin Direct /\ handled[e] = 0
  /\ pub[e].pc \in {"post", "wait"} => Base(e) = 1
  /\ pub[e].pc \in {"wait", "kicked"} <=> pub[e].on # NoHandler
  /\ pub[e].pc = "wait"   => handled[e] = On(e)
  /\ pub[e].pc = "kick"   => handled[e] = Base(e)
  /\ pub[e].pc = "kicked" => handled[e] = Base(e) + On(e)
  /\ pub[e].pc = "done"   => handled[e] = Base(e) + 1
Counting ==
  faults = 0 =>
    /\ \A e \in Events : CountOf(e)
    /\ \A h \in Handlers : hdl[h] # Idle => pub[hdl[h].event].on = h

IInv == /\ TypeOK /\ Handling /\ Called /\ Batched /\ ClaimedByOne /\ AcceptedIsKept
        /\ Writing /\ Counting

-----------------------------------------------------------------------------
\* Constants.
LEMMA Targets ==
  /\ DOMAIN Target = {"task.resumed", "task.completed", "task.failed"}
  /\ \A n \in DOMAIN Target : Target[n] \in Lifecycle
  BY DEF Target, Lifecycle

LEMMA ShadowedTask ==
  ASSUME OutboxAssumption, NEW e \in Events, Shadowed(e)
  PROVE  TaskOf[e] \in Tasks
  BY Targets DEF OutboxAssumption, Shadowed, Tasks

LEMMA MappedKey ==
  ASSUME NEW e \in Events, Mapped(e)
  PROVE  Key(e) \in Keys
  BY DEF Keys

LEMMA IdleApart ==
  ASSUME OutboxAssumption, NEW r \in HdlRecord
  PROVE  r # Idle
  BY DEF OutboxAssumption, HdlRecord, Idle

LEMMA Typed ==
  ASSUME OutboxAssumption, TypeOK
  PROVE  /\ pub \in [Events -> PubRecord]
         /\ hdl \in [Handlers -> HdlRecord \cup {Idle}]
         /\ row \in [Keys -> RowRecord]
  BY DEF TypeOK, PubRecord, HdlRecord, RowRecord

-----------------------------------------------------------------------------
\* How an answer changes its caller.
LEMMA AnsweredCaller ==
  ASSUME OutboxAssumption, TypeOK, NEW e \in Events, NEW ok \in BOOLEAN
  PROVE  /\ Answered(e, ok) \in PubRecord
         /\ Answered(e, ok).on = NoHandler
         /\ Answered(e, ok).ok => pub[e].ok \/ ok
<1>1. pub[e] \in PubRecord
  BY Typed
<1> DEFINE c == [pub[e] EXCEPT !.on = NoHandler]
<1>2. c \in PubRecord /\ c.on = NoHandler /\ c.ok = pub[e].ok
  BY <1>1 DEF PubRecord
<1>3. \/ Answered(e, ok) = [c EXCEPT !.pc = "done"]
      \/ ok /\ Answered(e, ok) = [c EXCEPT !.pc = "kick", !.ok = TRUE]
      \/ c.at < Origins /\ Answered(e, ok) = [c EXCEPT !.pc = "post", !.at = @ + 1]
      \/ Answered(e, ok) = [c EXCEPT !.pc = "kick"]
  BY DEF Answered
<1> HIDE DEF c
<1>4. CASE Answered(e, ok) = [c EXCEPT !.pc = "done"]
  BY <1>2, <1>4 DEF PubRecord, PubPc
<1>5. CASE ok /\ Answered(e, ok) = [c EXCEPT !.pc = "kick", !.ok = TRUE]
  BY <1>2, <1>5 DEF PubRecord, PubPc
<1>6. CASE c.at < Origins /\ Answered(e, ok) = [c EXCEPT !.pc = "post", !.at = @ + 1]
  <2>1. c.at \in 1..Origins /\ Origins \in Nat
    BY <1>2 DEF PubRecord, OutboxAssumption
  <2>2. c.at + 1 \in 1..Origins
    BY <1>6, <2>1
  <2> QED
    BY <1>2, <1>6, <2>2 DEF PubRecord, PubPc
<1>7. CASE Answered(e, ok) = [c EXCEPT !.pc = "kick"]
  BY <1>2, <1>7 DEF PubRecord, PubPc
<1> QED
  BY <1>3, <1>4, <1>5, <1>6, <1>7

LEMMA ThrownCaller ==
  ASSUME OutboxAssumption, TypeOK, NEW e \in Events
  PROVE  /\ Thrown(e) \in PubRecord
         /\ Thrown(e).on = NoHandler
         /\ Thrown(e).ok => pub[e].ok
<1>1. pub[e] \in PubRecord
  BY Typed
<1> QED
  BY <1>1 DEF Thrown, PubRecord, PubPc

\* A reply lets its callers go.
LEMMA Replied ==
  ASSUME OutboxAssumption, TypeOK, NEW h \in Handlers, NEW ok \in BOOLEAN,
         Reply(h, ok)
  PROVE  /\ pub' \in [Events -> PubRecord]
         /\ \A e \in Events : /\ pub'[e].ok => pub[e].ok \/ (ok /\ pub[e].on = h)
                              /\ pub'[e].on # NoHandler => /\ pub'[e].on = pub[e].on
                                                           /\ pub[e].on # h
<1>1. \A e \in Events : pub'[e] = IF pub[e].on = h THEN Answered(e, ok) ELSE pub[e]
  BY DEF Reply, Callers
<1>2. pub' = [e \in Events |-> pub'[e]]
  BY DEF Reply
<1>3. ASSUME NEW e \in Events
      PROVE  /\ pub'[e] \in PubRecord
             /\ pub'[e].ok => pub[e].ok \/ (ok /\ pub[e].on = h)
             /\ pub'[e].on # NoHandler => /\ pub'[e].on = pub[e].on
                                          /\ pub[e].on # h
  <2>1. pub[e] \in PubRecord
    BY Typed
  <2>2. CASE pub[e].on = h
    BY <1>1, <2>2, AnsweredCaller
  <2>3. CASE pub[e].on # h
    <3>1. pub'[e] = pub[e]
      BY <1>1, <2>3
    <3> QED
      BY <2>1, <2>3, <3>1
  <2> QED
    BY <2>2, <2>3
<1> QED
  BY <1>2, <1>3

\* A request that is served moves on with the event it has, or ends with an
\* answer, which is ok only if its event was handled.
Moves(h) ==
  \E r \in HdlRecord :
    /\ hdl' = [hdl EXCEPT ![h] = r] /\ pub' = pub
    /\ r.event = hdl[h].event /\ r.pc # "handle"
Ends(h) ==
  \E ok \in BOOLEAN :
    /\ hdl' = [hdl EXCEPT ![h] = Idle] /\ Reply(h, ok)
    /\ ok => handled'[hdl[h].event] > 0
    /\ ok \/ Fault

Serves(h) ==
  \/ Handle(h) \/ HandleFails(h)
  \/ Find(h) \/ Create(h) \/ Update(h) \/ Attempt(h) \/ ShadowFails(h)

LEMMA Served ==
  ASSUME OutboxAssumption, TypeOK, Handling, NEW h \in Handlers, Serves(h)
  PROVE  /\ hdl[h] \in HdlRecord
         /\ Moves(h) \/ Ends(h)
         /\ \A e \in Events : handled'[e] \in Nat /\ handled'[e] >= handled[e]
         /\ handled' \in [Events -> Nat]
<1>1. hdl[h] \in HdlRecord
  BY Typed DEF Serves, Handle, HandleFails, Find, Create, Update, Attempt, ShadowFails
<1>2. hdl[h].event \in Events /\ hdl[h] # Idle
  BY <1>1, IdleApart DEF HdlRecord
<1>3. /\ \A e \in Events : handled'[e] \in Nat /\ handled'[e] >= handled[e]
      /\ handled' \in [Events -> Nat]
  <2>1. \/ handled' = handled
        \/ handled' = [handled EXCEPT ![hdl[h].event] = @ + 1]
    BY DEF Serves, Handle, HandleFails, Find, Create, Update, Attempt, ShadowFails
  <2>2. handled \in [Events -> Nat]
    BY DEF TypeOK
  <2>3. CASE handled' = handled
    BY <2>2, <2>3
  <2>4. CASE handled' = [handled EXCEPT ![hdl[h].event] = @ + 1]
    BY <1>2, <2>2, <2>4
  <2> QED
    BY <2>1, <2>3, <2>4
<1>4. Moves(h) \/ Ends(h)
  <2>1. CASE Handle(h)
    <3>1. handled'[hdl[h].event] > 0
      BY <1>2, <2>1 DEF Handle, TypeOK
    <3>2. CASE Shadowed(hdl[h].event)
      <4> DEFINE r == [hdl[h] EXCEPT !.pc = "find"]
      <4>1. hdl' = [hdl EXCEPT ![h] = r] /\ pub' = pub
        BY <2>1, <3>2 DEF Handle, Shadowed
      <4>2. r \in HdlRecord /\ r.event = hdl[h].event /\ r.pc # "handle"
        BY <1>1 DEF HdlRecord, HdlPc
      <4> QED
        BY <4>1, <4>2 DEF Moves
    <3>3. CASE ~ Shadowed(hdl[h].event)
      BY <2>1, <3>1, <3>3 DEF Handle, Shadowed, Ends
    <3> QED
      BY <3>2, <3>3
  <2>2. CASE HandleFails(h)
    BY <2>2 DEF HandleFails, Ends
  <2>3. ASSUME hdl[h].pc # "handle", handled' = handled
        PROVE  handled'[hdl[h].event] > 0
    BY <1>2, <2>3 DEF Handling, HandlingOf
  <2>4. CASE Find(h)
    <3> DEFINE t  == TaskOf[hdl[h].event]
               r1 == [hdl[h] EXCEPT !.pc = "create"]
               r2 == [hdl[h] EXCEPT !.pc = "update", !.seen = shadow[t]]
    <3>1. \/ hdl' = [hdl EXCEPT ![h] = r1] /\ pub' = pub
          \/ hdl' = [hdl EXCEPT ![h] = r2] /\ pub' = pub
          \/ hdl' = [hdl EXCEPT ![h] = Idle] /\ Reply(h, TRUE)
      BY <2>4 DEF Find
    <3>2. t \in Tasks
      BY <1>2, <2>4, ShadowedTask DEF Find, Handling, HandlingOf
    <3>3. shadow[t] \in Record
      BY <3>2 DEF TypeOK
    <3>4. /\ r1 \in HdlRecord /\ r1.event = hdl[h].event /\ r1.pc # "handle"
          /\ r2 \in HdlRecord /\ r2.event = hdl[h].event /\ r2.pc # "handle"
      BY <1>1, <3>3 DEF HdlRecord, HdlPc
    <3>5. handled'[hdl[h].event] > 0
      BY <2>3, <2>4 DEF Find
    <3> HIDE DEF r1, r2
    <3> QED
      BY <3>1, <3>4, <3>5 DEF Moves, Ends
  <2>5. CASE Create(h)
    <3> DEFINE r == [hdl[h] EXCEPT !.pc = "insert"]
    <3>1. \/ hdl' = [hdl EXCEPT ![h] = r] /\ pub' = pub
          \/ hdl' = [hdl EXCEPT ![h] = Idle] /\ Reply(h, TRUE)
      BY <2>5 DEF Create
    <3>2. r \in HdlRecord /\ r.event = hdl[h].event /\ r.pc # "handle"
      BY <1>1 DEF HdlRecord, HdlPc
    <3>3. handled'[hdl[h].event] > 0
      BY <2>3, <2>5 DEF Create
    <3> HIDE DEF r
    <3> QED
      BY <3>1, <3>2, <3>3 DEF Moves, Ends
  <2>6. CASE Update(h)
    <3> DEFINE r == [hdl[h] EXCEPT !.pc = "upsert", !.seen = NoRecord]
    <3>1. \/ hdl' = [hdl EXCEPT ![h] = r] /\ pub' = pub
          \/ hdl' = [hdl EXCEPT ![h] = Idle] /\ Reply(h, TRUE)
      BY <2>6 DEF Update
    <3>2. r \in HdlRecord /\ r.event = hdl[h].event /\ r.pc # "handle"
      BY <1>1 DEF HdlRecord, HdlPc, NoRecord, Record
    <3>3. handled'[hdl[h].event] > 0
      BY <2>3, <2>6 DEF Update
    <3> HIDE DEF r
    <3> QED
      BY <3>1, <3>2, <3>3 DEF Moves, Ends
  <2>7. CASE Attempt(h) \/ ShadowFails(h)
    <3>1. hdl' = [hdl EXCEPT ![h] = Idle] /\ Reply(h, TRUE)
      BY <2>7 DEF Attempt, ShadowFails
    <3>2. handled'[hdl[h].event] > 0
      BY <2>3, <2>7 DEF Attempt, ShadowFails
    <3> QED
      BY <3>1, <3>2 DEF Ends
  <2> QED
    BY <2>1, <2>2, <2>4, <2>5, <2>6, <2>7 DEF Serves
<1> QED
  BY <1>1, <1>3, <1>4

-----------------------------------------------------------------------------
\* The steps of a publish.
Publishes(e) ==
  Decide(e) \/ WriteOutbox(e) \/ OutboxFails(e) \/ Refused(e) \/ AnswerLost(e)

\* The outbox is written by its own publish only, and a row never goes away.
LEMMA OutboxWritten ==
  ASSUME OutboxAssumption, TypeOK, NEW e \in Events, Publishes(e)
  PROVE  /\ row' \in [Keys -> RowRecord]
         /\ \A k \in Keys : row'[k] # row[k] =>
              row[k].status = "none" /\ row'[k].status = "PENDING"
         /\ WriteOutbox(e) /\ Mapped(e) => row'[Key(e)].status # "none"
<1>1. row \in [Keys -> RowRecord]
  BY Typed
<1>2. row' = row \/ (/\ Mapped(e) /\ row[Key(e)].status = "none"
                     /\ row' = [row EXCEPT ![Key(e)] =
                                  [status |-> "PENDING", event |-> e]])
  BY DEF Publishes, Decide, WriteOutbox, OutboxFails, Refused, AnswerLost
<1>3. WriteOutbox(e) /\ Mapped(e) =>
        \/ row[Key(e)].status # "none" /\ row' = row
        \/ row' = [row EXCEPT ![Key(e)] = [status |-> "PENDING", event |-> e]]
  BY DEF WriteOutbox
<1>4. [status |-> "PENDING", event |-> e] \in RowRecord
  BY DEF RowRecord, RowStatus
<1> QED
  BY <1>1, <1>2, <1>3, <1>4, MappedKey

\* A call that becomes accepted is in the outbox.
LEMMA Published ==
  ASSUME OutboxAssumption, TypeOK, NEW e \in Events, Publishes(e)
  PROVE  \E c \in PubRecord :
           /\ pub' = [pub EXCEPT ![e] = c]
           /\ c.on \in {pub[e].on, NoHandler}
           /\ c.ok => \/ pub[e].ok
                      \/ Mapped(e) /\ row'[Key(e)].status # "none"
<1>1. pub[e] \in PubRecord
  BY Typed
<1>2. ASSUME NEW c \in PubRecord, pub' = [pub EXCEPT ![e] = c],
             c.on \in {pub[e].on, NoHandler},
             c.ok => pub[e].ok \/ (Mapped(e) /\ row'[Key(e)].status # "none")
      PROVE  \E d \in PubRecord :
               /\ pub' = [pub EXCEPT ![e] = d]
               /\ d.on \in {pub[e].on, NoHandler}
               /\ d.ok => \/ pub[e].ok
                          \/ Mapped(e) /\ row'[Key(e)].status # "none"
  BY <1>2
<1>3. CASE Decide(e)
  <2>1. PICK l \in {"post", "outbox"}, m \in Mode :
          pub' = [pub EXCEPT ![e].pc = l, ![e].mode = m]
    BY <1>3 DEF Decide, TypeOK, OutboxAssumption
  <2> DEFINE c == [pub[e] EXCEPT !.pc = l, !.mode = m]
  <2>2. c \in PubRecord /\ c.on = pub[e].on /\ (c.ok => pub[e].ok)
    BY <1>1 DEF PubRecord, PubPc
  <2>3. pub' = [pub EXCEPT ![e] = c]
    BY <2>1
  <2> HIDE DEF c
  <2> QED
    BY <1>1, <1>2, <2>2, <2>3
<1>4. CASE WriteOutbox(e) \/ OutboxFails(e)
  <2>1. PICK ok \in BOOLEAN : /\ pub' = [pub EXCEPT ![e] = AfterOutbox(e, ok)]
                              /\ ok => WriteOutbox(e) /\ Mapped(e)
    BY <1>4 DEF WriteOutbox, OutboxFails
  <2>2. /\ AfterOutbox(e, ok) \in PubRecord
        /\ AfterOutbox(e, ok).on = pub[e].on
        /\ AfterOutbox(e, ok).ok => pub[e].ok \/ ok
    BY <1>1 DEF AfterOutbox, PubRecord, PubPc
  <2>3. ok => Mapped(e) /\ row'[Key(e)].status # "none"
    BY <2>1, OutboxWritten DEF Publishes
  <2> QED
    BY <1>2, <2>1, <2>2, <2>3
<1>5. CASE Refused(e) \/ AnswerLost(e)
  <2> DEFINE d == [pub[e] EXCEPT !.pc = "done"]
  <2>1. \/ pub' = [pub EXCEPT ![e] = d]
        \/ pub' = [pub EXCEPT ![e] = Answered(e, FALSE)]
        \/ pub' = [pub EXCEPT ![e] = Thrown(e)]
    BY <1>5 DEF Refused, AnswerLost
  <2>2. d \in PubRecord /\ d.on = pub[e].on /\ (d.ok => pub[e].ok)
    BY <1>1 DEF PubRecord, PubPc
  <2> HIDE DEF d
  <2> QED
    BY <1>2, <2>1, <2>2, AnsweredCaller, ThrownCaller
<1> QED
  BY <1>3, <1>4, <1>5 DEF Publishes

-----------------------------------------------------------------------------
\* The steps of a dispatcher.
Dispatches(d) ==
  \/ Claim(d) \/ TickFails(d)
  \/ \E k \in Keys : PublishJob(d, k) \/ PublishJobFails(d, k) \/ MarkRow(d, k)

Worked == \E k \in Keys : Observe(k) \/ ObserveFails(k)

LEMMA NextSteps ==
  ASSUME [Next]_vars
  PROVE  \/ UNCHANGED vars
         \/ \E m \in Modes : SetFlags(m)
         \/ \E e \in Events : Publishes(e)
         \/ \E e \in Events, h \in Handlers : Post(e, h)
         \/ \E h \in Handlers : Serves(h)
         \/ \E d \in Dispatchers : Dispatches(d)
         \/ Worked
  BY DEF Next, Publishes, Serves, Dispatches, Worked

LEMMA FaultStep ==
  ASSUME OutboxAssumption, TypeOK, [Next]_vars
  PROVE  faults' \in 0..MaxFaults
<1>1. Fault \/ faults' = faults
  BY DEF Next, vars, SetFlags, Decide, WriteOutbox, OutboxFails, Post, Refused,
         AnswerLost, Handle, HandleFails, Find, Create, Update, Attempt, ShadowFails,
         Claim, TickFails, PublishJob, PublishJobFails, MarkRow, Observe, ObserveFails
<1> QED
  BY <1>1 DEF Fault, TypeOK, OutboxAssumption

\* Every step keeps the types.
LEMMA TypeStep ==
  ASSUME OutboxAssumption, TypeOK, Handling, [Next]_vars
  PROVE  TypeOK'
<1>1. CASE UNCHANGED vars
  BY <1>1 DEF vars, TypeOK
<1>2. ASSUME NEW m \in Modes, SetFlags(m)
      PROVE  TypeOK'
  BY <1>2, FaultStep DEF SetFlags, TypeOK
<1>3. ASSUME NEW e \in Events, Publishes(e)
      PROVE  TypeOK'
  <2>1. pub' \in [Events -> PubRecord]
    BY <1>3, Published, Typed
  <2>2. row' \in [Keys -> RowRecord]
    BY <1>3, OutboxWritten
  <2>3. faults' \in 0..MaxFaults
    BY FaultStep
  <2>4. UNCHANGED <<mode, job, disp, hdl, handled, shadow, attempt, left, raced>>
    BY <1>3 DEF Publishes, Decide, WriteOutbox, OutboxFails, Refused, AnswerLost
  <2> QED
    BY <2>1, <2>2, <2>3, <2>4 DEF TypeOK, PubRecord, RowRecord
<1>4. ASSUME NEW e \in Events, NEW h \in Handlers, Post(e, h)
      PROVE  TypeOK'
  <2> DEFINE l == IF pub[e].pc = "post" THEN "wait" ELSE "kicked"
             c == [pub[e] EXCEPT !.pc = l, !.on = h]
             r == [event |-> e, pc |-> "handle", seen |-> NoRecord]
  <2>1. c \in PubRecord
    <3>1. l \in PubPc /\ pub[e] \in PubRecord
      BY Typed DEF PubPc
    <3> HIDE DEF l
    <3> QED
      BY <3>1 DEF PubRecord
  <2>2. r \in HdlRecord
    BY DEF HdlRecord, HdlPc, NoRecord, Record
  <2>3. pub' = [pub EXCEPT ![e] = c] /\ hdl' = [hdl EXCEPT ![h] = r]
    BY <1>4 DEF Post
  <2> HIDE DEF l, c, r
  <2>4. pub' \in [Events -> PubRecord] /\ hdl' \in [Handlers -> HdlRecord \cup {Idle}]
    BY <2>1, <2>2, <2>3, Typed
  <2> QED
    BY <1>4, <2>4 DEF Post, TypeOK, PubRecord, HdlRecord
<1>5. ASSUME NEW h \in Handlers, Serves(h)
      PROVE  TypeOK'
  <2>1. hdl[h] \in HdlRecord /\ hdl[h] # Idle /\ hdl[h].event \in Events
    BY <1>5, Served, IdleApart DEF HdlRecord
  <2>2. /\ pub' \in [Events -> PubRecord]
        /\ hdl' \in [Handlers -> HdlRecord \cup {Idle}]
    BY <1>5, Served, Replied, Typed DEF Moves, Ends
  <2>3. hdl[h].pc # "handle" =>
          /\ TaskOf[hdl[h].event] \in Tasks
          /\ Target[NameOf[hdl[h].event]] \in Lifecycle
    BY <2>1, ShadowedTask, Targets DEF Handling, HandlingOf, Shadowed
  <2>4. shadow' \in [Tasks -> Record]
    <3>1. CASE Create(h) \/ Update(h)
      <4>1. hdl[h].pc # "handle"
        BY <3>1 DEF Create, Update
      <4>2. PICK v \in Nat :
              \/ shadow' = shadow
              \/ shadow' = [shadow EXCEPT ![TaskOf[hdl[h].event]] =
                    [state |-> Target[NameOf[hdl[h].event]], version |-> v]]
        <5>1. shadow[TaskOf[hdl[h].event]].version + 1 \in Nat
          BY <2>3, <4>1 DEF TypeOK, Record
        <5> QED
          BY <3>1, <5>1 DEF Create, Update
      <4>3. [state |-> Target[NameOf[hdl[h].event]], version |-> v] \in Record
        BY <2>3, <4>1 DEF Record
      <4> QED
        BY <4>2, <4>3 DEF TypeOK
    <3>2. CASE shadow' = shadow
      BY <3>2 DEF TypeOK
    <3> QED
      BY <1>5, <3>1, <3>2 DEF Serves, Handle, HandleFails, Find, Attempt, ShadowFails
  <2>5. attempt' \in [Tasks -> Lifecycle \cup {"none"}]
    <3>1. CASE Attempt(h)
      <4>1. hdl[h].pc # "handle"
        BY <3>1 DEF Attempt
      <4>2. \/ attempt' = attempt
            \/ attempt' = [attempt EXCEPT ![TaskOf[hdl[h].event]] =
                             Target[NameOf[hdl[h].event]]]
        BY <3>1 DEF Attempt, WriteAttempt
      <4> QED
        BY <2>3, <4>1, <4>2 DEF TypeOK
    <3>2. CASE attempt' = attempt
      BY <3>2 DEF TypeOK
    <3> QED
      BY <1>5, <3>1, <3>2 DEF Serves, Handle, HandleFails, Find, Create, Update,
                              ShadowFails
  <2>6. raced' \subseteq Tasks
    <3>1. CASE raced' = raced
      BY <3>1 DEF TypeOK
    <3>2. CASE Find(h) \/ ShadowFails(h)
      BY <2>3, <3>2 DEF Find, ShadowFails, TypeOK
    <3> QED
      BY <1>5, <3>1, <3>2 DEF Serves, Handle, HandleFails, Create, Update, Attempt
  <2>7. faults' \in 0..MaxFaults
    BY FaultStep
  <2>8. UNCHANGED <<mode, row, job, disp, left>>
    BY <1>5 DEF Serves, Handle, HandleFails, Find, Create, Update, Attempt, ShadowFails
  <2>9. handled' \in [Events -> Nat]
    BY <1>5, Served
  <2> QED
    BY <2>2, <2>4, <2>5, <2>6, <2>7, <2>8, <2>9 DEF TypeOK, PubRecord, HdlRecord
<1>6. ASSUME NEW d \in Dispatchers, Dispatches(d)
      PROVE  TypeOK'
  <2>1. row' \in [Keys -> RowRecord]
    <3>1. CASE Claim(d)
      <4>1. PICK S : MarkClaimed(S)
        BY <3>1 DEF Claim
      <4>2. ASSUME NEW k \in Keys
            PROVE  [row[k] EXCEPT !.status = "DISPATCHING"] \in RowRecord
        BY Typed DEF RowRecord, RowStatus
      <4> QED
        BY <4>1, <4>2, Typed DEF MarkClaimed
    <3>2. ASSUME NEW k \in Keys, MarkRow(d, k)
          PROVE  row' \in [Keys -> RowRecord]
      <4>1. [row[k] EXCEPT !.status = Mark(disp[d].ok)] \in RowRecord
        BY Typed DEF RowRecord, RowStatus, Mark
      <4> QED
        BY <3>2, <4>1, Typed DEF MarkRow
    <3>3. CASE row' = row
      BY <3>3, Typed
    <3> QED
      BY <1>6, <3>1, <3>2, <3>3 DEF Dispatches, TickFails, PublishJob, PublishJobFails
  <2>2. job' \in [Keys -> {"none", "waiting", "observed", "failed"}]
    BY <1>6 DEF Dispatches, Claim, TickFails, PublishJob, PublishJobFails, MarkRow,
                Add, TypeOK
  <2> DEFINE DispRecord == [batch : SUBSET Keys, at : SUBSET Keys, ok : BOOLEAN]
  <2>3. disp' \in [Dispatchers -> DispRecord]
    <3>1. disp \in [Dispatchers -> DispRecord] /\ disp[d] \in DispRecord
      BY DEF TypeOK
    <3>2. \E r \in DispRecord : disp' = [disp EXCEPT ![d] = r]
      <4>1. CASE Claim(d)
        <5>1. PICK S \in SUBSET Keys : disp' = [disp EXCEPT ![d].batch = S]
          BY <4>1 DEF Claim, Pending
        <5>2. [disp[d] EXCEPT !.batch = S] \in DispRecord
          BY <3>1
        <5> QED
          BY <5>1, <5>2
      <4>2. CASE TickFails(d)
        BY <4>2 DEF TickFails, Free
      <4>3. ASSUME NEW k \in Keys,
                   PublishJob(d, k) \/ PublishJobFails(d, k) \/ MarkRow(d, k)
            PROVE  \E r \in DispRecord : disp' = [disp EXCEPT ![d] = r]
        <5>1. /\ [disp[d] EXCEPT !.at = {k}, !.ok = TRUE] \in DispRecord
              /\ [disp[d] EXCEPT !.at = {k}, !.ok = FALSE] \in DispRecord
              /\ [batch |-> disp[d].batch \ {k}, at |-> {}, ok |-> FALSE]
                   \in DispRecord
          BY <3>1
        <5>2. \/ disp' = [disp EXCEPT ![d] = [disp[d] EXCEPT !.at = {k}, !.ok = TRUE]]
              \/ disp' = [disp EXCEPT ![d] = [disp[d] EXCEPT !.at = {k}, !.ok = FALSE]]
              \/ disp' = [disp EXCEPT ![d] = [batch |-> disp[d].batch \ {k},
                                              at |-> {}, ok |-> FALSE]]
          BY <4>3 DEF PublishJob, PublishJobFails, MarkRow
        <5> QED
          BY <5>1, <5>2
      <4> QED
        BY <1>6, <4>1, <4>2, <4>3 DEF Dispatches
    <3> HIDE DEF DispRecord
    <3> QED
      BY <3>1, <3>2
  <2>4. left' \subseteq Keys
    BY <1>6 DEF Dispatches, Claim, TickFails, PublishJob, PublishJobFails, MarkRow,
                TypeOK
  <2>5. faults' \in 0..MaxFaults
    BY FaultStep
  <2>6. UNCHANGED <<mode, pub, hdl, handled, shadow, attempt, raced>>
    BY <1>6 DEF Dispatches, Claim, TickFails, PublishJob, PublishJobFails, MarkRow
  <2> QED
    BY <2>1, <2>2, <2>3, <2>4, <2>5, <2>6 DEF TypeOK, RowRecord
<1>7. CASE Worked
  <2>1. PICK k \in Keys : Observe(k) \/ ObserveFails(k)
    BY <1>7 DEF Worked
  <2>2. /\ \E j \in {"observed", "failed"} : job' = [job EXCEPT ![k] = j]
        /\ UNCHANGED <<mode, row, pub, disp, hdl, handled, shadow, attempt, left, raced>>
    BY <2>1 DEF Observe, ObserveFails
  <2>3. faults' \in 0..MaxFaults
    BY FaultStep
  <2> QED
    BY <2>2, <2>3 DEF TypeOK
<1> QED
  BY <1>1, <1>2, <1>3, <1>4, <1>5, <1>6, <1>7, NextSteps

-----------------------------------------------------------------------------
\* A request is handled before its shadow write begins.
LEMMA HandlingStep ==
  ASSUME OutboxAssumption, TypeOK, Handling, [Next]_vars
  PROVE  Handling'
<1>1. CASE UNCHANGED <<hdl, handled>>
  BY <1>1 DEF Handling, HandlingOf
<1>2. ASSUME NEW e \in Events, NEW h \in Handlers, Post(e, h)
      PROVE  Handling'
  <2>1. handled' = handled /\ hdl' = [hdl EXCEPT ![h] =
          [event |-> e, pc |-> "handle", seen |-> NoRecord]]
    BY <1>2 DEF Post
  <2> QED
    BY <2>1 DEF Handling, HandlingOf, TypeOK
<1>3. ASSUME NEW h \in Handlers, Serves(h)
      PROVE  Handling'
  <2>1. hdl[h] \in HdlRecord /\ hdl[h] # Idle /\ hdl[h].event \in Events
    BY <1>3, Served, IdleApart DEF HdlRecord
  <2>2. \A g \in Handlers : g # h => hdl'[g] = hdl[g]
    <3>1. Moves(h) \/ Ends(h)
      BY <1>3, Served
    <3>2. \E r : hdl' = [hdl EXCEPT ![h] = r]
      BY <3>1 DEF Moves, Ends
    <3>3. DOMAIN hdl = Handlers
      BY DEF TypeOK
    <3> QED
      BY <3>2, <3>3
  <2>3. ASSUME NEW g \in Handlers, g # h, hdl[g] # Idle
        PROVE  HandlingOf(hdl[g])'
    <3>1. hdl[g] \in HdlRecord
      BY <2>3, Typed
    <3>2. handled'[hdl[g].event] >= handled[hdl[g].event]
          /\ handled'[hdl[g].event] \in Nat /\ handled[hdl[g].event] \in Nat
      BY <1>3, <3>1, Served DEF HdlRecord, TypeOK
    <3> QED
      BY <2>2, <2>3, <3>2 DEF Handling, HandlingOf
  <2>4. ASSUME hdl'[h] # Idle
        PROVE  HandlingOf(hdl[h])'
    <3>1. CASE Handle(h)
      <4>1. Shadowed(hdl[h].event) /\ hdl'[h] = [hdl[h] EXCEPT !.pc = "find"]
        BY <2>4, <3>1 DEF Handle, Shadowed, TypeOK
      <4>2. handled'[hdl[h].event] > 0
        BY <2>1, <3>1 DEF Handle, TypeOK
      <4> QED
        BY <2>1, <4>1, <4>2 DEF HandlingOf, HdlRecord
    <3>2. CASE HandleFails(h) \/ Attempt(h) \/ ShadowFails(h)
      BY <2>4, <3>2 DEF HandleFails, Attempt, ShadowFails, TypeOK
    <3>3. CASE Find(h)
      <4> DEFINE t == TaskOf[hdl[h].event]
      <4>1. Shadowed(hdl[h].event) /\ handled'[hdl[h].event] > 0
        BY <2>1, <3>3 DEF Find, Handling, HandlingOf
      <4>2. shadow[t] \in Record
        BY <2>1, <4>1, ShadowedTask DEF TypeOK
      <4>3. \/ hdl'[h] = [hdl[h] EXCEPT !.pc = "create"]
            \/ /\ hdl'[h] = [hdl[h] EXCEPT !.pc = "update", !.seen = shadow[t]]
               /\ shadow[t].state # "none"
               /\ CanTransition(shadow[t].state, Target[NameOf[hdl[h].event]])
        BY <2>4, <3>3 DEF Find, TypeOK
      <4> HIDE DEF t
      <4>4. CASE hdl'[h] = [hdl[h] EXCEPT !.pc = "create"]
        BY <2>1, <4>1, <4>4 DEF HandlingOf, HdlRecord
      <4>5. CASE /\ hdl'[h] = [hdl[h] EXCEPT !.pc = "update", !.seen = shadow[t]]
                 /\ shadow[t].state # "none"
                 /\ CanTransition(shadow[t].state, Target[NameOf[hdl[h].event]])
        <5>1. hdl'[h].seen = shadow[t] /\ hdl'[h].event = hdl[h].event
          BY <2>1, <4>5 DEF HdlRecord
        <5> QED
          BY <4>1, <4>2, <4>5, <5>1 DEF HandlingOf, Record
      <4> QED
        BY <4>3, <4>4, <4>5
    <3>4. CASE Create(h) \/ Update(h)
      <4>1. Shadowed(hdl[h].event) /\ handled'[hdl[h].event] > 0
        BY <2>1, <3>4 DEF Create, Update, Handling, HandlingOf
      <4>2. \/ hdl'[h] = [hdl[h] EXCEPT !.pc = "insert"]
            \/ hdl'[h] = [hdl[h] EXCEPT !.pc = "upsert", !.seen = NoRecord]
        BY <2>4, <3>4 DEF Create, Update, TypeOK
      <4> QED
        BY <2>1, <4>1, <4>2 DEF HandlingOf, HdlRecord
    <3> QED
      BY <1>3, <3>1, <3>2, <3>3, <3>4 DEF Serves
  <2> QED
    BY <2>2, <2>3, <2>4 DEF Handling
<1> QED
  BY <1>1, <1>2, <1>3, NextSteps
     DEF vars, SetFlags, Publishes, Decide, WriteOutbox, OutboxFails, Refused,
         AnswerLost, Dispatches, Claim, TickFails, PublishJob, PublishJobFails,
         MarkRow, Worked, Observe, ObserveFails

\* An answer comes from the request its caller waits for.
LEMMA CalledStep ==
  ASSUME OutboxAssumption, TypeOK, Handling, Called, [Next]_vars
  PROVE  Called'
<1>1. CASE UNCHANGED <<pub, hdl>>
  BY <1>1 DEF Called
<1>2. ASSUME NEW e \in Events, Publishes(e)
      PROVE  Called'
  <2>1. hdl' = hdl
    BY <1>2 DEF Publishes, Decide, WriteOutbox, OutboxFails, Refused, AnswerLost
  <2>2. PICK c \in PubRecord : /\ pub' = [pub EXCEPT ![e] = c]
                               /\ c.on \in {pub[e].on, NoHandler}
    BY <1>2, Published
  <2> QED
    BY <2>1, <2>2 DEF Called, TypeOK
<1>3. ASSUME NEW e \in Events, NEW h \in Handlers, Post(e, h)
      PROVE  Called'
  <2> DEFINE r == [event |-> e, pc |-> "handle", seen |-> NoRecord]
  <2>1. /\ hdl[h] = Idle /\ hdl' = [hdl EXCEPT ![h] = r]
        /\ \A f \in Events : f # e => pub'[f] = pub[f]
        /\ pub'[e].on = h
    <3>1. pub[e] \in PubRecord
      BY Typed
    <3> QED
      BY <1>3, <3>1 DEF Post, TypeOK, PubRecord
  <2>2. r # Idle
    BY IdleApart DEF HdlRecord, HdlPc, NoRecord, Record
  <2>3. ASSUME NEW f \in Events, pub'[f].on # NoHandler
        PROVE  hdl'[pub'[f].on] # Idle /\ hdl'[pub'[f].on].event = f
    <3>1. CASE f = e
      BY <2>1, <2>2, <3>1, Typed
    <3>2. CASE f # e
      <4>1. hdl[pub[f].on] # Idle /\ hdl[pub[f].on].event = f /\ pub'[f] = pub[f]
        BY <2>1, <2>3, <3>2 DEF Called
      <4> QED
        BY <2>1, <4>1, Typed
    <3> QED
      BY <3>1, <3>2
  <2> QED
    BY <2>3 DEF Called
<1>4. ASSUME NEW h \in Handlers, Serves(h)
      PROVE  Called'
  <2>1. CASE Moves(h)
    <3>1. PICK r \in HdlRecord : /\ hdl' = [hdl EXCEPT ![h] = r] /\ pub' = pub
                                 /\ r.event = hdl[h].event
      BY <2>1 DEF Moves
    <3>2. r # Idle
      BY IdleApart
    <3> QED
      BY <3>1, <3>2, Typed DEF Called
  <2>2. CASE Ends(h)
    <3>1. PICK ok \in BOOLEAN : hdl' = [hdl EXCEPT ![h] = Idle] /\ Reply(h, ok)
      BY <2>2 DEF Ends
    <3>2. \A e \in Events : pub'[e].on # NoHandler =>
            pub'[e].on = pub[e].on /\ pub[e].on # h
      BY <3>1, Replied
    <3> QED
      BY <3>1, <3>2, Typed DEF Called
  <2> QED
    BY <1>4, <2>1, <2>2, Served
<1> QED
  BY <1>1, <1>2, <1>3, <1>4, NextSteps
     DEF vars, SetFlags, Dispatches, Claim, TickFails, PublishJob, PublishJobFails,
         MarkRow, Worked, Observe, ObserveFails

-----------------------------------------------------------------------------
\* Dispatchers hold their rows alone.
LEMMA BatchStep ==
  ASSUME OutboxAssumption, TypeOK, Batched, ClaimedByOne, [Next]_vars
  PROVE  Batched' /\ ClaimedByOne'
<1>1. CASE UNCHANGED <<row, job, disp, left>>
  BY <1>1 DEF Batched, ClaimedByOne
<1>2. ASSUME NEW e \in Events, Publishes(e)
      PROVE  Batched' /\ ClaimedByOne'
  <2>1. UNCHANGED <<job, disp, left>>
    BY <1>2 DEF Publishes, Decide, WriteOutbox, OutboxFails, Refused, AnswerLost
  <2>2. \A k \in Keys :
          row'[k].status = "DISPATCHING" <=> row[k].status = "DISPATCHING"
    BY <1>2, OutboxWritten
  <2> QED
    BY <2>1, <2>2 DEF Batched, ClaimedByOne
<1>3. ASSUME NEW d \in Dispatchers, Claim(d)
      PROVE  Batched' /\ ClaimedByOne'
  <2>1. PICK S \in SUBSET Pending :
          MarkClaimed(S) /\ disp' = [disp EXCEPT ![d].batch = S]
    BY <1>3 DEF Claim
  <2>2. /\ disp[d].batch = {} /\ disp[d].at = {} /\ ~ disp[d].ok
        /\ disp'[d].batch = S /\ disp'[d].at = {} /\ ~ disp'[d].ok
        /\ \A c \in Dispatchers : c # d => disp'[c] = disp[c]
    BY <1>3, <2>1 DEF Claim, Free, TypeOK
  <2>3. \A k \in Keys : /\ k \in S => row[k].status = "PENDING"
                                      /\ row'[k].status = "DISPATCHING"
                        /\ k \notin S => row'[k] = row[k]
    BY <2>1, Typed DEF MarkClaimed, Pending, RowRecord
  <2>4. UNCHANGED <<job, left>>
    BY <1>3 DEF Claim
  <2>5. Batched'
    BY <2>2, <2>4 DEF Batched
  <2>6. ASSUME NEW c \in Dispatchers, NEW k \in Keys, k \in disp'[c].batch
        PROVE  /\ row'[k].status = "DISPATCHING"
               /\ \A b \in Dispatchers \ {c} : k \notin disp'[b].batch
    <3>1. CASE c = d
      BY <2>2, <2>3, <2>6, <3>1 DEF ClaimedByOne
    <3>2. CASE c # d
      BY <2>2, <2>3, <2>6, <3>2 DEF ClaimedByOne
    <3> QED
      BY <3>1, <3>2
  <2>7. ASSUME NEW k \in Keys, row'[k].status = "DISPATCHING"
        PROVE  k \in left' \/ \E c \in Dispatchers : k \in disp'[c].batch
    BY <2>2, <2>3, <2>4, <2>7 DEF ClaimedByOne
  <2> QED
    BY <2>5, <2>6, <2>7 DEF ClaimedByOne
<1>4. ASSUME NEW d \in Dispatchers, TickFails(d)
      PROVE  Batched' /\ ClaimedByOne'
  <2>1. /\ disp'[d].batch = {} /\ disp'[d].at = {}
        /\ \A c \in Dispatchers : c # d => disp'[c] = disp[c]
        /\ left' = left \cup disp[d].batch
        /\ UNCHANGED <<row, job>>
    BY <1>4 DEF TickFails, Free, TypeOK
  <2>2. Batched'
    BY <2>1 DEF Batched
  <2>3. ClaimedByOne'
    BY <2>1 DEF ClaimedByOne
  <2> QED
    BY <2>2, <2>3
<1>5. ASSUME NEW d \in Dispatchers, NEW k \in Keys,
             PublishJob(d, k) \/ PublishJobFails(d, k)
      PROVE  Batched' /\ ClaimedByOne'
  <2>1. PICK ok \in BOOLEAN :
          /\ disp' = [disp EXCEPT ![d].at = {k}, ![d].ok = ok]
          /\ ok => Add(k)
    BY <1>5 DEF PublishJob, PublishJobFails
  <2>2. /\ disp'[d].batch = disp[d].batch /\ disp'[d].at = {k}
        /\ disp'[d].ok <=> ok
        /\ \A c \in Dispatchers : c # d => disp'[c] = disp[c]
    BY <2>1 DEF TypeOK
  <2>3. k \in disp[d].batch /\ UNCHANGED <<row, left>>
    BY <1>5 DEF PublishJob, PublishJobFails
  <2>4. \A l \in Keys : job[l] # "none" => job'[l] # "none"
    BY <1>5 DEF PublishJob, PublishJobFails, Add, TypeOK
  <2>5. ok => job'[k] # "none"
    BY <2>1 DEF Add, TypeOK
  <2>6. Batched'
    <3>1. ASSUME NEW c \in Dispatchers
          PROVE  disp'[c].at \subseteq disp'[c].batch
      BY <2>2, <2>3 DEF Batched
    <3>2. ASSUME NEW c \in Dispatchers, NEW l \in Keys, disp'[c].at = {l}, disp'[c].ok
          PROVE  job'[l] # "none"
      <4>1. CASE c = d
        BY <2>2, <2>5, <3>2, <4>1
      <4>2. CASE c # d
        BY <2>2, <2>4, <3>2, <4>2 DEF Batched
      <4> QED
        BY <4>1, <4>2
    <3> QED
      BY <3>1, <3>2 DEF Batched
  <2>7. ClaimedByOne'
    BY <2>2, <2>3 DEF ClaimedByOne
  <2> QED
    BY <2>6, <2>7
<1>6. ASSUME NEW d \in Dispatchers, NEW k \in Keys, MarkRow(d, k)
      PROVE  Batched' /\ ClaimedByOne'
  <2>1. /\ disp'[d].batch = disp[d].batch \ {k} /\ disp'[d].at = {}
        /\ \A c \in Dispatchers : c # d => disp'[c] = disp[c]
        /\ UNCHANGED <<job, left>>
    BY <1>6 DEF MarkRow, TypeOK
  <2>2. k \in disp[d].batch
    BY <1>6 DEF MarkRow, Batched
  <2>3. /\ row'[k].status # "DISPATCHING"
        /\ \A l \in Keys : l # k => row'[l] = row[l]
    BY <1>6, Typed DEF MarkRow, Mark, RowRecord
  <2>4. Batched'
    BY <2>1 DEF Batched
  <2>5. ASSUME NEW c \in Dispatchers, NEW l \in Keys, l \in disp'[c].batch
        PROVE  /\ row'[l].status = "DISPATCHING"
               /\ \A b \in Dispatchers \ {c} : l \notin disp'[b].batch
    <3>1. l \in disp[c].batch /\ l # k
      BY <2>1, <2>2, <2>5 DEF ClaimedByOne
    <3> QED
      BY <2>1, <2>3, <3>1 DEF ClaimedByOne
  <2>6. ASSUME NEW l \in Keys, row'[l].status = "DISPATCHING"
        PROVE  l \in left' \/ \E c \in Dispatchers : l \in disp'[c].batch
    <3>1. l # k /\ row[l].status = "DISPATCHING"
      BY <2>3, <2>6
    <3> QED
      BY <2>1, <3>1 DEF ClaimedByOne
  <2> QED
    BY <2>4, <2>5, <2>6 DEF ClaimedByOne
<1>7. CASE Worked
  <2>1. UNCHANGED <<row, disp, left>>
    BY <1>7 DEF Worked, Observe, ObserveFails
  <2>2. \A k \in Keys : job[k] # "none" => job'[k] # "none"
    BY <1>7 DEF Worked, Observe, ObserveFails, TypeOK
  <2> QED
    BY <2>1, <2>2 DEF Batched, ClaimedByOne
<1>8. ASSUME NEW h \in Handlers, Serves(h)
      PROVE  UNCHANGED <<row, job, disp, left>>
  BY <1>8 DEF Serves, Handle, HandleFails, Find, Create, Update, Attempt, ShadowFails
<1>9. \/ UNCHANGED vars
      \/ \E m \in Modes : SetFlags(m)
      \/ \E e \in Events, h \in Handlers : Post(e, h)
      => UNCHANGED <<row, job, disp, left>>
  BY DEF vars, SetFlags, Post
<1> QED
  BY <1>1, <1>2, <1>3, <1>4, <1>5, <1>6, <1>7, <1>8, <1>9, NextSteps DEF Dispatches

\* What was accepted is kept.
LEMMA KeptStep ==
  ASSUME OutboxAssumption, TypeOK, Handling, Called, Batched, ClaimedByOne,
         AcceptedIsKept, [Next]_vars
  PROVE  AcceptedIsKept'
<1> DEFINE Backed(e)   == handled[e] > 0 \/ (Mapped(e) /\ row[Key(e)].status # "none")
           Accepted    == \A e \in Events : pub[e].ok => Backed(e)
           Queued      == \A k \in Keys : row[k].status = "DISPATCHED" => job[k] # "none"
<1>1. Accepted /\ Queued
  BY DEF AcceptedIsKept
<1>2. SUFFICES Accepted' /\ Queued'
  BY DEF AcceptedIsKept
<1>3. CASE UNCHANGED <<row, job, pub, handled>>
  BY <1>1, <1>3
<1>4. ASSUME NEW e \in Events, Publishes(e)
      PROVE  Accepted' /\ Queued'
  <2>1. UNCHANGED <<job, handled>>
    BY <1>4 DEF Publishes, Decide, WriteOutbox, OutboxFails, Refused, AnswerLost
  <2>2. \A k \in Keys : /\ row[k].status # "none" => row'[k].status # "none"
                        /\ row'[k].status = "DISPATCHED" => row[k].status = "DISPATCHED"
    BY <1>4, OutboxWritten
  <2>3. PICK c \in PubRecord :
          /\ pub' = [pub EXCEPT ![e] = c]
          /\ c.ok => pub[e].ok \/ (Mapped(e) /\ row'[Key(e)].status # "none")
    BY <1>4, Published
  <2>4. \A f \in Events : Backed(f) => Backed(f)'
    BY <2>1, <2>2, MappedKey
  <2>5. ASSUME NEW f \in Events, pub'[f].ok
        PROVE  Backed(f)'
    <3>1. CASE f = e
      <4>1. pub'[f] = c
        BY <2>3, <3>1 DEF TypeOK
      <4> QED
        BY <1>1, <2>3, <2>4, <2>5, <3>1, <4>1
    <3>2. CASE f # e
      <4>1. pub'[f] = pub[f]
        BY <2>3, <3>2 DEF TypeOK
      <4> QED
        BY <1>1, <2>4, <2>5, <4>1
    <3> QED
      BY <3>1, <3>2
  <2> QED
    BY <1>1, <2>1, <2>2, <2>5
<1>5. ASSUME NEW e \in Events, NEW h \in Handlers, Post(e, h)
      PROVE  Accepted' /\ Queued'
  <2>1. UNCHANGED <<row, job, handled>>
    BY <1>5 DEF Post
  <2>2. \A f \in Events : pub'[f].ok => pub[f].ok
    <3>1. pub[e] \in PubRecord
      BY Typed
    <3>2. \A f \in Events : f # e => pub'[f] = pub[f]
      BY <1>5 DEF Post, TypeOK
    <3>3. pub'[e].ok => pub[e].ok
      BY <1>5, <3>1 DEF Post, TypeOK, PubRecord
    <3> QED
      BY <3>2, <3>3
  <2> QED
    BY <1>1, <2>1, <2>2
<1>6. ASSUME NEW h \in Handlers, Serves(h)
      PROVE  Accepted' /\ Queued'
  <2>1. UNCHANGED <<row, job>>
    BY <1>6 DEF Serves, Handle, HandleFails, Find, Create, Update, Attempt, ShadowFails
  <2>2. \A f \in Events : Backed(f) => Backed(f)'
    BY <1>6, <2>1, Served DEF TypeOK
  <2>3. CASE Moves(h)
    <3>1. pub' = pub
      BY <2>3 DEF Moves
    <3> QED
      BY <1>1, <2>1, <2>2, <3>1
  <2>4. CASE Ends(h)
    <3>1. PICK ok \in BOOLEAN : Reply(h, ok) /\ (ok => handled'[hdl[h].event] > 0)
      BY <2>4 DEF Ends
    <3>2. ASSUME NEW f \in Events, pub'[f].ok
          PROVE  Backed(f)'
      <4>1. CASE pub[f].ok
        BY <1>1, <2>2, <4>1
      <4>2. CASE ok /\ pub[f].on = h
        <5>1. hdl[h].event = f
          BY <4>2, Typed DEF Called, OutboxAssumption
        <5> QED
          BY <3>1, <4>2, <5>1
      <4> QED
        BY <3>1, <3>2, <4>1, <4>2, Replied
    <3> QED
      BY <1>1, <2>1, <3>2
  <2> QED
    BY <1>6, <2>3, <2>4, Served
<1>7. ASSUME NEW d \in Dispatchers, Dispatches(d)
      PROVE  Accepted' /\ Queued'
  <2>1. UNCHANGED <<pub, handled>>
    BY <1>7 DEF Dispatches, Claim, TickFails, PublishJob, PublishJobFails, MarkRow
  <2>2. \A k \in Keys : job[k] # "none" => job'[k] # "none"
    BY <1>7 DEF Dispatches, Claim, TickFails, PublishJob, PublishJobFails, MarkRow,
                Add, TypeOK
  <2>3. \A k \in Keys :
          /\ row[k].status # "none" => row'[k].status # "none"
          /\ row'[k].status = "DISPATCHED" =>
               row[k].status = "DISPATCHED" \/ job[k] # "none"
    <3>1. CASE Claim(d)
      <4>1. PICK S : MarkClaimed(S)
        BY <3>1 DEF Claim
      <4> QED
        BY <4>1, Typed DEF MarkClaimed, RowRecord
    <3>2. ASSUME NEW l \in Keys, MarkRow(d, l)
          PROVE  \A k \in Keys :
                   /\ row[k].status # "none" => row'[k].status # "none"
                   /\ row'[k].status = "DISPATCHED" =>
                        row[k].status = "DISPATCHED" \/ job[k] # "none"
      <4>1. disp[d].ok => job[l] # "none"
        BY <3>2 DEF MarkRow, Batched
      <4>2. /\ \A k \in Keys : k # l => row'[k] = row[k]
            /\ row'[l].status = Mark(disp[d].ok)
        BY <3>2, Typed DEF MarkRow, RowRecord
      <4> QED
        BY <4>1, <4>2 DEF Mark
    <3>3. CASE row' = row
      BY <3>3
    <3> QED
      BY <1>7, <3>1, <3>2, <3>3 DEF Dispatches, TickFails, PublishJob, PublishJobFails
  <2>4. Accepted'
    BY <1>1, <2>1, <2>3, MappedKey
  <2>5. Queued'
    BY <1>1, <2>2, <2>3
  <2> QED
    BY <2>4, <2>5
<1>8. CASE Worked
  <2>1. UNCHANGED <<row, pub, handled>>
    BY <1>8 DEF Worked, Observe, ObserveFails
  <2>2. \A k \in Keys : job[k] # "none" => job'[k] # "none"
    BY <1>8 DEF Worked, Observe, ObserveFails, TypeOK
  <2> QED
    BY <1>1, <2>1, <2>2
<1> QED
  BY <1>3, <1>4, <1>5, <1>6, <1>7, <1>8, NextSteps DEF vars, SetFlags

-----------------------------------------------------------------------------
\* The shadow of a task.

\* A request's own task.
LEMMA ServedTask ==
  ASSUME OutboxAssumption, TypeOK, Handling, NEW h \in Handlers, hdl[h] # Idle,
         hdl[h].pc # "handle"
  PROVE  TaskOf[hdl[h].event] \in Tasks
<1>1. hdl[h].event \in Events
  BY Typed DEF HdlRecord
<1> QED
  BY <1>1, ShadowedTask DEF Handling, HandlingOf

\* The shadow state moves along the life cycle, one version at a time.
LEMMA LegalStep ==
  ASSUME OutboxAssumption, TypeOK, Handling, [Next]_vars, NEW t \in Tasks,
         shadow'[t] # shadow[t]
  PROVE  \/ shadow[t].state = "none" /\ shadow'[t].version = 1
         \/ /\ CanTransition(shadow[t].state, shadow'[t].state)
            /\ shadow'[t].version = shadow[t].version + 1
<1>1. CASE shadow' = shadow
  BY <1>1
<1>2. ASSUME NEW h \in Handlers, Create(h) \/ Update(h)
      PROVE  \/ shadow[t].state = "none" /\ shadow'[t].version = 1
             \/ /\ CanTransition(shadow[t].state, shadow'[t].state)
                /\ shadow'[t].version = shadow[t].version + 1
  <2> DEFINE u == TaskOf[hdl[h].event]
  <2>1. hdl[h] # Idle /\ u \in Tasks
    BY <1>2, ServedTask DEF Create, Update
  <2>2. u = t
    BY <1>2, <2>1 DEF Create, Update, TypeOK
  <2>3. CASE Create(h)
    <3>1. /\ shadow[u].state = "none"
          /\ shadow' = [shadow EXCEPT ![u] =
               [state |-> Target[NameOf[hdl[h].event]], version |-> 1]]
      BY <2>3 DEF Create
    <3>2. shadow'[u] = [state |-> Target[NameOf[hdl[h].event]], version |-> 1]
      BY <2>1, <3>1 DEF TypeOK
    <3> QED
      BY <2>2, <3>1, <3>2
  <2>4. CASE Update(h)
    <3>1. UnchangedSince(h)
      BY <2>4 DEF Update
    <3>2. shadow'[t] = [state |-> Target[NameOf[hdl[h].event]],
                        version |-> shadow[t].version + 1]
      BY <2>2, <2>4, <3>1 DEF Update, TypeOK
    <3>3. CanTransition(shadow[t].state, Target[NameOf[hdl[h].event]])
      BY <2>1, <2>2, <2>4, <3>1 DEF Update, UnchangedSince, Handling, HandlingOf
    <3> QED
      BY <3>2, <3>3
  <2> QED
    BY <1>2, <2>3, <2>4
<1> QED
  BY <1>1, <1>2, NextSteps
     DEF vars, SetFlags, Publishes, Decide, WriteOutbox, OutboxFails, Refused,
         AnswerLost, Post, Serves, Handle, HandleFails, Find, Attempt, ShadowFails,
         Dispatches, Claim, TickFails, PublishJob, PublishJobFails, MarkRow, Worked,
         Observe, ObserveFails

\* Which requests write the shadow of a task after one of them has moved.
LEMMA BusyMoved ==
  ASSUME OutboxAssumption, TypeOK, NEW h \in Handlers, NEW r \in HdlRecord \cup {Idle},
         hdl' = [hdl EXCEPT ![h] = r], NEW t
  PROVE  /\ \A g \in Handlers : g # h => (g \in Busy(t)' <=> g \in Busy(t))
         /\ h \in Busy(t)' <=> /\ r # Idle /\ TaskOf[r.event] = t
                               /\ r.pc \notin {"handle", "find"}
         /\ \A g \in Handlers : g # h => hdl'[g] = hdl[g]
         /\ hdl'[h] = r
         /\ Busy(t)' \ {h} = Busy(t) \ {h}
         /\ Busy(t)' \subseteq Handlers /\ Busy(t) \subseteq Handlers
<1>1. hdl'[h] = r /\ \A g \in Handlers : g # h => hdl'[g] = hdl[g]
  BY DEF TypeOK
<1>2. \A g \in Handlers : g # h => (g \in Busy(t)' <=> g \in Busy(t))
  BY <1>1 DEF Busy
<1>3. h \in Busy(t)' <=> /\ r # Idle /\ TaskOf[r.event] = t
                         /\ r.pc \notin {"handle", "find"}
  BY <1>1 DEF Busy
<1>4. Busy(t)' \subseteq Handlers /\ Busy(t) \subseteq Handlers
  BY DEF Busy
<1> QED
  BY <1>1, <1>2, <1>3, <1>4

LEMMA BusyStill ==
  ASSUME OutboxAssumption, TypeOK, NEW h \in Handlers, NEW r \in HdlRecord \cup {Idle},
         hdl' = [hdl EXCEPT ![h] = r], NEW t, h \notin Busy(t), h \notin Busy(t)'
  PROVE  Busy(t)' = Busy(t) /\ \A g \in Busy(t) : hdl'[g] = hdl[g]
<1>1. /\ Busy(t)' \ {h} = Busy(t) \ {h}
      /\ Busy(t) \subseteq Handlers
      /\ \A g \in Handlers : g # h => hdl'[g] = hdl[g]
  BY BusyMoved
<1>2. Busy(t)' = Busy(t)'\ {h} /\ Busy(t) = Busy(t) \ {h}
  OBVIOUS
<1> QED
  BY <1>1, <1>2

\* Nobody writes the shadow of a task without being at it.
LEMMA QuietWriting ==
  ASSUME Writing, UNCHANGED <<shadow, attempt, raced>>,
         \A t \in Tasks : /\ Busy(t)' = Busy(t)
                          /\ \A h \in Busy(t) : hdl'[h] = hdl[h]
  PROVE  Writing'
  BY DEF Writing, Written, WritingOf

LEMMA WritingStep ==
  ASSUME OutboxAssumption, TypeOK, Handling, Writing, [Next]_vars
  PROVE  Writing'
<1>1. CASE UNCHANGED <<hdl, shadow, attempt, raced>>
  BY <1>1, QuietWriting DEF Busy
<1>2. ASSUME NEW e \in Events, NEW h \in Handlers, Post(e, h)
      PROVE  Writing'
  <2> DEFINE r == [event |-> e, pc |-> "handle", seen |-> NoRecord]
  <2>1. hdl[h] = Idle /\ hdl' = [hdl EXCEPT ![h] = r]
    BY <1>2 DEF Post
  <2>2. r \in HdlRecord /\ r.pc = "handle"
    BY DEF HdlRecord, HdlPc, NoRecord, Record
  <2> HIDE DEF r
  <2>3. ASSUME NEW t \in Tasks
        PROVE  Busy(t)' = Busy(t) /\ \A g \in Busy(t) : hdl'[g] = hdl[g]
    <3>1. h \notin Busy(t)
      BY <2>1 DEF Busy
    <3>2. h \notin Busy(t)'
      BY <2>1, <2>2, BusyMoved
    <3> QED
      BY <2>1, <2>2, <3>1, <3>2, BusyStill
  <2> QED
    BY <1>2, <2>3, QuietWriting DEF Post
<1>3. ASSUME NEW h \in Handlers, Handle(h) \/ HandleFails(h)
      PROVE  Writing'
  <2>1. hdl[h] \in HdlRecord /\ hdl[h].pc = "handle"
    BY <1>3, Served DEF Serves, Handle, HandleFails
  <2>2. PICK r \in HdlRecord \cup {Idle} :
          hdl' = [hdl EXCEPT ![h] = r] /\ (r # Idle => r.pc = "find")
    <3>1. [hdl[h] EXCEPT !.pc = "find"] \in HdlRecord
          /\ [hdl[h] EXCEPT !.pc = "find"].pc = "find"
      BY <2>1 DEF HdlRecord, HdlPc
    <3>2. \/ hdl' = [hdl EXCEPT ![h] = [hdl[h] EXCEPT !.pc = "find"]]
          \/ hdl' = [hdl EXCEPT ![h] = Idle]
      BY <1>3 DEF Handle, HandleFails
    <3> QED
      BY <3>1, <3>2
  <2>3. ASSUME NEW t \in Tasks
        PROVE  Busy(t)' = Busy(t) /\ \A g \in Busy(t) : hdl'[g] = hdl[g]
    <3>1. h \notin Busy(t)
      BY <2>1 DEF Busy
    <3>2. h \notin Busy(t)'
      BY <2>2, BusyMoved
    <3> QED
      BY <2>2, <3>1, <3>2, BusyStill
  <2> QED
    BY <1>3, <2>3, QuietWriting DEF Handle, HandleFails
\* A request at the shadow of its task changes nothing of the other tasks.
<1>4. ASSUME NEW h \in Handlers, NEW r \in HdlRecord \cup {Idle}, hdl[h] # Idle,
             hdl' = [hdl EXCEPT ![h] = r],
             r # Idle => r.event = hdl[h].event,
             raced \subseteq raced', NEW t \in Tasks, t \notin raced',
             t # TaskOf[hdl[h].event],
             shadow'[t] = shadow[t], attempt'[t] = attempt[t]
      PROVE  Written(t)'
  <2>1. h \notin Busy(t) /\ h \notin Busy(t)'
    BY <1>4, BusyMoved DEF Busy
  <2>2. Busy(t)' = Busy(t) /\ \A g \in Busy(t) : hdl'[g] = hdl[g]
    BY <1>4, <2>1, BusyStill
  <2> QED
    BY <1>4, <2>2 DEF Writing, Written, WritingOf
<1>5. ASSUME NEW h \in Handlers, Find(h)
      PROVE  Writing'
  <2>1. hdl[h] \in HdlRecord /\ hdl[h] # Idle /\ hdl[h].pc = "find"
    BY <1>5, Served DEF Serves, Find
  <2>2. PICK u \in Tasks : u = TaskOf[hdl[h].event]
    BY <2>1, ServedTask
  <2>3. PICK r \in HdlRecord \cup {Idle} :
          /\ hdl' = [hdl EXCEPT ![h] = r]
          /\ r # Idle => /\ r.event = hdl[h].event
                         /\ r.pc = IF shadow[u].state = "none" THEN "create"
                                   ELSE "update"
    <3>1. shadow[u] \in Record
      BY <2>2 DEF TypeOK
    <3> DEFINE r1 == [hdl[h] EXCEPT !.pc = "create"]
               r2 == [hdl[h] EXCEPT !.pc = "update", !.seen = shadow[u]]
    <3>2. /\ r1 \in HdlRecord /\ r1.event = hdl[h].event /\ r1.pc = "create"
          /\ r2 \in HdlRecord /\ r2.event = hdl[h].event /\ r2.pc = "update"
      BY <2>1, <3>1 DEF HdlRecord, HdlPc
    <3>3. \/ shadow[u].state = "none" /\ hdl' = [hdl EXCEPT ![h] = r1]
          \/ shadow[u].state # "none" /\ hdl' = [hdl EXCEPT ![h] = r2]
          \/ hdl' = [hdl EXCEPT ![h] = Idle]
      BY <1>5, <2>2 DEF Find
    <3> HIDE DEF r1, r2
    <3> QED
      BY <3>2, <3>3
  <2>4. UNCHANGED <<shadow, attempt>> /\ raced \subseteq raced'
        /\ (Busy(u) # {} => u \in raced')
    BY <1>5, <2>2 DEF Find
  <2>5. ASSUME u \notin raced'
        PROVE  Written(u)'
    <3>1. Busy(u) = {} /\ attempt[u] = shadow[u].state
      BY <2>2, <2>4, <2>5 DEF Writing, Written
    <3>2. \A g \in Busy(u)' : g = h
      BY <2>3, <3>1, BusyMoved
    <3>3. \A g \in Busy(u)' : WritingOf(g, u)'
      <4>1. hdl'[h] = r /\ (h \in Busy(u)' => r # Idle)
        BY <2>3, BusyMoved
      <4>2. shadow'[u] = shadow[u] /\ attempt'[u] = attempt[u]
        BY <2>4
      <4>3. h \in Busy(u)' => WritingOf(h, u)'
        BY <2>3, <3>1, <4>1, <4>2 DEF WritingOf
      <4> QED
        BY <3>2, <4>3
    <3> QED
      BY <2>4, <3>1, <3>2, <3>3 DEF Written
  <2>6. ASSUME NEW t \in Tasks, t \notin raced', t # u
        PROVE  Written(t)'
    BY <1>4, <2>1, <2>2, <2>3, <2>4, <2>6
  <2> QED
    BY <2>5, <2>6 DEF Writing
<1>6. ASSUME NEW h \in Handlers, Create(h) \/ Update(h)
      PROVE  Writing'
  <2>1. hdl[h] \in HdlRecord /\ hdl[h] # Idle /\ hdl[h].pc \in {"create", "update"}
    BY <1>6, Served DEF Serves, Create, Update
  <2>2. PICK u \in Tasks : u = TaskOf[hdl[h].event] /\ h \in Busy(u)
    BY <2>1, ServedTask DEF Busy
  <2>3. PICK r \in HdlRecord \cup {Idle} :
          /\ hdl' = [hdl EXCEPT ![h] = r]
          /\ r # Idle => /\ r.event = hdl[h].event
                         /\ r.pc = IF hdl[h].pc = "create" THEN "insert" ELSE "upsert"
          /\ IF r = Idle THEN shadow' = shadow
             ELSE shadow'[u].state = Target[NameOf[hdl[h].event]]
    <3> DEFINE r1 == [hdl[h] EXCEPT !.pc = "insert"]
               r2 == [hdl[h] EXCEPT !.pc = "upsert", !.seen = NoRecord]
    <3>1. /\ r1 \in HdlRecord /\ r1.event = hdl[h].event /\ r1.pc = "insert"
          /\ r2 \in HdlRecord /\ r2.event = hdl[h].event /\ r2.pc = "upsert"
      BY <2>1 DEF HdlRecord, HdlPc, NoRecord, Record
    <3>2. r1 # Idle /\ r2 # Idle
      BY <3>1, IdleApart
    <3>3. CASE shadow' = shadow /\ hdl' = [hdl EXCEPT ![h] = Idle]
      BY <3>3
    <3>4. CASE Create(h) /\ shadow[u].state = "none"
      <4>1. shadow' = [shadow EXCEPT ![u] =
              [state |-> Target[NameOf[hdl[h].event]], version |-> 1]]
        BY <2>2, <3>4 DEF Create
      <4>2. shadow'[u].state = Target[NameOf[hdl[h].event]]
        BY <4>1 DEF TypeOK
      <4>3. hdl' = [hdl EXCEPT ![h] = r1] /\ hdl[h].pc = "create"
        BY <2>2, <3>4 DEF Create
      <4> HIDE DEF r1
      <4> QED
        BY <3>1, <3>2, <4>2, <4>3
    <3>5. CASE Update(h) /\ UnchangedSince(h)
      <4>1. shadow' = [shadow EXCEPT ![u] =
              [state |-> Target[NameOf[hdl[h].event]], version |-> @.version + 1]]
        BY <2>2, <3>5 DEF Update
      <4>2. shadow'[u].state = Target[NameOf[hdl[h].event]]
        BY <4>1 DEF TypeOK
      <4>3. hdl' = [hdl EXCEPT ![h] = r2] /\ hdl[h].pc = "update"
        BY <3>5 DEF Update
      <4> HIDE DEF r2
      <4> QED
        BY <3>1, <3>2, <4>2, <4>3
    <3> QED
      BY <1>6, <2>2, <3>3, <3>4, <3>5 DEF Create, Update
  <2>4. UNCHANGED <<attempt, raced>> /\ \A t \in Tasks : t # u => shadow'[t] = shadow[t]
    BY <1>6, <2>2 DEF Create, Update, TypeOK
  <2>5. ASSUME u \notin raced'
        PROVE  Written(u)'
    <3>1. Written(u)
      BY <2>2, <2>4, <2>5 DEF Writing
    <3>2. \A g \in Busy(u) : g = h
      BY <2>2, <3>1 DEF Written
    <3>3. \A g \in Busy(u)' : g = h
      <4>1. Busy(u)' \ {h} = Busy(u) \ {h}
        BY <2>3, BusyMoved
      <4> QED
        BY <3>2, <4>1
    <3>4. WritingOf(h, u)
      BY <2>2, <3>1 DEF Written
    \* The row is still not there, or still what was read.
    <3>5. CASE r = Idle
      <4>1. attempt[u] = shadow[u].state
        BY <2>1, <3>4 DEF WritingOf
      <4>2. Busy(u)' = {}
        BY <2>3, <3>3, <3>5, BusyMoved
      <4> QED
        BY <2>3, <2>4, <3>5, <4>1, <4>2 DEF Written
    <3>6. CASE r # Idle
      <4>1. h \in Busy(u)' /\ hdl'[h] = r
        <5>1. TaskOf[r.event] = u /\ r.pc \in {"insert", "upsert"}
          BY <2>2, <2>3, <3>6
        <5>2. hdl' = [hdl EXCEPT ![h] = r]
          BY <2>3
        <5>3. h \in Busy(u)' <=> /\ r # Idle /\ TaskOf[r.event] = u
                                 /\ r.pc \notin {"handle", "find"}
          BY <5>2, BusyMoved
        <5>4. hdl'[h] = r
          BY <5>2 DEF TypeOK
        <5> QED
          BY <3>6, <5>1, <5>3, <5>4
      <4>2. /\ shadow'[u].state = Target[NameOf[hdl'[h].event]]
            /\ hdl'[h].pc = IF hdl[h].pc = "create" THEN "insert" ELSE "upsert"
        <5>1. /\ r.event = hdl[h].event
              /\ r.pc = IF hdl[h].pc = "create" THEN "insert" ELSE "upsert"
              /\ shadow'[u].state = Target[NameOf[hdl[h].event]]
          BY <2>3, <3>6
        <5>2. hdl'[h] = r
          BY <4>1
        <5> QED
          BY <5>1, <5>2
      <4>3. hdl[h].pc = "create" => attempt'[u] = "none"
        BY <2>4, <3>4 DEF WritingOf
      <4>4. WritingOf(h, u)'
        BY <2>1, <4>2, <4>3 DEF WritingOf
      <4> QED
        BY <3>3, <4>1, <4>4 DEF Written
    <3> QED
      BY <3>5, <3>6
  <2>6. ASSUME NEW t \in Tasks, t \notin raced', t # u
        PROVE  Written(t)'
    BY <1>4, <2>1, <2>2, <2>3, <2>4, <2>6
  <2> QED
    BY <2>5, <2>6 DEF Writing
<1>7. ASSUME NEW h \in Handlers, Attempt(h) \/ ShadowFails(h)
      PROVE  Writing'
  <2>1. hdl[h] \in HdlRecord /\ hdl[h] # Idle /\ hdl[h].pc # "handle"
    BY <1>7, Served DEF Serves, Attempt, ShadowFails
  <2>2. PICK u \in Tasks : u = TaskOf[hdl[h].event]
    BY <2>1, ServedTask
  <2>3. hdl' = [hdl EXCEPT ![h] = Idle] /\ raced \subseteq raced' /\ shadow' = shadow
    BY <1>7 DEF Attempt, ShadowFails
  <2>4. \A t \in Tasks : t # u => attempt'[t] = attempt[t]
    BY <1>7, <2>2 DEF Attempt, ShadowFails, WriteAttempt, TypeOK
  <2>5. ASSUME u \notin raced'
        PROVE  Written(u)'
    <3>1. Attempt(h)
      BY <1>7, <2>2, <2>5 DEF ShadowFails
    <3>2. h \in Busy(u) /\ hdl[h].pc \in {"insert", "upsert"}
      BY <2>1, <2>2, <3>1 DEF Attempt, Busy
    <3>3. Written(u)
      BY <2>2, <2>3, <2>5 DEF Writing
    <3>4. attempt'[u] = shadow[u].state
      BY <2>2, <3>1, <3>2, <3>3 DEF Attempt, WriteAttempt, Written, WritingOf, TypeOK
    <3>5. Busy(u)' = {}
      BY <2>3, <3>2, <3>3, BusyMoved DEF Written
    <3> QED
      BY <2>3, <3>4, <3>5 DEF Written
  <2>6. ASSUME NEW t \in Tasks, t \notin raced', t # u
        PROVE  Written(t)'
    BY <1>4, <2>1, <2>2, <2>3, <2>4, <2>6
  <2> QED
    BY <2>5, <2>6 DEF Writing
<1>8. CASE \E m \in Modes : SetFlags(m)
  BY <1>1, <1>8 DEF SetFlags
<1>9. CASE \E e \in Events : Publishes(e)
  BY <1>1, <1>9 DEF Publishes, Decide, WriteOutbox, OutboxFails, Refused, AnswerLost
<1>10. CASE \E d \in Dispatchers : Dispatches(d)
  BY <1>1, <1>10 DEF Dispatches, Claim, TickFails, PublishJob, PublishJobFails, MarkRow
<1>11. CASE Worked
  BY <1>1, <1>11 DEF Worked, Observe, ObserveFails
<1>12. ASSUME NEW h \in Handlers, Serves(h)
       PROVE  Writing'
  BY <1>3, <1>5, <1>6, <1>7, <1>12 DEF Serves
<1>13. CASE UNCHANGED vars
  BY <1>1, <1>13 DEF vars
<1> QED
  BY <1>2, <1>8, <1>9, <1>10, <1>11, <1>12, <1>13, NextSteps

-----------------------------------------------------------------------------
\* While nothing fails, every event is handled once on each of its ways.
LEMMA CountingStep ==
  ASSUME OutboxAssumption, TypeOK, Handling, Called, Counting, [Next]_vars
  PROVE  Counting'
<1> SUFFICES ASSUME faults' = 0
             PROVE  /\ \A e \in Events : CountOf(e)'
                    /\ \A h \in Handlers : hdl'[h] # Idle => pub'[hdl'[h].event].on = h
  BY DEF Counting
<1>1. faults \in Nat
  BY DEF TypeOK, OutboxAssumption
<1>2. ~ Fault
  BY <1>1 DEF Fault
<1>3. faults = 0
  <2>1. Fault \/ faults' = faults
    BY DEF Next, vars, SetFlags, Decide, WriteOutbox, OutboxFails, Post, Refused,
           AnswerLost, Handle, HandleFails, Find, Create, Update, Attempt,
           ShadowFails, Claim, TickFails, PublishJob, PublishJobFails, MarkRow,
           Observe, ObserveFails
  <2> QED
    BY <1>2, <2>1
<1>4. /\ \A e \in Events : CountOf(e)
      /\ \A h \in Handlers : hdl[h] # Idle => pub[hdl[h].event].on = h
  BY <1>3 DEF Counting
<1>5. CASE UNCHANGED <<pub, hdl, handled>>
  BY <1>4, <1>5 DEF CountOf, Base, On
\* A step that is not an event's own leaves its count.
<1>6. ASSUME NEW e \in Events, pub'[e] = pub[e], handled'[e] = handled[e],
             \/ pub[e].on = NoHandler
             \/ pub[e].on \in Handlers /\ hdl'[pub[e].on] = hdl[pub[e].on]
      PROVE  CountOf(e)'
  <2>1. CountOf(e)
    BY <1>4
  <2> QED
    BY <1>6, <2>1 DEF CountOf, Base, On
<1>7. ASSUME NEW e \in Events, Publishes(e)
      PROVE  /\ \A f \in Events : CountOf(f)'
             /\ \A h \in Handlers : hdl'[h] # Idle => pub'[hdl'[h].event].on = h
  <2>1. Decide(e) \/ WriteOutbox(e)
    BY <1>2, <1>7 DEF Publishes, OutboxFails, Refused, AnswerLost
  <2>2. UNCHANGED <<hdl, handled>>
    BY <2>1 DEF Decide, WriteOutbox
  <2>3. \A f \in Events : f # e => pub'[f] = pub[f]
    BY <2>1 DEF Decide, WriteOutbox, TypeOK
  <2>4. pub[e] \in PubRecord /\ CountOf(e) /\ pub[e].pc \in {"start", "outbox"}
    BY <1>4, <2>1, Typed DEF Decide, WriteOutbox
  <2>5. e \notin Direct /\ handled[e] = 0 /\ pub[e].on = NoHandler
    BY <2>4 DEF CountOf
  <2>6. /\ pub'[e].on = NoHandler
        /\ \/ pub'[e].pc = "outbox"
           \/ pub'[e].pc = "post" /\ (pub'[e].mode # "cutover" \/ ~ Mapped(e))
           \/ pub'[e].pc = "kick" /\ pub'[e].mode = "cutover" /\ Mapped(e)
    <3>1. CASE Decide(e)
      BY <2>4, <2>5, <3>1 DEF Decide, TypeOK, PubRecord
    <3>2. CASE WriteOutbox(e)
      <4>1. IF Mapped(e) THEN pub'[e] = AfterOutbox(e, TRUE)
            ELSE pub'[e] = AfterOutbox(e, FALSE)
        BY <3>2 DEF WriteOutbox, TypeOK
      <4> DEFINE r == [pub[e] EXCEPT !.pc = "kick", !.ok = TRUE]
                 s == [pub[e] EXCEPT !.pc = "post"]
      <4>2. /\ r.pc = "kick" /\ r.on = NoHandler /\ r.mode = pub[e].mode
            /\ s.pc = "post" /\ s.on = NoHandler /\ s.mode = pub[e].mode
        BY <2>4, <2>5 DEF PubRecord
      <4>3. \/ pub'[e] = r /\ pub[e].mode = "cutover" /\ Mapped(e)
            \/ pub'[e] = s /\ (pub[e].mode # "cutover" \/ ~ Mapped(e))
        BY <4>1 DEF AfterOutbox
      <4> HIDE DEF r, s
      <4> QED
        BY <4>2, <4>3
    <3> QED
      BY <2>1, <3>1, <3>2
  <2>7. CountOf(e)'
    BY <2>2, <2>5, <2>6 DEF CountOf, Base
  <2>8. \A f \in Events : f # e => CountOf(f)'
    BY <1>6, <2>2, <2>3, Typed DEF PubRecord
  <2>9. ASSUME NEW h \in Handlers, hdl'[h] # Idle
        PROVE  pub'[hdl'[h].event].on = h
    <3>1. pub[hdl[h].event].on = h /\ hdl[h].event \in Events
      BY <1>4, <2>2, <2>9, Typed DEF HdlRecord
    <3>2. hdl[h].event # e
      BY <2>5, <3>1 DEF OutboxAssumption
    <3> QED
      BY <2>2, <2>3, <3>1, <3>2
  <2> QED
    BY <2>7, <2>8, <2>9
<1>8. ASSUME NEW e \in Events, NEW h \in Handlers, Post(e, h)
      PROVE  /\ \A f \in Events : CountOf(f)'
             /\ \A g \in Handlers : hdl'[g] # Idle => pub'[hdl'[g].event].on = g
  <2>1. pub[e] \in PubRecord /\ CountOf(e) /\ pub[e].pc \in {"post", "kick"}
    BY <1>4, <1>8, Typed DEF Post
  <2>2. /\ pub'[e].pc = IF pub[e].pc = "post" THEN "wait" ELSE "kicked"
        /\ pub'[e].on = h /\ pub'[e].mode = pub[e].mode
        /\ \A f \in Events : f # e => pub'[f] = pub[f]
    BY <1>8, <2>1 DEF Post, TypeOK, PubRecord
  <2>3. /\ hdl[h] = Idle
        /\ hdl'[h].pc = "handle" /\ hdl'[h].event = e
        /\ \A g \in Handlers : g # h => hdl'[g] = hdl[g]
        /\ handled' = handled
    BY <1>8 DEF Post, TypeOK
  <2>4. h # NoHandler
    BY DEF OutboxAssumption
  <2>5. CountOf(e)'
    BY <2>1, <2>2, <2>3, <2>4 DEF CountOf, Base, On
  <2>6. ASSUME NEW f \in Events, f # e
        PROVE  CountOf(f)'
    <3>1. pub[f].on \in Handlers \cup {NoHandler} /\ pub[f].on # h
      BY <2>3, <2>4, Typed DEF PubRecord, Called
    <3> QED
      BY <1>6, <2>2, <2>3, <2>6, <3>1
  <2>7. ASSUME NEW g \in Handlers, g # h, hdl[g] # Idle
        PROVE  pub'[hdl'[g].event].on = g
    <3>1. pub[hdl[g].event].on = g /\ hdl[g].event \in Events
      BY <1>4, <2>7, Typed DEF HdlRecord
    <3>2. hdl[g].event # e
      BY <2>1, <3>1 DEF CountOf, OutboxAssumption
    <3> QED
      BY <2>2, <2>3, <2>7, <3>1, <3>2
  <2> QED
    BY <2>2, <2>3, <2>5, <2>6, <2>7
<1>9. ASSUME NEW h \in Handlers, Serves(h)
      PROVE  /\ \A f \in Events : CountOf(f)'
             /\ \A g \in Handlers : hdl'[g] # Idle => pub'[hdl'[g].event].on = g
  <2>1. PICK e \in Events : e = hdl[h].event
    BY <1>9, Served DEF HdlRecord
  <2>2. hdl[h] # Idle /\ pub[e].on = h /\ CountOf(e) /\ h # NoHandler
    BY <1>4, <1>9, <2>1, Served, IdleApart DEF OutboxAssumption
  <2>3. pub[e] \in PubRecord /\ pub[e].pc \in {"wait", "kicked"}
    BY <2>2, Typed DEF CountOf
  \* The event has now been handled by this request.
  <2>4. /\ handled'[e] = IF pub[e].pc = "wait" THEN 1 ELSE Base(e) + 1
        /\ \A f \in Events : f # e => handled'[f] = handled[f]
    <3>1. CASE Handle(h)
      <4>1. handled' = [handled EXCEPT ![e] = @ + 1] /\ hdl[h].pc = "handle"
        BY <2>1, <3>1 DEF Handle
      <4>2. handled[e] = IF pub[e].pc = "wait" THEN 0 ELSE Base(e)
        BY <2>2, <2>3, <4>1 DEF CountOf, On, Base
      <4> QED
        BY <4>1, <4>2 DEF TypeOK, Base
    <3>2. CASE Find(h) \/ Create(h) \/ Update(h) \/ Attempt(h)
      <4>1. handled' = handled /\ hdl[h].pc # "handle"
        BY <3>2 DEF Find, Create, Update, Attempt
      <4> QED
        BY <2>2, <2>3, <4>1 DEF CountOf, On, Base
    <3> QED
      BY <1>2, <1>9, <3>1, <3>2 DEF Serves, HandleFails, ShadowFails
  \* Nobody else waits for it.
  <2>5. \A f \in Events : f # e => pub[f].on # h
    BY <2>1, <2>2 DEF Called
  <2>6. ASSUME NEW g \in Handlers, g # h, hdl[g] # Idle
        PROVE  hdl[g].event \in Events \ {e} /\ pub[hdl[g].event].on = g
    BY <1>4, <2>2, <2>6, Typed DEF HdlRecord
  <2>7. CASE Moves(h)
    <3>1. /\ pub' = pub /\ hdl'[h].event = e /\ hdl'[h].pc # "handle"
          /\ \A g \in Handlers : g # h => hdl'[g] = hdl[g]
      BY <2>1, <2>7 DEF Moves, TypeOK
    <3>2. CountOf(e)'
      BY <2>2, <2>3, <2>4, <3>1 DEF CountOf, Base, On
    <3>3. \A f \in Events : f # e => CountOf(f)'
      BY <1>6, <2>4, <2>5, <3>1, Typed DEF PubRecord
    <3>4. \A g \in Handlers : hdl'[g] # Idle => pub'[hdl'[g].event].on = g
      BY <2>2, <2>6, <3>1
    <3> QED
      BY <3>2, <3>3, <3>4
  <2>8. CASE Ends(h)
    <3>1. hdl' = [hdl EXCEPT ![h] = Idle] /\ Reply(h, TRUE)
      BY <1>2, <2>8 DEF Ends
    <3>2. /\ hdl'[h] = Idle /\ \A g \in Handlers : g # h => hdl'[g] = hdl[g]
          /\ pub'[e] = Answered(e, TRUE)
          /\ \A f \in Events : f # e => pub'[f] = pub[f]
      BY <2>2, <2>5, <3>1 DEF Reply, Callers, TypeOK
    <3>3. /\ pub'[e].pc = IF pub[e].pc = "wait" THEN "kick" ELSE "done"
          /\ pub'[e].on = NoHandler /\ pub'[e].mode = pub[e].mode
      BY <2>3, <3>2 DEF Answered, PubRecord
    <3>4. CountOf(e)'
      BY <2>2, <2>3, <2>4, <3>3 DEF CountOf, Base
    <3>5. \A f \in Events : f # e => CountOf(f)'
      BY <1>6, <2>4, <2>5, <3>2, Typed DEF PubRecord
    <3>6. \A g \in Handlers : hdl'[g] # Idle => pub'[hdl'[g].event].on = g
      BY <2>6, <3>2
    <3> QED
      BY <3>4, <3>5, <3>6
  <2> QED
    BY <1>9, <2>7, <2>8, Served
<1> QED
  <2>1. CASE \E m \in Modes : SetFlags(m)
    BY <1>5, <2>1 DEF SetFlags
  <2>2. CASE \E d \in Dispatchers : Dispatches(d)
    BY <1>5, <2>2 DEF Dispatches, Claim, TickFails, PublishJob, PublishJobFails, MarkRow
  <2>3. CASE Worked
    BY <1>5, <2>3 DEF Worked, Observe, ObserveFails
  <2>4. CASE UNCHANGED vars
    BY <1>5, <2>4 DEF vars
  <2> QED
    BY <1>7, <1>8, <1>9, <2>1, <2>2, <2>3, <2>4, NextSteps

-----------------------------------------------------------------------------
LEMMA InitInv ==
  ASSUME OutboxAssumption, Init
  PROVE  IInv
<1>1. TypeOK
  <2>1. mode \in Modes /\ 1 \in 1..Origins
    BY DEF Init, OutboxAssumption
  <2> QED
    BY <2>1 DEF Init, TypeOK, RowStatus, PubPc, Mode, Free, Idle, NoRecord, Record,
                OutboxAssumption
<1>2. Handling /\ Called /\ Batched /\ ClaimedByOne /\ AcceptedIsKept
  BY DEF Init, Free, Handling, Called, Batched, ClaimedByOne, AcceptedIsKept
<1>3. Writing
  BY DEF Init, Writing, Written, Busy, NoRecord
<1>4. Counting
  <2>1. ASSUME NEW e \in Events
        PROVE  CountOf(e)
    BY DEF Init, CountOf, Base
  <2> QED
    BY <2>1 DEF Init, Counting
<1> QED
  BY <1>1, <1>2, <1>3, <1>4 DEF IInv

LEMMA InvStep ==
  ASSUME OutboxAssumption, IInv, [Next]_vars
  PROVE  IInv'
  BY TypeStep, HandlingStep, CalledStep, BatchStep, KeptStep, WritingStep, CountingStep
     DEF IInv

LEMMA Invariance == Spec => []IInv
<1>1. Init => IInv
  BY InitInv, OutboxAssumption
<1>2. IInv /\ [Next]_vars => IInv'
  BY InvStep, OutboxAssumption
<1> QED
  BY <1>1, <1>2, PTL DEF Spec

\* Type correctness.
THEOREM TypeCorrect == Spec => []TypeOK
<1>1. IInv => TypeOK
  BY DEF IInv
<1> QED
  BY <1>1, Invariance, PTL

\* Every outbox row that is DISPATCHING is held by one dispatcher, or was let go
\* of by a tick that failed.
THEOREM RowsClaimedByOne == Spec => []ClaimedByOne
<1>1. IInv => ClaimedByOne
  BY DEF IInv
<1> QED
  BY <1>1, Invariance, PTL

\* An event whose publish was answered ok has been handled or is in the outbox,
\* and a row that is DISPATCHED has its job.
THEOREM AcceptedKept == Spec => []AcceptedIsKept
<1>1. IInv => AcceptedIsKept
  BY DEF IInv
<1> QED
  BY <1>1, Invariance, PTL

\* Without faults an event is handled once on each of its ways.
THEOREM DeliveriesCounted == Spec => []DeliveryCount
<1>1. IInv => DeliveryCount
  BY DEF IInv, Counting, CountOf, Base, DeliveryCount
<1> QED
  BY <1>1, Invariance, PTL

\* State and attempt of a task agree, unless two of its shadow writes raced or one
\* was cut short.
THEOREM AttemptsAgree == Spec => []AttemptAgrees
<1>1. IInv => AttemptAgrees
  BY DEF IInv, Writing, Written, AttemptAgrees
<1> QED
  BY <1>1, Invariance, PTL

\* The shadow state of a task moves along the life cycle, one version at a time.
THEOREM ShadowLegal == Spec => ShadowIsLegal
<1>1. IInv /\ [Next]_vars =>
        [\A t \in Tasks : shadow'[t] # shadow[t] =>
           \/ /\ shadow[t].state = "none"
              /\ shadow'[t].version = 1
           \/ /\ CanTransition(shadow[t].state, shadow'[t].state)
              /\ shadow'[t].version = shadow[t].version + 1]_vars
  BY LegalStep, OutboxAssumption DEF IInv
<1> QED
  BY <1>1, Invariance, PTL DEF Spec, ShadowIsLegal

=============================================================================
