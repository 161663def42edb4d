---------------------------- MODULE LaunchProofs ----------------------------
(***************************************************************************)
(* What holds of Launch for every number of flows, users, permission        *)
(* requests, calls, faults and periods.                                     *)
(***************************************************************************)
EXTENDS Launch, FiniteSetTheorems, TLAPS

-----------------------------------------------------------------------------
\* The parts of the inductive invariant.

ReqFull == [op : Kinds \cup {"none"}, pc : PCs, f : Flows \cup {NoFlow},
            u : Users \cup {NoUser}, p : Perms \cup {NoPerm}, yes : BOOLEAN,
            seen : SUBSET (Flows \cup Perms), row : Row]

Launching(r) == req[r].pc \in {"guard", "create"}
Signing(r)   == req[r].pc \in {"insert", "commit"}
Deciding(r)  == req[r].op = "decide" /\ req[r].pc = "write"

\* Where a request may be, and what it carries there.
ShapeOf(r) ==
  /\ req[r].op = "sign" => /\ req[r].pc \in {"read", "insert", "commit", "send"}
                           /\ req[r].f \in Flows /\ flow[req[r].f] # "none"
                           /\ req[r].u \in Users
  /\ req[r].op = "decide" => req[r].pc \in {"read", "write"} /\ req[r].p \in Perms
  /\ req[r].op = "launch" => req[r].u \in Users
  /\ req[r].op = "kill" => req[r].pc \in {"read", "write"}
  /\ req[r].op = "edit" => req[r].pc \in {"entry", "write"}
  /\ req[r].pc \in {"due", "get", "perms"} =>
       req[r].op \in {"tick", "run", "launch"} /\ req[r].seen = {}
  /\ req[r].pc \in {"due", "get"} => IsMission(r)
  /\ Launching(r) => /\ req[r].op \in {"tick", "run", "launch"}
                     /\ req[r].seen \subseteq Perms
  /\ Signing(r) => req[r].op = "sign"
  /\ req[r].pc = "send" => req[r].f \in Flows
Shape == \A r \in Requests : ShapeOf(r)

\* Permissions: what a launch has seen granted stays so.
Granted(p) == perm[p] = "APPROVED" \/ p \in raced
Permissions ==
  /\ \A r \in Requests : Launching(r) => \A p \in req[r].seen : Granted(p)
  /\ \A r \in Requests : Deciding(r) =>
       perm[req[r].p] = "PENDING" \/ req[r].p \in raced

\* Who could bring a closed flow back is in raced.
Closing ==
  /\ \A f \in busy : flow[f] \in Closed => f \in raced
  /\ \A r \in Requests : Signing(r) /\ flow[req[r].f] \in Closed => req[r].f \in raced

\* A launch that is past the guard found no open flow, and is alone.
Guarded ==
  /\ \A f \in linked : flow[f] # "none"
  /\ \A r \in Requests : req[r].pc = "create" /\ IsLinked(r) =>
       \A f \in linked : flow[f] \in Open => f \in raced \/ "guard" \in raced
  /\ \A r, s \in Requests :
       /\ r # s /\ req[r].pc = "create" /\ req[s].pc = "create"
       /\ IsLinked(r) /\ IsLinked(s)
       => "guard" \in raced

\* A launch is published once.
Sending(r, f) == req[r].pc = "send" /\ req[r].f = f
Unsent(f) == sent[f] = 0 /\ \A r \in Requests : ~ Sending(r, f)
Once ==
  /\ \A f \in Flows : flow[f] \in {"none", "DRAFT"} => Unsent(f)
  /\ \A r, s \in Requests :
       /\ r # s /\ req[r].op = "sign" /\ req[s].op = "sign"
       /\ req[r].pc # "read" /\ req[s].pc # "read" /\ req[r].f = req[s].f
       => req[r].f \in raced
  /\ \A r \in Requests : Signing(r) /\ req[r].yes => req[r].f \in raced \/ Unsent(req[r].f)
  /\ \A r \in Requests : req[r].pc = "send" =>
       \/ req[r].f \in raced
       \/ sent[req[r].f] = 0 /\ \A s \in Requests \ {r} : ~ Sending(s, req[r].f)
  /\ \A f \in Flows : sent[f] <= 1 \/ f \in raced

\* It has its signatures, and a draft has not.
Enough(S) == Cardinality(S) >= Required
With(r) == signed[req[r].f] \cup {req[r].u}
Signatures ==
  /\ \A f \in Flows : sent[f] > 0 => Enough(signed[f])
  /\ \A f \in Flows : flow[f] = "DRAFT" /\ Enough(signed[f]) => f \in raced
  /\ \A r \in Requests :
       /\ req[r].pc = "send" => Enough(signed[req[r].f])
       /\ req[r].pc = "commit" /\ req[r].yes => Enough(With(r))
       /\ req[r].pc = "insert" /\ ~ req[r].yes => flow[req[r].f] # "DRAFT"
       /\ req[r].pc = "commit" /\ ~ req[r].yes /\ Enough(With(r)) =>
            flow[req[r].f] # "DRAFT" \/ req[r].f \in raced

\* A tick that is past the look at the schedule is alone, and what it launches
\* is the first of the period.
Ticking(r) == req[r].op = "tick" /\ req[r].pc # "due"
Early(r)   == req[r].op = "tick" /\ req[r].pc \in {"get", "perms", "guard", "create"}
After(r)   == req[r].op = "tick" /\ req[r].pc \in {"send", "entry", "write"}
BornNow    == \E x \in born : x[2] = now
Periods ==
  /\ \A x \in born : x[2] <= now
  /\ \A r, s \in Requests : r # s /\ Ticking(r) /\ Ticking(s) => "tick" \in raced
  /\ now \notin moved /\ raced \cap {"tick", "mission"} = {} =>
       /\ \A r \in Requests : Early(r) => ~ BornNow
       /\ BornNow => \/ mission.next > now \/ ~ mission.exists
                     \/ \E r \in Requests : After(r)

IInv == /\ TypeOK /\ Shape /\ Permissions /\ LaunchIsPermitted /\ Closing
        /\ Guarded /\ NoTwinFlows /\ Once /\ Signatures
        /\ Periods /\ MissionOncePerPeriod /\ SwitchIsKept

-----------------------------------------------------------------------------
\* What the steps do to requests.

Putting(r) == /\ req' \in [Requests -> ReqFull]
              /\ \A s \in Requests \ {r} : req'[s] = req[s]
Moved(r, l) == /\ req'[r].pc = l /\ req'[r].op = req[r].op /\ req'[r].f = req[r].f
               /\ req'[r].u = req[r].u /\ req'[r].p = req[r].p
Kept(r) == req'[r].seen = req[r].seen /\ (req'[r].yes <=> req[r].yes)
Gone(r) == /\ req'[r].pc = "idle" /\ req'[r].op = "none" /\ req'[r].f = NoFlow
           /\ req'[r].seen = {}

\* A request arrives.
Arrives(r) ==
  \/ Run(r) \/ Edit(r) \/ Delete(r) \/ Kill(r)
  \/ \E b \in BOOLEAN : Tick(r, b)
  \/ \E p \in Perms, b \in BOOLEAN : Decide(r, p, b)
  \/ \E u \in Users : Launch(r, u)
  \/ \E f \in Flows, u \in Users : Sign(r, f, u)

LEMMA Puts ==
  ASSUME TypeOK, NEW r \in Requests, NEW c \in ReqFull, req' = [req EXCEPT ![r] = c]
  PROVE  Putting(r) /\ req'[r] = c
  BY DEF TypeOK, ReqFull, Putting

LEMMA Reqs ==
  ASSUME TypeOK
  PROVE  req \in [Requests -> ReqFull] /\ \A r \in Requests : req[r] \in ReqFull
  BY DEF TypeOK, ReqFull

LEMMA IdleFull ==
  /\ Idle \in ReqFull /\ Idle.pc = "idle" /\ Idle.op = "none" /\ Idle.f = NoFlow
  /\ Idle.seen = {} /\ NoRow \in Row
<1>1. NoRow \in Row
  BY LaunchAssumption DEF NoRow, Row
<1> QED
  BY <1>1 DEF Idle, ReqFull, PCs

LEMMA Finishes ==
  ASSUME TypeOK, NEW r \in Requests, Done(r)
  PROVE  Putting(r) /\ Gone(r)
  BY IdleFull, Puts DEF Done, Gone

LEMMA Goes ==
  ASSUME TypeOK, NEW r \in Requests, NEW l \in PCs, Goto(r, l)
  PROVE  Putting(r) /\ Moved(r, l) /\ Kept(r) /\ req'[r].row = req[r].row
<1> DEFINE c == [req[r] EXCEPT !.pc = l]
<1>1. /\ c \in ReqFull /\ c.pc = l /\ c.op = req[r].op /\ c.f = req[r].f
      /\ c.u = req[r].u /\ c.p = req[r].p /\ c.seen = req[r].seen
      /\ (c.yes <=> req[r].yes) /\ c.row = req[r].row
  BY Reqs DEF ReqFull
<1>2. req' = [req EXCEPT ![r] = c]
  BY DEF Goto
<1> HIDE DEF c
<1> QED
  BY <1>1, <1>2, Puts DEF Moved, Kept

LEMMA Typed ==
  ASSUME TypeOK
  PROVE  /\ NoFlow \notin Flows
         /\ \A r \in Requests : /\ req[r].f \in Flows \cup {NoFlow} /\ req[r].yes \in BOOLEAN
                                /\ req[r].seen \subseteq Flows \cup Perms
         /\ now \in Nat /\ mission.next \in Nat /\ mix.calls \in Nat /\ calls \in Nat
         /\ \A f \in Flows : flow[f] \in FlowStatus /\ sent[f] \in Nat
<1>1. mix.calls \in Nat /\ calls \in Nat
  BY LaunchAssumption DEF TypeOK
<1> QED
  BY <1>1, LaunchAssumption DEF TypeOK, Row

-----------------------------------------------------------------------------
\* What each action does.

LEMMA ArrivesDoes ==
  ASSUME TypeOK, NEW r \in Requests, Arrives(r)
  PROVE  /\ TypeOK' /\ UNCHANGED <<flow, signed, linked, perm, mission, now, busy, wanted,
                                   moved, checked, sent, born, raced>>
         /\ Putting(r) /\ req[r].pc = "idle" /\ ShapeOf(r)'
         /\ req'[r].op = "tick" => req'[r].pc = "due"
         /\ req'[r].op = "sign" => req'[r].pc = "read"
         /\ req'[r].pc \in {"due", "get", "entry", "write", "read", "perms"}
         /\ req'[r].pc = "write" => req'[r].op = "delete"
<1> DEFINE Fits(c) == /\ c \in ReqFull /\ c.seen = {}
                      /\ \/ c.op = "tick" /\ c.pc = "due"
                         \/ c.op = "run" /\ c.pc = "get"
                         \/ c.op = "delete" /\ c.pc = "write"
                         \/ c.op = "kill" /\ c.pc = "read"
                         \/ c.op = "edit" /\ c.pc = "entry"
                         \/ c.op = "decide" /\ c.pc = "read" /\ c.p \in Perms
                         \/ c.op = "launch" /\ c.pc = "perms" /\ c.u \in Users
                         \/ /\ c.op = "sign" /\ c.pc = "read" /\ c.f \in Flows
                            /\ flow[c.f] # "none" /\ c.u \in Users
<1>1. ASSUME NEW op \in Kinds, NEW l \in PCs
      PROVE  /\ Begin(r, op, l) \in ReqFull /\ Begin(r, op, l).seen = {}
             /\ Begin(r, op, l).op = op /\ Begin(r, op, l).pc = l
  BY IdleFull DEF Begin, Idle, ReqFull
<1>2. PICK c : Call(r, c) /\ Fits(c)
  <2>1. ASSUME NEW b \in BOOLEAN, Tick(r, b) PROVE \E c : Call(r, c) /\ Fits(c)
    <3> DEFINE d == [Begin(r, "tick", "due") EXCEPT !.yes = b]
    <3>1. /\ Begin(r, "tick", "due") \in ReqFull /\ Begin(r, "tick", "due").seen = {}
          /\ Begin(r, "tick", "due").op = "tick" /\ Begin(r, "tick", "due").pc = "due"
      BY <1>1 DEF Kinds, PCs
    <3>2. /\ d \in ReqFull /\ d.seen = {} /\ d.op = "tick" /\ d.pc = "due"
      BY <3>1 DEF ReqFull
    <3>3. Fits(d)
      <4> HIDE DEF d
      <4> QED
        BY <3>1, <3>2
    <3> QED
      BY <2>1, <3>3 DEF Tick
  <2>2. CASE Run(r)
    <3>1. "run" \in Kinds /\ "get" \in PCs
      BY DEF Kinds, PCs
    <3>2. Fits(Begin(r, "run", "get"))
      BY <1>1, <3>1
    <3> HIDE DEF Fits
    <3> QED
      BY <2>2, <3>2 DEF Run
  <2>3. CASE Delete(r)
    <3>1. "delete" \in Kinds /\ "write" \in PCs
      BY DEF Kinds, PCs
    <3>2. Fits(Begin(r, "delete", "write"))
      BY <1>1, <3>1
    <3> HIDE DEF Fits
    <3> QED
      BY <2>3, <3>2 DEF Delete
  <2>4. CASE Kill(r)
    <3>1. "kill" \in Kinds /\ "read" \in PCs
      BY DEF Kinds, PCs
    <3>2. Fits(Begin(r, "kill", "read"))
      BY <1>1, <3>1
    <3> HIDE DEF Fits
    <3> QED
      BY <2>4, <3>2 DEF Kill
  <2>5. CASE Edit(r)
    <3>1. "edit" \in Kinds /\ "entry" \in PCs
      BY DEF Kinds, PCs
    <3>2. Fits(Begin(r, "edit", "entry"))
      BY <1>1, <3>1
    <3> HIDE DEF Fits
    <3> QED
      BY <2>5, <3>2 DEF Edit
  <2>6. ASSUME NEW p \in Perms, NEW b \in BOOLEAN, Decide(r, p, b)
        PROVE  \E c : Call(r, c) /\ Fits(c)
    <3> DEFINE d == [Begin(r, "decide", "read") EXCEPT !.p = p, !.yes = b]
    <3>1. /\ Begin(r, "decide", "read") \in ReqFull /\ Begin(r, "decide", "read").seen = {}
          /\ Begin(r, "decide", "read").op = "decide" /\ Begin(r, "decide", "read").pc = "read"
      BY <1>1 DEF Kinds, PCs
    <3>2. /\ d \in ReqFull /\ d.seen = {} /\ d.op = "decide" /\ d.pc = "read"
          /\ d.p = p
      BY <3>1 DEF ReqFull
    <3>3. Fits(d)
      <4> HIDE DEF d
      <4> QED
        BY <3>1, <3>2
    <3> QED
      BY <2>6, <3>3 DEF Decide
  <2>7. ASSUME NEW u \in Users, Launch(r, u) PROVE \E c : Call(r, c) /\ Fits(c)
    <3> DEFINE d == [Begin(r, "launch", "perms") EXCEPT !.u = u]
    <3>1. /\ Begin(r, "launch", "perms") \in ReqFull /\ Begin(r, "launch", "perms").seen = {}
          /\ Begin(r, "launch", "perms").op = "launch" /\ Begin(r, "launch", "perms").pc = "perms"
      BY <1>1 DEF Kinds, PCs
    <3>2. /\ d \in ReqFull /\ d.seen = {} /\ d.op = "launch" /\ d.pc = "perms"
          /\ d.u = u
      BY <3>1 DEF ReqFull
    <3>3. Fits(d)
      <4> HIDE DEF d
      <4> QED
        BY <3>1, <3>2
    <3> QED
      BY <2>7, <3>3 DEF Launch
  <2>8. ASSUME NEW f \in Flows, NEW u \in Users, Sign(r, f, u)
        PROVE  \E c : Call(r, c) /\ Fits(c)
    <3> DEFINE d == [Begin(r, "sign", "read") EXCEPT !.f = f, !.u = u]
    <3>1. /\ Begin(r, "sign", "read") \in ReqFull /\ Begin(r, "sign", "read").seen = {}
          /\ Begin(r, "sign", "read").op = "sign" /\ Begin(r, "sign", "read").pc = "read"
          /\ flow[f] # "none"
      BY <1>1, <2>8 DEF Kinds, PCs, Sign
    <3>2. /\ d \in ReqFull /\ d.seen = {} /\ d.op = "sign" /\ d.pc = "read"
          /\ d.f = f /\ d.u = u
      BY <3>1 DEF ReqFull
    <3>3. Fits(d)
      <4> HIDE DEF d
      <4> QED
        BY <3>1, <3>2
    <3> QED
      BY <2>8, <3>3 DEF Sign
  <2> QED
    BY <2>1, <2>2, <2>3, <2>4, <2>5, <2>6, <2>7, <2>8 DEF Arrives
<1>3. /\ UNCHANGED <<rows, now, worker, mix, faults, ghosts>> /\ req[r].pc = "idle"
      /\ calls < mix.calls /\ calls' = calls + 1
  BY <1>2 DEF Call, At
<1>4. Putting(r) /\ req'[r] = c
  BY <1>2, Puts DEF Call
<1>5. calls' \in 0..mix'.calls
  BY <1>3, Typed DEF TypeOK
<1>6. TypeOK'
  BY <1>3, <1>4, <1>5 DEF TypeOK, rows, worker, ghosts, Putting, ReqFull
<1>7. ShapeOf(r)'
  BY <1>2, <1>3, <1>4 DEF ShapeOf, Launching, Signing, IsMission, rows
<1> QED
  BY <1>2, <1>3, <1>4, <1>6, <1>7 DEF rows, worker, ghosts

LEMMA ListDueDoes ==
  ASSUME TypeOK, NEW r \in Requests, ListDue(r)
  PROVE  /\ TypeOK' /\ UNCHANGED <<rows, now, busy, wanted, moved, checked, sent, born>>
         /\ Putting(r) /\ req[r].pc = "due"
         /\ raced \subseteq raced' /\ raced' \subseteq raced \cup {"tick"}
         /\ \A s \in Requests \ {r} : Ticking(s) => "tick" \in raced'
         /\ \/ IsDue(mission) /\ Moved(r, "get") /\ Kept(r)
            \/ Gone(r)
<1>1. /\ Putting(r)
      /\ \/ IsDue(mission) /\ Moved(r, "get") /\ Kept(r)
         \/ Gone(r)
  BY Goes, Finishes DEF ListDue, PCs
<1>2. /\ raced \subseteq raced' /\ raced' \subseteq raced \cup {"tick"}
      /\ \A s \in Requests \ {r} : Ticking(s) => "tick" \in raced'
      /\ req[r].pc = "due"
      /\ UNCHANGED <<rows, now, worker, mix, calls, faults, wanted, moved, checked, sent, born>>
  BY DEF ListDue, Ticking, At
<1> QED
  BY <1>1, <1>2 DEF TypeOK, rows, worker, Putting, ReqFull

LEMMA GetScheduleDoes ==
  ASSUME TypeOK, NEW r \in Requests, GetSchedule(r)
  PROVE  /\ TypeOK'
         /\ UNCHANGED <<rows, now, busy, wanted, moved, checked, sent, born, raced>>
         /\ Putting(r) /\ req[r].pc = "get"
         /\ \/ Moved(r, "perms") /\ Kept(r)
            \/ Moved(r, "create") /\ Kept(r) /\ ~ req'[r].row.linked
            \/ Gone(r)
<1>1. /\ Putting(r)
      /\ \/ Moved(r, "perms") /\ Kept(r)
         \/ Moved(r, "create") /\ Kept(r) /\ ~ req'[r].row.linked
         \/ Gone(r)
  <2>1. ASSUME mission.exists, mission.enabled \/ req[r].yes,
               NEW l \in {"perms", "create"},
               l = IF mission.linked THEN "perms" ELSE "create"
        PROVE  Putting(r) /\ Moved(r, l) /\ Kept(r) /\ req'[r].row = mission
    <3> DEFINE c == [req[r] EXCEPT !.pc = l, !.row = mission]
    <3>1. /\ c \in ReqFull /\ c.pc = l /\ c.op = req[r].op /\ c.f = req[r].f
          /\ c.u = req[r].u /\ c.p = req[r].p /\ c.seen = req[r].seen
          /\ (c.yes <=> req[r].yes) /\ c.row = mission
      <4>1. req[r] \in ReqFull /\ mission \in Row /\ l \in PCs
        BY <2>1, Reqs DEF PCs, TypeOK
      <4> QED
        BY <4>1 DEF ReqFull
    <3>2. req' = [req EXCEPT ![r] = c]
      <4>1. req' = [req EXCEPT ![r].pc = l, ![r].row = mission]
        BY <2>1 DEF GetSchedule
      <4>2. r \in DOMAIN req
        BY DEF TypeOK
      <4> QED
        BY <4>1, <4>2
    <3> HIDE DEF c
    <3> QED
      BY <3>1, <3>2, Puts DEF Moved, Kept
  <2>2. CASE mission.exists /\ (mission.enabled \/ req[r].yes) /\ mission.linked
    BY <2>1, <2>2
  <2>3. CASE mission.exists /\ (mission.enabled \/ req[r].yes) /\ ~ mission.linked
    BY <2>1, <2>3
  <2>4. CASE ~ (mission.exists /\ (mission.enabled \/ req[r].yes))
    BY <2>4, Finishes DEF GetSchedule
  <2> QED
    BY <2>2, <2>3, <2>4
<1>2. /\ req[r].pc = "get"
      /\ UNCHANGED <<rows, now, worker, mix, calls, faults, ghosts>>
  BY DEF GetSchedule, At
<1> QED
  BY <1>1, <1>2 DEF TypeOK, rows, worker, ghosts, Putting, ReqFull

LEMMA ReadEntryDoes ==
  ASSUME TypeOK, NEW r \in Requests, ReadEntry(r)
  PROVE  /\ TypeOK'
         /\ UNCHANGED <<rows, now, busy, wanted, moved, checked, sent, born, raced>>
         /\ Putting(r) /\ req[r].pc = "entry"
         /\ \/ Moved(r, "write") /\ Kept(r) /\ req'[r].row = mission
            \/ ~ mission.exists /\ Gone(r)
<1>1. CASE mission.exists
  <2> DEFINE c == [req[r] EXCEPT !.pc = "write", !.row = mission]
  <2>1. /\ c \in ReqFull /\ c.pc = "write" /\ c.op = req[r].op /\ c.f = req[r].f
        /\ c.u = req[r].u /\ c.p = req[r].p /\ c.seen = req[r].seen
        /\ (c.yes <=> req[r].yes) /\ c.row = mission
    <3>1. req[r] \in ReqFull /\ mission \in Row /\ "write" \in PCs
      BY Reqs DEF PCs, TypeOK
    <3> QED
      BY <3>1 DEF ReqFull
  <2>2. req' = [req EXCEPT ![r] = c]
    <3>1. req' = [req EXCEPT ![r].pc = "write", ![r].row = mission]
      BY <1>1 DEF ReadEntry
    <3>2. r \in DOMAIN req
      BY DEF TypeOK
    <3> QED
      BY <3>1, <3>2
  <2>3. Putting(r) /\ Moved(r, "write") /\ Kept(r) /\ req'[r].row = mission
    <3> HIDE DEF c
    <3> QED
      BY <2>1, <2>2, Puts DEF Moved, Kept
  <2> QED
    BY <2>3 DEF ReadEntry, At, TypeOK, rows, worker, ghosts, Putting, ReqFull
<1>2. CASE ~ mission.exists
  <2>1. Putting(r) /\ Gone(r)
    BY <1>2, Finishes DEF ReadEntry
  <2> QED
    BY <1>2, <2>1 DEF ReadEntry, At, TypeOK, rows, worker, ghosts, Putting, ReqFull
<1> QED
  BY <1>1, <1>2

LEMMA ReplaceDoes ==
  ASSUME TypeOK, NEW r \in Requests, NEW m \in Row, Replace(r, m)
  PROVE  /\ UNCHANGED <<flow, signed, linked, perm, now, worker, mix, calls, faults,
                        checked, sent, born>>
         /\ Putting(r) /\ Gone(r) /\ req[r].pc = "write"
         /\ raced \subseteq raced' /\ raced' \subseteq raced \cup {"mission"}
         /\ mission' \in Row /\ (mission'.exists <=> mission.exists)
         /\ mission'.next = m.next /\ (mission'.enabled <=> m.enabled)
         /\ \/ "mission" \in raced'
            \/ (req[r].row.enabled <=> mission.enabled) /\ req[r].row.next = mission.next
<1>1. Putting(r) /\ Gone(r)
  BY Finishes DEF Replace
<1>2. /\ mission' \in Row /\ (mission'.exists <=> mission.exists)
      /\ mission'.next = m.next /\ (mission'.enabled <=> m.enabled)
  BY DEF Replace, TypeOK, Row
<1>3. /\ UNCHANGED <<flow, signed, linked, perm, now, worker, mix, calls, faults,
                     checked, sent, born>>
      /\ req[r].pc = "write"
      /\ raced \subseteq raced' /\ raced' \subseteq raced \cup {"mission"}
      /\ "mission" \in raced' \/ [mission EXCEPT !.exists = TRUE] = req[r].row
  BY DEF Replace, At
<1>4. \/ "mission" \in raced'
      \/ (req[r].row.enabled <=> mission.enabled) /\ req[r].row.next = mission.next
  BY <1>3, Reqs DEF TypeOK, Row
<1> QED
  BY <1>1, <1>2, <1>3, <1>4

LEMMA WriteEntryDoes ==
  ASSUME TypeOK, NEW r \in Requests, WriteEntry(r)
  PROVE  /\ TypeOK' /\ UNCHANGED <<flow, signed, linked, perm, now, busy, checked, sent, born>>
         /\ Putting(r) /\ Gone(r) /\ req[r].pc = "write"
         /\ IsMission(r) \/ req[r].op = "edit"
         /\ raced \subseteq raced' /\ raced' \subseteq raced \cup {"mission"}
         /\ moved \subseteq moved'
         /\ (mission'.exists <=> mission.exists)
         /\ \/ "mission" \in raced'
            \/ (req[r].row.enabled <=> mission.enabled) /\ req[r].row.next = mission.next
         /\ IsMission(r) => /\ mission'.next = now + 1
                            /\ (mission'.enabled <=> req[r].row.enabled)
                            /\ (wanted' <=> wanted)
         /\ req[r].op = "edit" =>
              /\ \/ mission'.next = req[r].row.next
                 \/ mission'.next > now
                 \/ now \in moved'
              /\ \/ (mission'.enabled <=> wanted')
                 \/ (mission'.enabled <=> req[r].row.enabled) /\ (wanted' <=> wanted)
<1>1. /\ req[r].row \in Row /\ mission \in Row
      /\ now \in 0..MaxNow /\ now + 1 \in 0..(MaxNow + 1) /\ MaxNow \in Nat
  BY Reqs, LaunchAssumption DEF TypeOK, ReqFull
<1>2. req[r].op = "edit" => ~ IsMission(r)
  BY DEF IsMission
<1>3. CASE WriteRun(r)
  <2>1. PICK m : m = AfterRun(req[r].row)
    OBVIOUS
  <2>2. m \in Row /\ m.next = now + 1 /\ (m.enabled <=> req[r].row.enabled)
    BY <1>1, <2>1 DEF AfterRun, Row
  <2>3. Replace(r, m) /\ IsMission(r) /\ UNCHANGED <<wanted, moved>>
    BY <1>3, <2>1 DEF WriteRun
  <2>4. TypeOK'
    BY <2>2, <2>3, ReplaceDoes DEF TypeOK, worker, Putting, ReqFull
  <2> QED
    BY <1>2, <2>2, <2>3, <2>4, ReplaceDoes DEF worker
<1>4. CASE WriteEdit(r)
  <2>1. PICK body \in SUBSET {"enabled", "next", "linked"}, m \in Row :
          /\ "enabled" \in body \/ m.enabled = req[r].row.enabled
          /\ "next" \in body \/ m.next = req[r].row.next
          /\ Replace(r, m)
          /\ wanted' = IF "enabled" \in body THEN m.enabled ELSE wanted
          /\ moved' = IF "next" \in body /\ m.next <= now
                      THEN moved \cup {now} ELSE moved
    BY <1>4 DEF WriteEdit
  <2>2. req[r].op = "edit"
    BY <1>4 DEF WriteEdit
  <2>3. m.next \in Nat /\ now \in Nat /\ m.enabled \in BOOLEAN
    BY <1>1 DEF Row
  <2>4. /\ moved \subseteq moved' /\ moved' \subseteq 0..MaxNow
        /\ m.next = req[r].row.next \/ m.next > now \/ now \in moved'
    <3>1. moved \subseteq 0..MaxNow /\ now \in 0..MaxNow
      BY DEF TypeOK
    <3>2. CASE "next" \in body /\ m.next <= now
      <4>1. moved' = moved \cup {now}
        BY <2>1, <3>2
      <4> QED
        BY <3>1, <4>1
    <3>3. CASE ~ ("next" \in body /\ m.next <= now)
      <4>1. moved' = moved
        BY <2>1, <3>3
      <4>2. m.next = req[r].row.next \/ m.next > now
        BY <2>1, <2>3, <3>3
      <4> QED
        BY <3>1, <4>1, <4>2
    <3> QED
      BY <3>2, <3>3
  <2>5. /\ wanted' \in BOOLEAN
        /\ \/ (m.enabled <=> wanted')
           \/ (m.enabled <=> req[r].row.enabled) /\ (wanted' <=> wanted)
    <3>1. CASE "enabled" \in body
      BY <2>1, <2>3, <3>1
    <3>2. CASE "enabled" \notin body
      BY <2>1, <3>2 DEF TypeOK
    <3> QED
      BY <3>1, <3>2
  <2>6. Replace(r, m)
    BY <2>1
  <2>7. TypeOK'
    BY <2>4, <2>5, <2>6, ReplaceDoes DEF TypeOK, worker, Putting, ReqFull
  <2> QED
    BY <1>2, <2>2, <2>4, <2>5, <2>6, <2>7, ReplaceDoes DEF worker
<1> QED
  BY <1>3, <1>4 DEF WriteEntry

LEMMA WriteDeleteDoes ==
  ASSUME TypeOK, NEW r \in Requests, WriteDelete(r)
  PROVE  /\ TypeOK' /\ UNCHANGED <<flow, signed, linked, perm, now, busy, wanted, moved,
                                   checked,
                                   sent, born, raced>>
         /\ Putting(r) /\ Gone(r) /\ req[r].pc = "write" /\ req[r].op = "delete"
         /\ ~ mission'.exists /\ mission'.next = mission.next
         /\ (mission'.enabled <=> mission.enabled) /\ (mission'.linked <=> mission.linked)
<1>1. Putting(r) /\ Gone(r)
  BY Finishes DEF WriteDelete
<1>2. /\ mission' \in Row /\ ~ mission'.exists /\ mission'.next = mission.next
      /\ (mission'.enabled <=> mission.enabled) /\ (mission'.linked <=> mission.linked)
  BY DEF WriteDelete, TypeOK, Row
<1> QED
  BY <1>1, <1>2 DEF WriteDelete, At, TypeOK, worker, ghosts, Putting, ReqFull

LEMMA PassDoes ==
  ASSUME TypeOK, Pass
  PROVE  TypeOK' /\ UNCHANGED <<rows, busy, req, ghosts>> /\ now' = now + 1
  BY LaunchAssumption DEF Pass, TypeOK, rows, worker, ghosts

LEMMA AskDoes ==
  ASSUME TypeOK, NEW p \in Perms, Ask(p)
  PROVE  /\ TypeOK' /\ UNCHANGED <<flow, signed, linked, mission, now, busy, req, ghosts>>
         /\ perm[p] = "none" /\ \A q \in Perms \ {p} : perm'[q] = perm[q]
  BY DEF Ask, TypeOK, PermStatus, worker, ghosts

LEMMA ReadPermDoes ==
  ASSUME TypeOK, NEW r \in Requests, ReadPerm(r)
  PROVE  /\ TypeOK' /\ UNCHANGED <<rows, now, busy, ghosts>>
         /\ Putting(r) /\ req[r].pc = "read" /\ req[r].op = "decide"
         /\ \/ perm[req[r].p] = "PENDING" /\ Moved(r, "write") /\ Kept(r)
            \/ Gone(r)
<1>1. /\ Putting(r)
      /\ \/ perm[req[r].p] = "PENDING" /\ Moved(r, "write") /\ Kept(r)
         \/ Gone(r)
  BY Goes, Finishes DEF ReadPerm, MayDecide, PCs
<1> QED
  BY <1>1 DEF ReadPerm, At, TypeOK, rows, worker, ghosts, Putting, ReqFull

LEMMA WritePermDoes ==
  ASSUME TypeOK, Shape, NEW r \in Requests, WritePerm(r)
  PROVE  /\ TypeOK' /\ UNCHANGED <<flow, signed, linked, mission, now, busy, wanted,
                                   moved, checked, sent, born>>
         /\ Putting(r) /\ Gone(r) /\ Deciding(r) /\ req[r].p \in Perms
         /\ \A q \in Perms \ {req[r].p} : perm'[q] = perm[q]
         /\ raced \subseteq raced' /\ raced' \subseteq raced \cup {req[r].p}
         /\ \A s \in Requests \ {r} : Deciding(s) /\ req[s].p = req[r].p => req[r].p \in raced'
<1>1. Putting(r) /\ Gone(r)
  BY Finishes DEF WritePerm
<1>2. Deciding(r) /\ req[r].p \in Perms
  BY DEF WritePerm, At, Deciding, Shape, ShapeOf
<1>3. /\ perm' \in [Perms -> PermStatus]
      /\ \A q \in Perms \ {req[r].p} : perm'[q] = perm[q]
  BY <1>2 DEF WritePerm, TypeOK, PermStatus, Verdict
<1>4. /\ raced \subseteq raced' /\ raced' \subseteq raced \cup {req[r].p}
      /\ \A s \in Requests \ {r} : Deciding(s) /\ req[s].p = req[r].p => req[r].p \in raced'
      /\ UNCHANGED <<flow, signed, linked, mission, now, worker, mix, calls, faults,
                     wanted, moved, checked, sent, born>>
  BY DEF WritePerm, At, Deciding
<1> QED
  BY <1>1, <1>2, <1>3, <1>4 DEF TypeOK, worker, Putting, ReqFull

LEMMA CheckPermsDoes ==
  ASSUME TypeOK, NEW r \in Requests, CheckPerms(r)
  PROVE  /\ TypeOK' /\ UNCHANGED <<rows, now, busy, ghosts>>
         /\ Putting(r) /\ req[r].pc = "perms"
         /\ \/ /\ Moved(r, "guard") /\ req'[r].seen \subseteq Perms
               /\ \A p \in req'[r].seen : perm[p] = "APPROVED"
            \/ Gone(r)
<1>1. CASE Permitted
  <2> DEFINE S == {p \in Perms : perm[p] # "none"}
             c == [req[r] EXCEPT !.pc = "guard", !.seen = S]
  <2>1. /\ c \in ReqFull /\ c.pc = "guard" /\ c.op = req[r].op /\ c.f = req[r].f
        /\ c.u = req[r].u /\ c.p = req[r].p /\ c.seen = S
    BY Reqs DEF ReqFull, PCs
  <2>2. req' = [req EXCEPT ![r] = c]
    BY <1>1, Reqs DEF CheckPerms, ReqFull
  <2>3. Putting(r) /\ Moved(r, "guard") /\ req'[r].seen = S
    <3> HIDE DEF c
    <3> QED
      BY <2>1, <2>2, Puts DEF Moved
  <2>4. \A p \in S : perm[p] = "APPROVED"
    BY <1>1 DEF Permitted
  <2> QED
    BY <2>3, <2>4 DEF CheckPerms, At, TypeOK, rows, worker, ghosts, Putting, ReqFull
<1>2. CASE ~ Permitted
  <2>1. Putting(r) /\ Gone(r)
    BY <1>2, Finishes DEF CheckPerms
  <2> QED
    BY <1>2, <2>1 DEF CheckPerms, At, TypeOK, rows, worker, ghosts, Putting, ReqFull
<1> QED
  BY <1>1, <1>2

LEMMA GuardDoes ==
  ASSUME TypeOK, NEW r \in Requests, Guard(r)
  PROVE  /\ TypeOK' /\ UNCHANGED <<rows, now, busy, wanted, moved, checked, sent, born>>
         /\ Putting(r) /\ req[r].pc = "guard"
         /\ raced \subseteq raced' /\ raced' \subseteq raced \cup {"guard"}
         /\ \A s \in Requests \ {r} : req[s].pc = "create" => "guard" \in raced'
         /\ \/ Moved(r, "entry") /\ Kept(r) /\ IsMission(r)
            \/ Moved(r, "create") /\ Kept(r) /\ \A f \in linked : flow[f] \notin Open
            \/ Gone(r)
<1>1. /\ Putting(r)
      /\ \/ Moved(r, "entry") /\ Kept(r) /\ IsMission(r)
         \/ Moved(r, "create") /\ Kept(r) /\ Reusable = {}
         \/ Gone(r)
  <2>1. CASE Reusable # {} /\ IsMission(r)
    BY <2>1, Goes DEF Guard, PCs
  <2>2. CASE Reusable # {} /\ ~ IsMission(r)
    BY <2>2, Finishes DEF Guard
  <2>3. CASE Reusable = {}
    BY <2>3, Goes DEF Guard, PCs
  <2> QED
    BY <2>1, <2>2, <2>3
<1>2. /\ raced \subseteq raced' /\ raced' \subseteq raced \cup {"guard"}
      /\ \A s \in Requests \ {r} : req[s].pc = "create" => "guard" \in raced'
      /\ req[r].pc = "guard"
      /\ UNCHANGED <<rows, now, worker, mix, calls, faults, wanted, moved, checked, sent, born>>
  BY DEF Guard, At
<1>3. Reusable = {} => \A f \in linked : flow[f] \notin Open
  BY DEF Reusable
<1>4. TypeOK'
  BY <1>1, <1>2 DEF TypeOK, rows, worker, Putting, ReqFull
<1> QED
  BY <1>1, <1>2, <1>3, <1>4 DEF worker

LEMMA CreateDoes ==
  ASSUME TypeOK, Shape, NEW r \in Requests, NEW f \in Flows, Create(r, f)
  PROVE  /\ TypeOK' /\ UNCHANGED <<perm, mission, now, busy, wanted, moved, sent, raced>>
         /\ Putting(r) /\ req[r].pc = "create" /\ flow[f] = "none"
         /\ \A g \in Flows \ {f} : /\ flow'[g] = flow[g] /\ signed'[g] = signed[g]
                                   /\ checked'[g] = checked[g]
         /\ checked'[f] = req[r].seen
         /\ linked' \subseteq linked \cup {f} /\ linked \subseteq linked'
         /\ f \in linked' => IsLinked(r) \/ f \in linked
         /\ req[r].op = "tick" => born' = born \cup {<<f, now>>}
         /\ req[r].op # "tick" => born' = born
         /\ req'[r].pc # "idle" => req'[r].op = req[r].op /\ req'[r].seen = {}
         /\ \/ /\ flow'[f] = "QUEUED" /\ Enough(signed'[f])
               /\ req'[r].pc = "send" /\ req'[r].f = f /\ req'[r].u = req[r].u
            \/ /\ flow'[f] = "DRAFT" /\ ~ Enough(signed'[f])
               /\ \/ IsMission(r) /\ req'[r].pc = "entry"
                  \/ ~ IsMission(r) /\ Gone(r)
<1> DEFINE users == IF IsMission(r) THEN Approvers ELSE {req[r].u}
           ready == IsEnough(Cardinality(users))
<1>0. req[r].pc = "create" /\ users \subseteq Users /\ req[r].seen \subseteq Perms
  BY LaunchAssumption DEF Create, At, Shape, ShapeOf, Launching, IsMission
<1>1. /\ flow' = [flow EXCEPT ![f] = IF ready THEN "QUEUED" ELSE "DRAFT"]
      /\ signed' = [signed EXCEPT ![f] = users] /\ flow[f] = "none"
      /\ linked' = IF IsLinked(r) THEN linked \cup {f} ELSE linked
      /\ checked' = [checked EXCEPT ![f] = req[r].seen]
      /\ born' = IF req[r].op = "tick" THEN born \cup {<<f, now>>} ELSE born
      /\ UNCHANGED <<perm, mission, now, worker, mix, calls, faults, wanted, moved, sent,
                     raced>>
      /\ IF ready
         THEN req' = [req EXCEPT ![r].pc = "send", ![r].f = f, ![r].seen = {}]
         ELSE IF IsMission(r)
         THEN req' = [req EXCEPT ![r].pc = "entry", ![r].seen = {}]
         ELSE Done(r)
  BY DEF Create
<1>2. /\ Putting(r)
      /\ req'[r].pc # "idle" => req'[r].op = req[r].op /\ req'[r].seen = {}
      /\ \/ /\ ready /\ req'[r].pc = "send" /\ req'[r].f = f /\ req'[r].u = req[r].u
         \/ ~ ready /\ ~ IsMission(r) /\ Gone(r)
         \/ ~ ready /\ req'[r].pc = "entry" /\ IsMission(r)
  <2> HIDE DEF ready
  <2>1. CASE ready
    <3> DEFINE c == [req[r] EXCEPT !.pc = "send", !.f = f, !.seen = {}]
    <3>1. /\ c \in ReqFull /\ c.pc = "send" /\ c.op = req[r].op /\ c.f = f
          /\ c.seen = {} /\ c.u = req[r].u
      BY Reqs DEF ReqFull, PCs
    <3>2. req' = [req EXCEPT ![r] = c]
      BY <1>1, <2>1, Reqs DEF ReqFull
    <3> HIDE DEF c
    <3> QED
      BY <2>1, <3>1, <3>2, Puts
  <2>2. CASE ~ ready /\ IsMission(r)
    <3> DEFINE c == [req[r] EXCEPT !.pc = "entry", !.seen = {}]
    <3>1. c \in ReqFull /\ c.pc = "entry" /\ c.op = req[r].op /\ c.seen = {}
      BY Reqs DEF ReqFull, PCs
    <3>2. req' = [req EXCEPT ![r] = c]
      BY <1>1, <2>2, Reqs DEF ReqFull
    <3> HIDE DEF c
    <3> QED
      BY <2>2, <3>1, <3>2, Puts
  <2>3. CASE ~ ready /\ ~ IsMission(r)
    <3>1. Putting(r) /\ Gone(r)
      BY <1>1, <2>3, Finishes
    <3> QED
      BY <2>3, <3>1 DEF Gone
  <2> QED
    BY <2>1, <2>2, <2>3
<1>3. /\ \A g \in Flows \ {f} : /\ flow'[g] = flow[g] /\ signed'[g] = signed[g]
                                /\ checked'[g] = checked[g]
      /\ checked'[f] = req[r].seen /\ signed'[f] = users
      /\ signed' \in [Flows -> SUBSET Users] /\ checked' \in [Flows -> SUBSET Perms]
  <2> HIDE DEF users, ready
  <2> QED
    BY <1>0, <1>1 DEF TypeOK
<1>4. /\ flow' \in [Flows -> FlowStatus]
      /\ ready => flow'[f] = "QUEUED"
      /\ ~ ready => flow'[f] = "DRAFT"
  <2> HIDE DEF ready
  <2> QED
    BY <1>1 DEF TypeOK, FlowStatus
<1>5. ready <=> Enough(signed'[f])
  BY <1>3 DEF Enough, IsEnough
<1>6. TypeOK'
  <2> HIDE DEF users, ready
  <2>1. born' \subseteq Flows \X (0..MaxNow) /\ linked' \subseteq Flows
    BY <1>1 DEF TypeOK
  <2> QED
    BY <1>1, <1>2, <1>3, <1>4, <2>1 DEF TypeOK, worker, Putting, ReqFull
<1> QED
  <2> HIDE DEF users, ready
  <2> QED
    BY <1>0, <1>1, <1>2, <1>3, <1>4, <1>5, <1>6 DEF worker

LEMMA SendDoes ==
  ASSUME TypeOK, Shape, NEW r \in Requests, Send(r)
  PROVE  /\ TypeOK'
         /\ UNCHANGED <<rows, now, busy, wanted, moved, checked, born, raced>>
         /\ Putting(r) /\ req[r].pc = "send" /\ req[r].f \in Flows
         /\ sent'[req[r].f] = sent[req[r].f] + 1
         /\ \A g \in Flows \ {req[r].f} : sent'[g] = sent[g]
         /\ \/ /\ IsMission(r) /\ req'[r].pc = "entry" /\ req'[r].op = req[r].op
               /\ req'[r].f = NoFlow
            \/ ~ IsMission(r) /\ Gone(r)
<1>0. req[r].pc = "send" /\ req[r].f \in Flows
  BY DEF Send, At, Shape, ShapeOf
<1>1. /\ Putting(r)
      /\ \/ /\ IsMission(r) /\ req'[r].pc = "entry" /\ req'[r].op = req[r].op
            /\ req'[r].f = NoFlow
         \/ ~ IsMission(r) /\ Gone(r)
  <2>1. CASE IsMission(r)
    <3> DEFINE c == [req[r] EXCEPT !.pc = "entry", !.f = NoFlow]
    <3>1. c \in ReqFull /\ c.pc = "entry" /\ c.op = req[r].op /\ c.f = NoFlow
      BY Reqs DEF ReqFull, PCs
    <3>2. req' = [req EXCEPT ![r] = c]
      BY <2>1, Reqs DEF Send, ReqFull
    <3> HIDE DEF c
    <3> QED
      BY <2>1, <3>1, <3>2, Puts
  <2>2. CASE ~ IsMission(r)
    BY <2>2, Finishes DEF Send
  <2> QED
    BY <2>1, <2>2
<1>2. /\ inbox' \in [Flows -> Nat] /\ sent' \in [Flows -> Nat]
      /\ sent'[req[r].f] = sent[req[r].f] + 1
      /\ \A g \in Flows \ {req[r].f} : sent'[g] = sent[g]
  BY <1>0 DEF Send, TypeOK
<1>3. UNCHANGED <<rows, now, busy, mix, calls, faults, wanted, moved, checked, born, raced>>
  BY DEF Send
<1> QED
  BY <1>0, <1>1, <1>2, <1>3 DEF TypeOK, rows, Putting, ReqFull

LEMMA DieDoes ==
  ASSUME TypeOK, NEW r \in Requests, Die(r)
  PROVE  /\ TypeOK' /\ UNCHANGED <<rows, now, busy, wanted, moved, checked, sent, born>>
         /\ Putting(r) /\ Gone(r) /\ req[r].pc # "idle"
         /\ raced \subseteq raced' /\ raced' \subseteq raced \cup {"tick"}
         /\ req[r].op = "tick" => "tick" \in raced'
<1>1. Putting(r) /\ Gone(r)
  BY Finishes DEF Die
<1>2. faults' \in 0..MaxFaults
  BY LaunchAssumption DEF Die, TypeOK
<1>3. /\ UNCHANGED <<rows, now, worker, mix, calls, wanted, moved, checked, sent, born>>
      /\ raced \subseteq raced' /\ raced' \subseteq raced \cup {"tick"}
      /\ req[r].op = "tick" => "tick" \in raced'
      /\ req[r].pc # "idle"
  BY DEF Die, At
<1> QED
  BY <1>1, <1>2, <1>3 DEF TypeOK, rows, worker, Putting, ReqFull

LEMMA ReadFlowDoes ==
  ASSUME TypeOK, Shape, NEW r \in Requests, ReadFlow(r)
  PROVE  /\ TypeOK' /\ UNCHANGED <<rows, now, busy, wanted, moved, checked, sent, born>>
         /\ Putting(r) /\ req[r].pc = "read" /\ req[r].op = "sign"
         /\ req[r].f \in Flows /\ flow[req[r].f] # "none" /\ req[r].u \in Users
         /\ raced \subseteq raced' /\ raced' \subseteq raced \cup {req[r].f}
         /\ \A s \in Requests \ {r} :
              req[s].op = "sign" /\ req[s].f = req[r].f /\ req[s].pc # "read" =>
                req[r].f \in raced'
         /\ \/ /\ flow[req[r].f] \notin Closed /\ Moved(r, "insert")
               /\ req'[r].seen = req[r].seen
               /\ (req'[r].yes <=> flow[req[r].f] = "DRAFT")
            \/ Gone(r)
<1>0. /\ req[r].pc = "read" /\ req[r].op = "sign" /\ req[r].f \in Flows
      /\ flow[req[r].f] # "none" /\ req[r].u \in Users
  BY DEF ReadFlow, At, Shape, ShapeOf
<1>1. /\ UNCHANGED <<rows, now, worker, mix, calls, faults, wanted, moved, checked, sent, born>>
      /\ raced \subseteq raced' /\ raced' \subseteq raced \cup {req[r].f}
      /\ \A s \in Requests \ {r} :
           req[s].op = "sign" /\ req[s].f = req[r].f /\ req[s].pc # "read" =>
             req[r].f \in raced'
  BY DEF ReadFlow, At
<1>2. /\ Putting(r)
      /\ \/ /\ flow[req[r].f] \notin Closed /\ Moved(r, "insert")
            /\ req'[r].seen = req[r].seen
            /\ (req'[r].yes <=> flow[req[r].f] = "DRAFT")
         \/ Gone(r)
  <2>1. CASE flow[req[r].f] \in Closed
    BY <2>1, Finishes DEF ReadFlow
  <2>2. CASE flow[req[r].f] \notin Closed
    <3> DEFINE c == [req[r] EXCEPT !.pc = "insert", !.yes = flow[req[r].f] = "DRAFT"]
    <3>1. /\ c \in ReqFull /\ c.pc = "insert" /\ c.op = req[r].op /\ c.f = req[r].f
          /\ c.u = req[r].u /\ c.p = req[r].p /\ c.seen = req[r].seen
          /\ (c.yes <=> flow[req[r].f] = "DRAFT")
      BY Reqs DEF ReqFull, PCs
    <3>2. req' = [req EXCEPT ![r] = c]
      BY <2>2, Reqs DEF ReadFlow, ReqFull
    <3> HIDE DEF c
    <3> QED
      BY <2>2, <3>1, <3>2, Puts DEF Moved
  <2> QED
    BY <2>1, <2>2
<1> QED
  BY <1>0, <1>1, <1>2 DEF TypeOK, rows, worker, Putting, ReqFull

LEMMA InsertDoes ==
  ASSUME TypeOK, Shape, NEW r \in Requests, Insert(r)
  PROVE  /\ TypeOK' /\ UNCHANGED <<rows, now, busy, wanted, moved, checked, sent, born, raced>>
         /\ Putting(r) /\ req[r].pc = "insert" /\ req[r].op = "sign"
         /\ req[r].f \in Flows /\ req[r].u \in Users
         /\ \/ /\ Moved(r, "commit") /\ req'[r].seen = req[r].seen
               /\ (req'[r].yes <=> req[r].yes /\ Enough(With(r)))
            \/ Gone(r)
<1>0. req[r].pc = "insert" /\ req[r].op = "sign" /\ req[r].f \in Flows /\ req[r].u \in Users
  BY DEF Insert, At, Shape, ShapeOf, Signing
<1>1. UNCHANGED <<rows, now, worker, mix, calls, faults, ghosts>>
  BY DEF Insert
<1>2. /\ Putting(r)
      /\ \/ /\ Moved(r, "commit") /\ req'[r].seen = req[r].seen
            /\ (req'[r].yes <=> req[r].yes /\ Enough(With(r)))
         \/ Gone(r)
  <2>1. CASE SignTwice(r)
    BY <2>1, Finishes DEF Insert
  <2>2. CASE ~ SignTwice(r)
    <3> DEFINE y == Gate(r, Cardinality(With(r)))
               c == [req[r] EXCEPT !.pc = "commit", !.yes = y]
    <3>1. (y <=> req[r].yes /\ Enough(With(r))) /\ y \in BOOLEAN
      BY DEF Gate, IsEnough, Enough
    <3>2. req' = [req EXCEPT ![r] = c]
      BY <2>2, Reqs DEF Insert, ReqFull, With
    <3>3. /\ c \in ReqFull /\ c.pc = "commit" /\ c.op = req[r].op /\ c.f = req[r].f
          /\ c.u = req[r].u /\ c.p = req[r].p /\ c.seen = req[r].seen
          /\ (c.yes <=> y)
      <4> HIDE DEF y
      <4> QED
        BY <3>1, Reqs DEF ReqFull, PCs
    <3> HIDE DEF c, y
    <3> QED
      BY <3>1, <3>2, <3>3, Puts DEF Moved
  <2> QED
    BY <2>1, <2>2
<1> QED
  BY <1>0, <1>1, <1>2 DEF TypeOK, rows, worker, ghosts, Putting, ReqFull

LEMMA CommitDoes ==
  ASSUME TypeOK, Shape, NEW r \in Requests, Commit(r)
  PROVE  /\ TypeOK'
         /\ UNCHANGED <<linked, perm, mission, now, busy, wanted, moved, checked, sent, born,
                        raced>>
         /\ Putting(r) /\ req[r].pc = "commit" /\ req[r].op = "sign"
         /\ req[r].f \in Flows /\ flow[req[r].f] # "none" /\ req[r].u \in Users
         /\ signed'[req[r].f] = With(r)
         /\ \A g \in Flows \ {req[r].f} : signed'[g] = signed[g] /\ flow'[g] = flow[g]
         /\ \/ req[r].yes /\ flow'[req[r].f] = "QUEUED" /\ Moved(r, "send") /\ Kept(r)
            \/ ~ req[r].yes /\ flow'[req[r].f] = flow[req[r].f] /\ Gone(r)
<1>0. /\ req[r].pc = "commit" /\ req[r].op = "sign" /\ req[r].f \in Flows
      /\ flow[req[r].f] # "none" /\ req[r].u \in Users
  BY DEF Commit, At, Shape, ShapeOf, Signing
<1>1. UNCHANGED <<linked, perm, mission, now, worker, mix, calls, faults, ghosts>>
  BY DEF Commit
<1>2. /\ signed' \in [Flows -> SUBSET Users] /\ signed'[req[r].f] = With(r)
      /\ \A g \in Flows \ {req[r].f} : signed'[g] = signed[g]
  BY <1>0 DEF Commit, TypeOK, With
<1>3. /\ Putting(r) /\ flow' \in [Flows -> FlowStatus]
      /\ \A g \in Flows \ {req[r].f} : flow'[g] = flow[g]
      /\ \/ req[r].yes /\ flow'[req[r].f] = "QUEUED" /\ Moved(r, "send") /\ Kept(r)
         \/ ~ req[r].yes /\ flow'[req[r].f] = flow[req[r].f] /\ Gone(r)
  <2>1. CASE req[r].yes
    <3>1. Putting(r) /\ Moved(r, "send") /\ Kept(r)
      BY <2>1, Goes DEF Commit, PCs
    <3>2. flow' = [flow EXCEPT ![req[r].f] = "QUEUED"]
      BY <2>1 DEF Commit
    <3> QED
      BY <1>0, <2>1, <3>1, <3>2 DEF TypeOK, FlowStatus
  <2>2. CASE ~ req[r].yes
    <3>1. Putting(r) /\ Gone(r)
      BY <2>2, Finishes DEF Commit
    <3> QED
      BY <2>2, <3>1 DEF Commit, TypeOK
  <2> QED
    BY <2>1, <2>2
<1> QED
  BY <1>0, <1>1, <1>2, <1>3 DEF TypeOK, worker, ghosts, Putting, ReqFull

LEMMA ReadKillDoes ==
  ASSUME TypeOK, NEW r \in Requests, ReadKill(r)
  PROVE  /\ TypeOK' /\ UNCHANGED <<rows, now, busy, ghosts>>
         /\ Putting(r) /\ req[r].pc = "read" /\ req[r].op = "kill" /\ Moved(r, "write")
         /\ \A f \in Flows : f \in req'[r].seen => flow[f] # "none"
<1> DEFINE S == {f \in Flows : flow[f] \in Open \ {"DRAFT"}}
           c == [req[r] EXCEPT !.pc = "write", !.seen = S]
<1>1. /\ c \in ReqFull /\ c.pc = "write" /\ c.op = req[r].op /\ c.f = req[r].f
      /\ c.u = req[r].u /\ c.p = req[r].p /\ c.seen = S
  BY Reqs DEF ReqFull, PCs
<1>2. req' = [req EXCEPT ![r] = c]
  BY Reqs DEF ReadKill, ReqFull
<1>3. Putting(r) /\ Moved(r, "write") /\ req'[r].seen = S
  <2> HIDE DEF c
  <2> QED
    BY <1>1, <1>2, Puts DEF Moved
<1>4. \A f \in S : flow[f] # "none"
  BY DEF Open
<1> QED
  BY <1>3, <1>4 DEF ReadKill, At, TypeOK, rows, worker, ghosts, Putting, ReqFull

LEMMA WriteKillDoes ==
  ASSUME TypeOK, Shape, NEW r \in Requests, WriteKill(r)
  PROVE  /\ TypeOK' /\ UNCHANGED <<signed, linked, perm, mission, now, busy, wanted,
                                   moved, checked, sent, born>>
         /\ Putting(r) /\ Gone(r) /\ req[r].pc = "write" /\ req[r].op = "kill"
         /\ raced \subseteq raced' /\ raced' \subseteq raced \cup Flows
         /\ \A f \in Flows :
              \/ f \notin req[r].seen /\ flow'[f] = flow[f]
              \/ /\ f \in req[r].seen /\ flow'[f] = "ABORTED"
                 /\ f \in busy => f \in raced'
                 /\ \A s \in Requests :
                      req[s].op = "sign" /\ req[s].f = f /\ req[s].pc # "read" => f \in raced'
<1>1. Putting(r) /\ Gone(r)
  BY Finishes DEF WriteKill
<1>2. /\ req[r].pc = "write" /\ req[r].op = "kill"
      /\ UNCHANGED <<signed, linked, perm, mission, now, worker, mix, calls, faults,
                     wanted, moved, checked, sent, born>>
      /\ flow' = [f \in Flows |-> IF f \in req[r].seen THEN "ABORTED" ELSE flow[f]]
      /\ raced' = raced \cup Late(req[r].seen) \cup (req[r].seen \cap busy)
  BY DEF WriteKill, At
<1>3. flow' \in [Flows -> FlowStatus]
  BY <1>2 DEF TypeOK, FlowStatus
<1>4. raced \subseteq raced' /\ raced' \subseteq raced \cup Flows
  <2>1. \A f \in Late(req[r].seen) : f \in Flows
    BY Typed DEF Late, Shape, ShapeOf
  <2> QED
    BY <1>2, <2>1 DEF TypeOK
<1>5. \A f \in Flows :
        \/ f \notin req[r].seen /\ flow'[f] = flow[f]
        \/ /\ f \in req[r].seen /\ flow'[f] = "ABORTED"
           /\ f \in busy => f \in raced'
           /\ \A s \in Requests :
                req[s].op = "sign" /\ req[s].f = f /\ req[s].pc # "read" => f \in raced'
  BY <1>2 DEF Late, At
<1> QED
  BY <1>1, <1>2, <1>3, <1>4, <1>5 DEF TypeOK, worker, Putting, ReqFull

LEMMA HumanDoes ==
  ASSUME TypeOK, NEW f \in Flows, NEW t \in {"PAUSED", "ACTIVE"}, Human(f, t)
  PROVE  /\ TypeOK' /\ UNCHANGED <<signed, linked, perm, mission, now, busy, req, wanted,
                                   moved, checked, sent, born>>
         /\ flow[f] # "none" /\ flow'[f] = t
         /\ \A g \in Flows \ {f} : flow'[g] = flow[g]
         /\ raced \subseteq raced' /\ raced' \subseteq raced \cup {f}
         /\ flow[f] \in Closed => f \in raced'
<1>1. calls' \in 0..mix'.calls
  BY Typed DEF Human, TypeOK
<1>2. inbox' \in [Flows -> Nat]
  BY DEF Human, TypeOK
<1>3. /\ flow' \in [Flows -> FlowStatus] /\ flow'[f] = t /\ flow[f] # "none"
      /\ \A g \in Flows \ {f} : flow'[g] = flow[g]
  BY DEF Human, TypeOK, FlowStatus
<1>4. /\ raced \subseteq raced' /\ raced' \subseteq raced \cup {f}
      /\ flow[f] \in Closed => f \in raced'
      /\ UNCHANGED <<signed, linked, perm, mission, now, busy, req, mix, faults,
                     wanted, moved, checked, sent, born>>
  BY DEF Human
<1> QED
  BY <1>1, <1>2, <1>3, <1>4 DEF TypeOK

LEMMA DeliverDoes ==
  ASSUME TypeOK, NEW f \in Flows, Deliver(f)
  PROVE  /\ TypeOK' /\ UNCHANGED <<rows, now, req, ghosts>>
         /\ busy \subseteq busy' /\ busy' \subseteq busy \cup {f}
         /\ flow[f] \in Closed => busy' = busy
<1>1. inbox' \in [Flows -> Nat]
  BY DEF Deliver, TypeOK
<1>2. /\ busy \subseteq busy' /\ busy' \subseteq busy \cup {f}
      /\ flow[f] \in Closed => busy' = busy
  BY DEF Deliver, IsBlocked, Closed
<1> QED
  BY <1>1, <1>2 DEF Deliver, TypeOK, rows, ghosts

LEMMA ProceedDoes ==
  ASSUME TypeOK, NEW f \in Flows, Proceed(f)
  PROVE  /\ TypeOK' /\ UNCHANGED <<signed, linked, perm, mission, now, req, ghosts>>
         /\ f \in busy /\ flow'[f] \in {"ACTIVE", "PAUSED"}
         /\ \A g \in Flows \ {f} : flow'[g] = flow[g]
         /\ busy' \subseteq busy
<1>1. PICK t \in {"ACTIVE", "PAUSED"} : flow' = [flow EXCEPT ![f] = t]
  BY DEF Proceed
<1>2. /\ flow' \in [Flows -> FlowStatus] /\ flow'[f] \in {"ACTIVE", "PAUSED"}
      /\ \A g \in Flows \ {f} : flow'[g] = flow[g]
  BY <1>1 DEF TypeOK, FlowStatus
<1> QED
  BY <1>2 DEF Proceed, TypeOK, ghosts

LEMMA ReportDoes ==
  ASSUME TypeOK, NEW f \in Flows, Report(f)
  PROVE  /\ TypeOK' /\ UNCHANGED <<signed, linked, perm, mission, now, req, wanted, moved,
                                   checked,
                                   sent, born>>
         /\ f \in busy /\ flow'[f] = "COMPLETED" /\ busy' = busy \ {f}
         /\ \A g \in Flows \ {f} : flow'[g] = flow[g]
         /\ raced \subseteq raced' /\ raced' \subseteq raced \cup {f}
         /\ \A s \in Requests :
              req[s].op = "sign" /\ req[s].f = f /\ req[s].pc # "read" => f \in raced'
<1>1. /\ flow' \in [Flows -> FlowStatus] /\ flow'[f] = "COMPLETED"
      /\ \A g \in Flows \ {f} : flow'[g] = flow[g]
  BY DEF Report, TypeOK, FlowStatus
<1>2. /\ raced \subseteq raced' /\ raced' \subseteq raced \cup {f}
      /\ \A s \in Requests :
           req[s].op = "sign" /\ req[s].f = f /\ req[s].pc # "read" => f \in raced'
  BY DEF Report, Late, At
<1> QED
  BY <1>1, <1>2 DEF Report, TypeOK

-----------------------------------------------------------------------------
\* The parts of the invariant are kept.

LEMMA TypeStep ==
  ASSUME IInv, [Next]_vars
  PROVE  TypeOK'
<1> USE DEF IInv
<1>1. CASE UNCHANGED vars
  BY <1>1 DEF vars, TypeOK
<1>2. \A r \in Requests : Arrives(r) => TypeOK'
  BY ArrivesDoes
<1>3. \A r \in Requests : ListDue(r) => TypeOK'
  BY ListDueDoes
<1>4. \A r \in Requests : GetSchedule(r) => TypeOK'
  BY GetScheduleDoes
<1>5. \A r \in Requests : ReadEntry(r) => TypeOK'
  BY ReadEntryDoes
<1>6. \A r \in Requests : WriteEntry(r) => TypeOK'
  BY WriteEntryDoes
<1>7. \A r \in Requests : WriteDelete(r) => TypeOK'
  BY WriteDeleteDoes
<1>8. \A r \in Requests : ReadPerm(r) => TypeOK'
  BY ReadPermDoes
<1>9. \A r \in Requests : WritePerm(r) => TypeOK'
  BY WritePermDoes
<1>10. \A r \in Requests : CheckPerms(r) => TypeOK'
  BY CheckPermsDoes
<1>11. \A r \in Requests : Guard(r) => TypeOK'
  BY GuardDoes
<1>12. \A r \in Requests : Send(r) => TypeOK'
  BY SendDoes
<1>13. \A r \in Requests, f \in Flows : Create(r, f) => TypeOK'
  BY CreateDoes
<1>14. \A r \in Requests : ReadFlow(r) => TypeOK'
  BY ReadFlowDoes
<1>15. \A r \in Requests : Insert(r) => TypeOK'
  BY InsertDoes
<1>16. \A r \in Requests : Commit(r) => TypeOK'
  BY CommitDoes
<1>17. \A r \in Requests : ReadKill(r) => TypeOK'
  BY ReadKillDoes
<1>18. \A r \in Requests : WriteKill(r) => TypeOK'
  BY WriteKillDoes
<1>19. \A r \in Requests : Die(r) => TypeOK'
  BY DieDoes
<1>20. \A p \in Perms : Ask(p) => TypeOK'
  BY AskDoes
<1>21. \A f \in Flows, t \in {"PAUSED", "ACTIVE"} : Human(f, t) => TypeOK'
  BY HumanDoes
<1>22. \A f \in Flows : Deliver(f) => TypeOK'
  BY DeliverDoes
<1>23. \A f \in Flows : Proceed(f) => TypeOK'
  BY ProceedDoes
<1>24. \A f \in Flows : Report(f) => TypeOK'
  BY ReportDoes
<1>25. Pass => TypeOK'
  BY PassDoes
<1> QED
  BY <1>1, <1>2, <1>3, <1>4, <1>5, <1>6, <1>7, <1>8, <1>9, <1>10, <1>11, <1>12, <1>13,
     <1>14, <1>15, <1>16, <1>17, <1>18, <1>19, <1>20, <1>21, <1>22, <1>23, <1>24, <1>25
     DEF Next, Arrives

\* A request stays in shape.
LEMMA ShapeStep ==
  ASSUME IInv, NEW i \in Requests, [Next]_vars
  PROVE  ShapeOf(i)'
<1> USE DEF IInv, Shape, ShapeOf, Launching, Signing, IsMission
<1>1. CASE UNCHANGED vars
  BY <1>1 DEF vars
<1>2. \A r \in Requests : Arrives(r) => ShapeOf(i)'
  BY ArrivesDoes, Typed DEF Putting
<1>3. \A r \in Requests : ListDue(r) => ShapeOf(i)'
  BY ListDueDoes, Typed DEF Putting, Moved, Kept, Gone, rows, Ticking, IsDue
<1>4. \A r \in Requests : GetSchedule(r) => ShapeOf(i)'
  BY GetScheduleDoes, Typed DEF Putting, Moved, Kept, Gone, rows
<1>5. \A r \in Requests : ReadEntry(r) => ShapeOf(i)'
  BY ReadEntryDoes, Typed DEF Putting, Moved, Kept, Gone, rows
<1>6. \A r \in Requests : WriteEntry(r) => ShapeOf(i)'
  BY WriteEntryDoes, Typed DEF Putting, Gone
<1>7. \A r \in Requests : WriteDelete(r) => ShapeOf(i)'
  BY WriteDeleteDoes, Typed DEF Putting, Gone
<1>8. \A r \in Requests : ReadPerm(r) => ShapeOf(i)'
  BY ReadPermDoes, Typed DEF Putting, Moved, Kept, Gone, rows, ghosts
<1>9. \A r \in Requests : WritePerm(r) => ShapeOf(i)'
  BY WritePermDoes, Typed DEF Putting, Gone, Deciding
<1>10. \A r \in Requests : CheckPerms(r) => ShapeOf(i)'
  BY CheckPermsDoes, Typed DEF Putting, Moved, Gone, rows, ghosts
<1>11. \A r \in Requests : Guard(r) => ShapeOf(i)'
  BY GuardDoes, Typed DEF Putting, Moved, Kept, Gone, rows
<1>12. \A r \in Requests : Send(r) => ShapeOf(i)'
  BY SendDoes, Typed DEF Putting, Gone, rows
<1>13. \A r \in Requests, f \in Flows : Create(r, f) => ShapeOf(i)'
  BY CreateDoes, Typed DEF Putting, Gone
<1>14. \A r \in Requests : ReadFlow(r) => ShapeOf(i)'
  BY ReadFlowDoes, Typed DEF Putting, Moved, Gone, rows
<1>15. \A r \in Requests : Insert(r) => ShapeOf(i)'
  BY InsertDoes, Typed DEF Putting, Moved, Gone, rows
<1>16. \A r \in Requests : Commit(r) => ShapeOf(i)'
  BY CommitDoes, Typed DEF Putting, Moved, Kept, Gone
<1>17. \A r \in Requests : ReadKill(r) => ShapeOf(i)'
  BY ReadKillDoes, Typed DEF Putting, Moved, rows, ghosts
<1>18. \A r \in Requests : WriteKill(r) => ShapeOf(i)'
  BY WriteKillDoes, Typed DEF Putting, Gone
<1>19. \A r \in Requests : Die(r) => ShapeOf(i)'
  BY DieDoes, Typed DEF Putting, Gone, rows
<1>20. \A p \in Perms : Ask(p) => ShapeOf(i)'
  BY AskDoes, Typed DEF ghosts
<1>21. \A f \in Flows, t \in {"PAUSED", "ACTIVE"} : Human(f, t) => ShapeOf(i)'
  BY HumanDoes, Typed
<1>22. \A f \in Flows : Deliver(f) => ShapeOf(i)'
  BY DeliverDoes, Typed DEF rows, ghosts
<1>23. \A f \in Flows : Proceed(f) => ShapeOf(i)'
  BY ProceedDoes, Typed DEF ghosts
<1>24. \A f \in Flows : Report(f) => ShapeOf(i)'
  BY ReportDoes, Typed
<1>25. Pass => ShapeOf(i)'
  BY PassDoes, Typed DEF rows, ghosts
<1> QED
  BY <1>1, <1>2, <1>3, <1>4, <1>5, <1>6, <1>7, <1>8, <1>9, <1>10, <1>11, <1>12, <1>13,
     <1>14, <1>15, <1>16, <1>17, <1>18, <1>19, <1>20, <1>21, <1>22, <1>23, <1>24, <1>25
     DEF Next, Arrives

\* What a launch has seen granted stays so.
LEMMA GrantedStep ==
  ASSUME IInv, NEW i \in Requests, Launching(i)', NEW q \in Perms,
         q \in req'[i].seen, [Next]_vars
  PROVE  Granted(q)'
<1> USE DEF IInv, Permissions, Granted, Launching, Shape, ShapeOf
<1>1. CASE UNCHANGED vars
  BY <1>1 DEF vars
<1>2. \A r \in Requests : Arrives(r) => Granted(q)'
  BY ArrivesDoes DEF Putting
<1>3. \A r \in Requests : ListDue(r) => Granted(q)'
  BY ListDueDoes DEF Putting, Moved, Kept, Gone, rows, Ticking, IsDue
<1>4. \A r \in Requests : GetSchedule(r) => Granted(q)'
  BY GetScheduleDoes DEF Putting, Moved, Kept, Gone, rows
<1>5. \A r \in Requests : ReadEntry(r) => Granted(q)'
  BY ReadEntryDoes DEF Putting, Moved, Kept, Gone, rows
<1>6. \A r \in Requests : WriteEntry(r) => Granted(q)'
  BY WriteEntryDoes DEF Putting, Gone
<1>7. \A r \in Requests : WriteDelete(r) => Granted(q)'
  BY WriteDeleteDoes DEF Putting, Gone
<1>8. \A r \in Requests : ReadPerm(r) => Granted(q)'
  BY ReadPermDoes DEF Putting, Moved, Kept, Gone, rows, ghosts
<1>9. \A r \in Requests : WritePerm(r) => Granted(q)'
  BY WritePermDoes DEF Putting, Gone, Deciding
<1>10. \A r \in Requests : CheckPerms(r) => Granted(q)'
  BY CheckPermsDoes DEF Putting, Moved, Gone, rows, ghosts
<1>11. \A r \in Requests : Guard(r) => Granted(q)'
  BY GuardDoes DEF Putting, Moved, Kept, Gone, rows
<1>12. \A r \in Requests : Send(r) => Granted(q)'
  BY SendDoes DEF Putting, Gone, rows
<1>13. \A r \in Requests, f \in Flows : Create(r, f) => Granted(q)'
  BY CreateDoes DEF Putting, Gone
<1>14. \A r \in Requests : ReadFlow(r) => Granted(q)'
  BY ReadFlowDoes DEF Putting, Moved, Gone, rows
<1>15. \A r \in Requests : Insert(r) => Granted(q)'
  BY InsertDoes DEF Putting, Moved, Gone, rows
<1>16. \A r \in Requests : Commit(r) => Granted(q)'
  BY CommitDoes DEF Putting, Moved, Kept, Gone
<1>17. \A r \in Requests : ReadKill(r) => Granted(q)'
  BY ReadKillDoes DEF Putting, Moved, rows, ghosts
<1>18. \A r \in Requests : WriteKill(r) => Granted(q)'
  BY WriteKillDoes DEF Putting, Gone
<1>19. \A r \in Requests : Die(r) => Granted(q)'
  BY DieDoes DEF Putting, Gone, rows
<1>20. \A p \in Perms : Ask(p) => Granted(q)'
  BY AskDoes DEF ghosts
<1>21. \A f \in Flows, t \in {"PAUSED", "ACTIVE"} : Human(f, t) => Granted(q)'
  BY HumanDoes
<1>22. \A f \in Flows : Deliver(f) => Granted(q)'
  BY DeliverDoes DEF rows, ghosts
<1>23. \A f \in Flows : Proceed(f) => Granted(q)'
  BY ProceedDoes DEF ghosts
<1>24. \A f \in Flows : Report(f) => Granted(q)'
  BY ReportDoes
<1>25. Pass => Granted(q)'
  BY PassDoes DEF rows, ghosts
<1> QED
  BY <1>1, <1>2, <1>3, <1>4, <1>5, <1>6, <1>7, <1>8, <1>9, <1>10, <1>11, <1>12, <1>13,
     <1>14, <1>15, <1>16, <1>17, <1>18, <1>19, <1>20, <1>21, <1>22, <1>23, <1>24, <1>25
     DEF Next, Arrives

\* A decision is made on a request that is pending.
LEMMA DecidingStep ==
  ASSUME IInv, NEW i \in Requests, Deciding(i)', [Next]_vars
  PROVE  perm'[req'[i].p] = "PENDING" \/ req'[i].p \in raced'
<1> DEFINE Goal == perm'[req'[i].p] = "PENDING" \/ req'[i].p \in raced'
<1> USE DEF IInv, Permissions, Deciding, Shape, ShapeOf
<1>1. CASE UNCHANGED vars
  BY <1>1 DEF vars
<1>2. \A r \in Requests : Arrives(r) => Goal
  BY ArrivesDoes DEF Putting
<1>3. \A r \in Requests : ListDue(r) => Goal
  BY ListDueDoes DEF Putting, Moved, Kept, Gone, rows, Ticking, IsDue
<1>4. \A r \in Requests : GetSchedule(r) => Goal
  BY GetScheduleDoes DEF Putting, Moved, Kept, Gone, rows
<1>5. \A r \in Requests : ReadEntry(r) => Goal
  BY ReadEntryDoes DEF Putting, Moved, Kept, Gone, rows
<1>6. \A r \in Requests : WriteEntry(r) => Goal
  BY WriteEntryDoes DEF Putting, Gone
<1>7. \A r \in Requests : WriteDelete(r) => Goal
  BY WriteDeleteDoes DEF Putting, Gone
<1>8. \A r \in Requests : ReadPerm(r) => Goal
  BY ReadPermDoes DEF Putting, Moved, Kept, Gone, rows, ghosts
<1>9. \A r \in Requests : WritePerm(r) => Goal
  BY WritePermDoes DEF Putting, Gone
<1>10. \A r \in Requests : CheckPerms(r) => Goal
  BY CheckPermsDoes DEF Putting, Moved, Gone, rows, ghosts
<1>11. \A r \in Requests : Guard(r) => Goal
  BY GuardDoes DEF Putting, Moved, Kept, Gone, rows
<1>12. \A r \in Requests : Send(r) => Goal
  BY SendDoes DEF Putting, Gone, rows
<1>13. \A r \in Requests, f \in Flows : Create(r, f) => Goal
  BY CreateDoes DEF Putting, Gone
<1>14. \A r \in Requests : ReadFlow(r) => Goal
  BY ReadFlowDoes DEF Putting, Moved, Gone, rows
<1>15. \A r \in Requests : Insert(r) => Goal
  BY InsertDoes DEF Putting, Moved, Gone, rows
<1>16. \A r \in Requests : Commit(r) => Goal
  BY CommitDoes DEF Putting, Moved, Kept, Gone
<1>17. \A r \in Requests : ReadKill(r) => Goal
  BY ReadKillDoes DEF Putting, Moved, rows, ghosts
<1>18. \A r \in Requests : WriteKill(r) => Goal
  BY WriteKillDoes DEF Putting, Gone
<1>19. \A r \in Requests : Die(r) => Goal
  BY DieDoes DEF Putting, Gone, rows
<1>20. \A p \in Perms : Ask(p) => Goal
  BY AskDoes DEF ghosts
<1>21. \A f \in Flows, t \in {"PAUSED", "ACTIVE"} : Human(f, t) => Goal
  BY HumanDoes
<1>22. \A f \in Flows : Deliver(f) => Goal
  BY DeliverDoes DEF rows, ghosts
<1>23. \A f \in Flows : Proceed(f) => Goal
  BY ProceedDoes DEF ghosts
<1>24. \A f \in Flows : Report(f) => Goal
  BY ReportDoes
<1>25. Pass => Goal
  BY PassDoes DEF rows, ghosts
<1> QED
  BY <1>1, <1>2, <1>3, <1>4, <1>5, <1>6, <1>7, <1>8, <1>9, <1>10, <1>11, <1>12, <1>13,
     <1>14, <1>15, <1>16, <1>17, <1>18, <1>19, <1>20, <1>21, <1>22, <1>23, <1>24, <1>25
     DEF Next, Arrives

\* What a launched flow was permitted stays permitted.
LEMMA PermittedStep ==
  ASSUME IInv, NEW g \in Flows, NEW q \in Perms, q \in checked'[g], [Next]_vars
  PROVE  perm'[q] = "APPROVED" \/ q \in raced'
<1> DEFINE Goal == perm'[q] = "APPROVED" \/ q \in raced'
<1> USE DEF IInv, LaunchIsPermitted, Permissions, Granted, Launching, Shape, ShapeOf
<1>1. CASE UNCHANGED vars
  BY <1>1 DEF vars
<1>2. \A r \in Requests : Arrives(r) => Goal
  BY ArrivesDoes DEF Putting
<1>3. \A r \in Requests : ListDue(r) => Goal
  BY ListDueDoes DEF Putting, Moved, Kept, Gone, rows, Ticking, IsDue
<1>4. \A r \in Requests : GetSchedule(r) => Goal
  BY GetScheduleDoes DEF Putting, Moved, Kept, Gone, rows
<1>5. \A r \in Requests : ReadEntry(r) => Goal
  BY ReadEntryDoes DEF Putting, Moved, Kept, Gone, rows
<1>6. \A r \in Requests : WriteEntry(r) => Goal
  BY WriteEntryDoes DEF Putting, Gone
<1>7. \A r \in Requests : WriteDelete(r) => Goal
  BY WriteDeleteDoes DEF Putting, Gone
<1>8. \A r \in Requests : ReadPerm(r) => Goal
  BY ReadPermDoes DEF Putting, Moved, Kept, Gone, rows, ghosts
<1>9. \A r \in Requests : WritePerm(r) => Goal
  BY WritePermDoes DEF Putting, Gone, Deciding
<1>10. \A r \in Requests : CheckPerms(r) => Goal
  BY CheckPermsDoes DEF Putting, Moved, Gone, rows, ghosts
<1>11. \A r \in Requests : Guard(r) => Goal
  BY GuardDoes DEF Putting, Moved, Kept, Gone, rows
<1>12. \A r \in Requests : Send(r) => Goal
  BY SendDoes DEF Putting, Gone, rows
<1>13. \A r \in Requests, f \in Flows : Create(r, f) => Goal
  BY CreateDoes DEF Putting, Gone
<1>14. \A r \in Requests : ReadFlow(r) => Goal
  BY ReadFlowDoes DEF Putting, Moved, Gone, rows
<1>15. \A r \in Requests : Insert(r) => Goal
  BY InsertDoes DEF Putting, Moved, Gone, rows
<1>16. \A r \in Requests : Commit(r) => Goal
  BY CommitDoes DEF Putting, Moved, Kept, Gone
<1>17. \A r \in Requests : ReadKill(r) => Goal
  BY ReadKillDoes DEF Putting, Moved, rows, ghosts
<1>18. \A r \in Requests : WriteKill(r) => Goal
  BY WriteKillDoes DEF Putting, Gone
<1>19. \A r \in Requests : Die(r) => Goal
  BY DieDoes DEF Putting, Gone, rows
<1>20. \A p \in Perms : Ask(p) => Goal
  BY AskDoes DEF ghosts
<1>21. \A f \in Flows, t \in {"PAUSED", "ACTIVE"} : Human(f, t) => Goal
  BY HumanDoes
<1>22. \A f \in Flows : Deliver(f) => Goal
  BY DeliverDoes DEF rows, ghosts
<1>23. \A f \in Flows : Proceed(f) => Goal
  BY ProceedDoes DEF ghosts
<1>24. \A f \in Flows : Report(f) => Goal
  BY ReportDoes
<1>25. Pass => Goal
  BY PassDoes DEF rows, ghosts
<1> QED
  BY <1>1, <1>2, <1>3, <1>4, <1>5, <1>6, <1>7, <1>8, <1>9, <1>10, <1>11, <1>12, <1>13,
     <1>14, <1>15, <1>16, <1>17, <1>18, <1>19, <1>20, <1>21, <1>22, <1>23, <1>24, <1>25
     DEF Next, Arrives

\* A closed flow the worker still executes is in raced.
LEMMA BusyStep ==
  ASSUME IInv, NEW g \in Flows, g \in busy', flow'[g] \in Closed, [Next]_vars
  PROVE  g \in raced'
<1> USE DEF IInv, Closing, Closed
<1>1. CASE UNCHANGED vars
  BY <1>1 DEF vars
<1>2. \A r \in Requests : Arrives(r) => g \in raced'
  BY ArrivesDoes DEF Putting
<1>3. \A r \in Requests : ListDue(r) => g \in raced'
  BY ListDueDoes DEF Putting, Moved, Kept, Gone, rows, Ticking, IsDue
<1>4. \A r \in Requests : GetSchedule(r) => g \in raced'
  BY GetScheduleDoes DEF Putting, Moved, Kept, Gone, rows
<1>5. \A r \in Requests : ReadEntry(r) => g \in raced'
  BY ReadEntryDoes DEF Putting, Moved, Kept, Gone, rows
<1>6. \A r \in Requests : WriteEntry(r) => g \in raced'
  BY WriteEntryDoes DEF Putting, Gone
<1>7. \A r \in Requests : WriteDelete(r) => g \in raced'
  BY WriteDeleteDoes DEF Putting, Gone
<1>8. \A r \in Requests : ReadPerm(r) => g \in raced'
  BY ReadPermDoes DEF Putting, Moved, Kept, Gone, rows, ghosts
<1>9. \A r \in Requests : WritePerm(r) => g \in raced'
  BY WritePermDoes DEF Putting, Gone, Deciding
<1>10. \A r \in Requests : CheckPerms(r) => g \in raced'
  BY CheckPermsDoes DEF Putting, Moved, Gone, rows, ghosts
<1>11. \A r \in Requests : Guard(r) => g \in raced'
  BY GuardDoes DEF Putting, Moved, Kept, Gone, rows
<1>12. \A r \in Requests : Send(r) => g \in raced'
  BY SendDoes DEF Putting, Gone, rows
<1>13. \A r \in Requests, f \in Flows : Create(r, f) => g \in raced'
  BY CreateDoes DEF Putting, Gone
<1>14. \A r \in Requests : ReadFlow(r) => g \in raced'
  BY ReadFlowDoes DEF Putting, Moved, Gone, rows
<1>15. \A r \in Requests : Insert(r) => g \in raced'
  BY InsertDoes DEF Putting, Moved, Gone, rows
<1>16. \A r \in Requests : Commit(r) => g \in raced'
  BY CommitDoes DEF Putting, Moved, Kept, Gone
<1>17. \A r \in Requests : ReadKill(r) => g \in raced'
  BY ReadKillDoes DEF Putting, Moved, rows, ghosts
<1>18. \A r \in Requests : WriteKill(r) => g \in raced'
  BY WriteKillDoes DEF Putting, Gone
<1>19. \A r \in Requests : Die(r) => g \in raced'
  BY DieDoes DEF Putting, Gone, rows
<1>20. \A p \in Perms : Ask(p) => g \in raced'
  BY AskDoes DEF ghosts
<1>21. \A f \in Flows, t \in {"PAUSED", "ACTIVE"} : Human(f, t) => g \in raced'
  BY HumanDoes
<1>22. \A f \in Flows : Deliver(f) => g \in raced'
  BY DeliverDoes DEF rows, ghosts
<1>23. \A f \in Flows : Proceed(f) => g \in raced'
  BY ProceedDoes DEF ghosts
<1>24. \A f \in Flows : Report(f) => g \in raced'
  BY ReportDoes
<1>25. Pass => g \in raced'
  BY PassDoes DEF rows, ghosts
<1> QED
  BY <1>1, <1>2, <1>3, <1>4, <1>5, <1>6, <1>7, <1>8, <1>9, <1>10, <1>11, <1>12, <1>13,
     <1>14, <1>15, <1>16, <1>17, <1>18, <1>19, <1>20, <1>21, <1>22, <1>23, <1>24, <1>25
     DEF Next, Arrives

\* So is one a late signature has read before.
LEMMA SigningStep ==
  ASSUME IInv, NEW i \in Requests, Signing(i)', flow'[req'[i].f] \in Closed, [Next]_vars
  PROVE  req'[i].f \in raced'
<1> USE DEF IInv, Closing, Closed, Signing, Shape, ShapeOf
<1>1. CASE UNCHANGED vars
  BY <1>1 DEF vars
<1>2. \A r \in Requests : Arrives(r) => req'[i].f \in raced'
  BY ArrivesDoes, Typed DEF Putting
<1>3. \A r \in Requests : ListDue(r) => req'[i].f \in raced'
  BY ListDueDoes, Typed DEF Putting, Moved, Kept, Gone, rows, Ticking, IsDue
<1>4. \A r \in Requests : GetSchedule(r) => req'[i].f \in raced'
  BY GetScheduleDoes, Typed DEF Putting, Moved, Kept, Gone, rows
<1>5. \A r \in Requests : ReadEntry(r) => req'[i].f \in raced'
  BY ReadEntryDoes, Typed DEF Putting, Moved, Kept, Gone, rows
<1>6. \A r \in Requests : WriteEntry(r) => req'[i].f \in raced'
  BY WriteEntryDoes, Typed DEF Putting, Gone
<1>7. \A r \in Requests : WriteDelete(r) => req'[i].f \in raced'
  BY WriteDeleteDoes, Typed DEF Putting, Gone
<1>8. \A r \in Requests : ReadPerm(r) => req'[i].f \in raced'
  BY ReadPermDoes, Typed DEF Putting, Moved, Kept, Gone, rows, ghosts
<1>9. \A r \in Requests : WritePerm(r) => req'[i].f \in raced'
  BY WritePermDoes, Typed DEF Putting, Gone, Deciding
<1>10. \A r \in Requests : CheckPerms(r) => req'[i].f \in raced'
  BY CheckPermsDoes, Typed DEF Putting, Moved, Gone, rows, ghosts
<1>11. \A r \in Requests : Guard(r) => req'[i].f \in raced'
  BY GuardDoes, Typed DEF Putting, Moved, Kept, Gone, rows
<1>12. \A r \in Requests : Send(r) => req'[i].f \in raced'
  BY SendDoes, Typed DEF Putting, Gone, rows
<1>13. \A r \in Requests, f \in Flows : Create(r, f) => req'[i].f \in raced'
  BY CreateDoes, Typed DEF Putting, Gone
<1>14. \A r \in Requests : ReadFlow(r) => req'[i].f \in raced'
  BY ReadFlowDoes, Typed DEF Putting, Moved, Gone, rows
<1>15. \A r \in Requests : Insert(r) => req'[i].f \in raced'
  BY InsertDoes, Typed DEF Putting, Moved, Gone, rows
<1>16. \A r \in Requests : Commit(r) => req'[i].f \in raced'
  BY CommitDoes, Typed DEF Putting, Moved, Kept, Gone
<1>17. \A r \in Requests : ReadKill(r) => req'[i].f \in raced'
  BY ReadKillDoes, Typed DEF Putting, Moved, rows, ghosts
<1>18. \A r \in Requests : WriteKill(r) => req'[i].f \in raced'
  BY WriteKillDoes, Typed DEF Putting, Gone
<1>19. \A r \in Requests : Die(r) => req'[i].f \in raced'
  BY DieDoes, Typed DEF Putting, Gone, rows
<1>20. \A p \in Perms : Ask(p) => req'[i].f \in raced'
  BY AskDoes, Typed DEF ghosts
<1>21. \A f \in Flows, t \in {"PAUSED", "ACTIVE"} : Human(f, t) => req'[i].f \in raced'
  BY HumanDoes, Typed
<1>22. \A f \in Flows : Deliver(f) => req'[i].f \in raced'
  BY DeliverDoes, Typed DEF rows, ghosts
<1>23. \A f \in Flows : Proceed(f) => req'[i].f \in raced'
  BY ProceedDoes, Typed DEF ghosts
<1>24. \A f \in Flows : Report(f) => req'[i].f \in raced'
  BY ReportDoes, Typed
<1>25. Pass => req'[i].f \in raced'
  BY PassDoes, Typed DEF rows, ghosts
<1> QED
  BY <1>1, <1>2, <1>3, <1>4, <1>5, <1>6, <1>7, <1>8, <1>9, <1>10, <1>11, <1>12, <1>13,
     <1>14, <1>15, <1>16, <1>17, <1>18, <1>19, <1>20, <1>21, <1>22, <1>23, <1>24, <1>25
     DEF Next, Arrives

\* A linked flow exists.
LEMMA LinkedStep ==
  ASSUME IInv, NEW g \in Flows, g \in linked', [Next]_vars
  PROVE  flow'[g] # "none"
<1> USE DEF IInv, Guarded, Closed
<1>1. CASE UNCHANGED vars
  BY <1>1 DEF vars
<1>2. \A r \in Requests : Arrives(r) => flow'[g] # "none"
  BY ArrivesDoes DEF Putting
<1>3. \A r \in Requests : ListDue(r) => flow'[g] # "none"
  BY ListDueDoes DEF Putting, Moved, Kept, Gone, rows, Ticking, IsDue
<1>4. \A r \in Requests : GetSchedule(r) => flow'[g] # "none"
  BY GetScheduleDoes DEF Putting, Moved, Kept, Gone, rows
<1>5. \A r \in Requests : ReadEntry(r) => flow'[g] # "none"
  BY ReadEntryDoes DEF Putting, Moved, Kept, Gone, rows
<1>6. \A r \in Requests : WriteEntry(r) => flow'[g] # "none"
  BY WriteEntryDoes DEF Putting, Gone
<1>7. \A r \in Requests : WriteDelete(r) => flow'[g] # "none"
  BY WriteDeleteDoes DEF Putting, Gone
<1>8. \A r \in Requests : ReadPerm(r) => flow'[g] # "none"
  BY ReadPermDoes DEF Putting, Moved, Kept, Gone, rows, ghosts
<1>9. \A r \in Requests : WritePerm(r) => flow'[g] # "none"
  BY WritePermDoes DEF Putting, Gone, Deciding
<1>10. \A r \in Requests : CheckPerms(r) => flow'[g] # "none"
  BY CheckPermsDoes DEF Putting, Moved, Gone, rows, ghosts
<1>11. \A r \in Requests : Guard(r) => flow'[g] # "none"
  BY GuardDoes DEF Putting, Moved, Kept, Gone, rows
<1>12. \A r \in Requests : Send(r) => flow'[g] # "none"
  BY SendDoes DEF Putting, Gone, rows
<1>13. \A r \in Requests, f \in Flows : Create(r, f) => flow'[g] # "none"
  BY CreateDoes DEF Putting, Gone
<1>14. \A r \in Requests : ReadFlow(r) => flow'[g] # "none"
  BY ReadFlowDoes DEF Putting, Moved, Gone, rows
<1>15. \A r \in Requests : Insert(r) => flow'[g] # "none"
  BY InsertDoes DEF Putting, Moved, Gone, rows
<1>16. \A r \in Requests : Commit(r) => flow'[g] # "none"
  BY CommitDoes DEF Putting, Moved, Kept, Gone
<1>17. \A r \in Requests : ReadKill(r) => flow'[g] # "none"
  BY ReadKillDoes DEF Putting, Moved, rows, ghosts
<1>18. \A r \in Requests : WriteKill(r) => flow'[g] # "none"
  BY WriteKillDoes DEF Putting, Gone
<1>19. \A r \in Requests : Die(r) => flow'[g] # "none"
  BY DieDoes DEF Putting, Gone, rows
<1>20. \A p \in Perms : Ask(p) => flow'[g] # "none"
  BY AskDoes DEF ghosts
<1>21. \A f \in Flows, t \in {"PAUSED", "ACTIVE"} : Human(f, t) => flow'[g] # "none"
  BY HumanDoes
<1>22. \A f \in Flows : Deliver(f) => flow'[g] # "none"
  BY DeliverDoes DEF rows, ghosts
<1>23. \A f \in Flows : Proceed(f) => flow'[g] # "none"
  BY ProceedDoes DEF ghosts
<1>24. \A f \in Flows : Report(f) => flow'[g] # "none"
  BY ReportDoes
<1>25. Pass => flow'[g] # "none"
  BY PassDoes DEF rows, ghosts
<1> QED
  BY <1>1, <1>2, <1>3, <1>4, <1>5, <1>6, <1>7, <1>8, <1>9, <1>10, <1>11, <1>12, <1>13,
     <1>14, <1>15, <1>16, <1>17, <1>18, <1>19, <1>20, <1>21, <1>22, <1>23, <1>24, <1>25
     DEF Next, Arrives

\* A launch past the guard found no open flow.
LEMMA FoundStep ==
  ASSUME IInv, NEW i \in Requests, req'[i].pc = "create", IsLinked(i)',
         NEW g \in Flows, g \in linked', flow'[g] \in Open, [Next]_vars
  PROVE  g \in raced' \/ "guard" \in raced'
<1> DEFINE Goal == g \in raced' \/ "guard" \in raced'
<1> USE DEF IInv, FlowStatus, Guarded, IsLinked, IsMission, Closed, Open,
   Closing, Signing, Shape, ShapeOf
<1>1. CASE UNCHANGED vars
  BY <1>1 DEF vars
<1>2. \A r \in Requests : Arrives(r) => Goal
  BY ArrivesDoes, Typed DEF Putting
<1>3. \A r \in Requests : ListDue(r) => Goal
  BY ListDueDoes, Typed DEF Putting, Moved, Kept, Gone, rows, Ticking, IsDue
<1>4. \A r \in Requests : GetSchedule(r) => Goal
  BY GetScheduleDoes, Typed DEF Putting, Moved, Kept, Gone, rows
<1>5. \A r \in Requests : ReadEntry(r) => Goal
  BY ReadEntryDoes, Typed DEF Putting, Moved, Kept, Gone, rows
<1>6. \A r \in Requests : WriteEntry(r) => Goal
  BY WriteEntryDoes, Typed DEF Putting, Gone
<1>7. \A r \in Requests : WriteDelete(r) => Goal
  BY WriteDeleteDoes, Typed DEF Putting, Gone
<1>8. \A r \in Requests : ReadPerm(r) => Goal
  BY ReadPermDoes, Typed DEF Putting, Moved, Kept, Gone, rows, ghosts
<1>9. \A r \in Requests : WritePerm(r) => Goal
  BY WritePermDoes, Typed DEF Putting, Gone, Deciding
<1>10. \A r \in Requests : CheckPerms(r) => Goal
  BY CheckPermsDoes, Typed DEF Putting, Moved, Gone, rows, ghosts
<1>11. \A r \in Requests : Guard(r) => Goal
  BY GuardDoes, Typed DEF Putting, Moved, Kept, Gone, rows
<1>12. \A r \in Requests : Send(r) => Goal
  BY SendDoes, Typed DEF Putting, Gone, rows
<1>13. \A r \in Requests, f \in Flows : Create(r, f) => Goal
  BY CreateDoes, Typed DEF Putting, Gone
<1>14. \A r \in Requests : ReadFlow(r) => Goal
  BY ReadFlowDoes, Typed DEF Putting, Moved, Gone, rows
<1>15. \A r \in Requests : Insert(r) => Goal
  BY InsertDoes, Typed DEF Putting, Moved, Gone, rows
<1>16. \A r \in Requests : Commit(r) => Goal
  BY CommitDoes, Typed DEF Putting, Moved, Kept, Gone
<1>17. \A r \in Requests : ReadKill(r) => Goal
  BY ReadKillDoes, Typed DEF Putting, Moved, rows, ghosts
<1>18. \A r \in Requests : WriteKill(r) => Goal
  BY WriteKillDoes, Typed DEF Putting, Gone
<1>19. \A r \in Requests : Die(r) => Goal
  BY DieDoes, Typed DEF Putting, Gone, rows
<1>20. \A p \in Perms : Ask(p) => Goal
  BY AskDoes, Typed DEF ghosts
<1>21. \A f \in Flows, t \in {"PAUSED", "ACTIVE"} : Human(f, t) => Goal
  BY HumanDoes, Typed
<1>22. \A f \in Flows : Deliver(f) => Goal
  BY DeliverDoes, Typed DEF rows, ghosts
<1>23. \A f \in Flows : Proceed(f) => Goal
  BY ProceedDoes, Typed DEF ghosts
<1>24. \A f \in Flows : Report(f) => Goal
  BY ReportDoes, Typed
<1>25. Pass => Goal
  BY PassDoes, Typed DEF rows, ghosts
<1> QED
  BY <1>1, <1>2, <1>3, <1>4, <1>5, <1>6, <1>7, <1>8, <1>9, <1>10, <1>11, <1>12, <1>13,
     <1>14, <1>15, <1>16, <1>17, <1>18, <1>19, <1>20, <1>21, <1>22, <1>23, <1>24, <1>25
     DEF Next, Arrives

\* And it is alone.
LEMMA AloneStep ==
  ASSUME IInv, NEW i \in Requests, NEW j \in Requests, i # j,
         req'[i].pc = "create", req'[j].pc = "create", IsLinked(i)', IsLinked(j)', [Next]_vars
  PROVE  "guard" \in raced'
<1> USE DEF IInv, Guarded, IsLinked, IsMission, Shape, ShapeOf
<1>1. CASE UNCHANGED vars
  BY <1>1 DEF vars
<1>2. \A r \in Requests : Arrives(r) => "guard" \in raced'
  BY ArrivesDoes, Typed DEF Putting
<1>3. \A r \in Requests : ListDue(r) => "guard" \in raced'
  BY ListDueDoes, Typed DEF Putting, Moved, Kept, Gone, rows, Ticking, IsDue
<1>4. \A r \in Requests : GetSchedule(r) => "guard" \in raced'
  BY GetScheduleDoes, Typed DEF Putting, Moved, Kept, Gone, rows
<1>5. \A r \in Requests : ReadEntry(r) => "guard" \in raced'
  BY ReadEntryDoes, Typed DEF Putting, Moved, Kept, Gone, rows
<1>6. \A r \in Requests : WriteEntry(r) => "guard" \in raced'
  BY WriteEntryDoes, Typed DEF Putting, Gone
<1>7. \A r \in Requests : WriteDelete(r) => "guard" \in raced'
  BY WriteDeleteDoes, Typed DEF Putting, Gone
<1>8. \A r \in Requests : ReadPerm(r) => "guard" \in raced'
  BY ReadPermDoes, Typed DEF Putting, Moved, Kept, Gone, rows, ghosts
<1>9. \A r \in Requests : WritePerm(r) => "guard" \in raced'
  BY WritePermDoes, Typed DEF Putting, Gone, Deciding
<1>10. \A r \in Requests : CheckPerms(r) => "guard" \in raced'
  BY CheckPermsDoes, Typed DEF Putting, Moved, Gone, rows, ghosts
<1>11. \A r \in Requests : Guard(r) => "guard" \in raced'
  BY GuardDoes, Typed DEF Putting, Moved, Kept, Gone, rows
<1>12. \A r \in Requests : Send(r) => "guard" \in raced'
  BY SendDoes, Typed DEF Putting, Gone, rows
<1>13. \A r \in Requests, f \in Flows : Create(r, f) => "guard" \in raced'
  BY CreateDoes, Typed DEF Putting, Gone
<1>14. \A r \in Requests : ReadFlow(r) => "guard" \in raced'
  BY ReadFlowDoes, Typed DEF Putting, Moved, Gone, rows
<1>15. \A r \in Requests : Insert(r) => "guard" \in raced'
  BY InsertDoes, Typed DEF Putting, Moved, Gone, rows
<1>16. \A r \in Requests : Commit(r) => "guard" \in raced'
  BY CommitDoes, Typed DEF Putting, Moved, Kept, Gone
<1>17. \A r \in Requests : ReadKill(r) => "guard" \in raced'
  BY ReadKillDoes, Typed DEF Putting, Moved, rows, ghosts
<1>18. \A r \in Requests : WriteKill(r) => "guard" \in raced'
  BY WriteKillDoes, Typed DEF Putting, Gone
<1>19. \A r \in Requests : Die(r) => "guard" \in raced'
  BY DieDoes, Typed DEF Putting, Gone, rows
<1>20. \A p \in Perms : Ask(p) => "guard" \in raced'
  BY AskDoes, Typed DEF ghosts
<1>21. \A f \in Flows, t \in {"PAUSED", "ACTIVE"} : Human(f, t) => "guard" \in raced'
  BY HumanDoes, Typed
<1>22. \A f \in Flows : Deliver(f) => "guard" \in raced'
  BY DeliverDoes, Typed DEF rows, ghosts
<1>23. \A f \in Flows : Proceed(f) => "guard" \in raced'
  BY ProceedDoes, Typed DEF ghosts
<1>24. \A f \in Flows : Report(f) => "guard" \in raced'
  BY ReportDoes, Typed
<1>25. Pass => "guard" \in raced'
  BY PassDoes, Typed DEF rows, ghosts
<1> QED
  BY <1>1, <1>2, <1>3, <1>4, <1>5, <1>6, <1>7, <1>8, <1>9, <1>10, <1>11, <1>12, <1>13,
     <1>14, <1>15, <1>16, <1>17, <1>18, <1>19, <1>20, <1>21, <1>22, <1>23, <1>24, <1>25
     DEF Next, Arrives

\* No two open flows of the direction.
LEMMA TwinsStep ==
  ASSUME IInv, NEW g \in Flows, NEW h \in Flows, g \in linked', h \in linked', g # h,
         flow'[g] \in Open, flow'[h] \in Open, [Next]_vars
  PROVE  "guard" \in raced' \/ {g, h} \cap raced' # {}
<1> DEFINE Goal == "guard" \in raced' \/ {g, h} \cap raced' # {}
<1> USE DEF IInv, NoTwinFlows, FlowStatus, Guarded, IsLinked, IsMission,
   Closed, Open, Closing, Signing, Shape, ShapeOf
<1>1. CASE UNCHANGED vars
  BY <1>1 DEF vars
<1>2. \A r \in Requests : Arrives(r) => Goal
  BY ArrivesDoes, Typed DEF Putting
<1>3. \A r \in Requests : ListDue(r) => Goal
  BY ListDueDoes, Typed DEF Putting, Moved, Kept, Gone, rows, Ticking, IsDue
<1>4. \A r \in Requests : GetSchedule(r) => Goal
  BY GetScheduleDoes, Typed DEF Putting, Moved, Kept, Gone, rows
<1>5. \A r \in Requests : ReadEntry(r) => Goal
  BY ReadEntryDoes, Typed DEF Putting, Moved, Kept, Gone, rows
<1>6. \A r \in Requests : WriteEntry(r) => Goal
  BY WriteEntryDoes, Typed DEF Putting, Gone
<1>7. \A r \in Requests : WriteDelete(r) => Goal
  BY WriteDeleteDoes, Typed DEF Putting, Gone
<1>8. \A r \in Requests : ReadPerm(r) => Goal
  BY ReadPermDoes, Typed DEF Putting, Moved, Kept, Gone, rows, ghosts
<1>9. \A r \in Requests : WritePerm(r) => Goal
  BY WritePermDoes, Typed DEF Putting, Gone, Deciding
<1>10. \A r \in Requests : CheckPerms(r) => Goal
  BY CheckPermsDoes, Typed DEF Putting, Moved, Gone, rows, ghosts
<1>11. \A r \in Requests : Guard(r) => Goal
  BY GuardDoes, Typed DEF Putting, Moved, Kept, Gone, rows
<1>12. \A r \in Requests : Send(r) => Goal
  BY SendDoes, Typed DEF Putting, Gone, rows
<1>13. \A r \in Requests, f \in Flows : Create(r, f) => Goal
  BY CreateDoes, Typed DEF Putting, Gone
<1>14. \A r \in Requests : ReadFlow(r) => Goal
  BY ReadFlowDoes, Typed DEF Putting, Moved, Gone, rows
<1>15. \A r \in Requests : Insert(r) => Goal
  BY InsertDoes, Typed DEF Putting, Moved, Gone, rows
<1>16. \A r \in Requests : Commit(r) => Goal
  BY CommitDoes, Typed DEF Putting, Moved, Kept, Gone
<1>17. \A r \in Requests : ReadKill(r) => Goal
  BY ReadKillDoes, Typed DEF Putting, Moved, rows, ghosts
<1>18. \A r \in Requests : WriteKill(r) => Goal
  BY WriteKillDoes, Typed DEF Putting, Gone
<1>19. \A r \in Requests : Die(r) => Goal
  BY DieDoes, Typed DEF Putting, Gone, rows
<1>20. \A p \in Perms : Ask(p) => Goal
  BY AskDoes, Typed DEF ghosts
<1>21. \A f \in Flows, t \in {"PAUSED", "ACTIVE"} : Human(f, t) => Goal
  BY HumanDoes, Typed
<1>22. \A f \in Flows : Deliver(f) => Goal
  BY DeliverDoes, Typed DEF rows, ghosts
<1>23. \A f \in Flows : Proceed(f) => Goal
  BY ProceedDoes, Typed DEF ghosts
<1>24. \A f \in Flows : Report(f) => Goal
  BY ReportDoes, Typed
<1>25. Pass => Goal
  BY PassDoes, Typed DEF rows, ghosts
<1> QED
  BY <1>1, <1>2, <1>3, <1>4, <1>5, <1>6, <1>7, <1>8, <1>9, <1>10, <1>11, <1>12, <1>13,
     <1>14, <1>15, <1>16, <1>17, <1>18, <1>19, <1>20, <1>21, <1>22, <1>23, <1>24, <1>25
     DEF Next, Arrives

\* A flow that is not launched was not published.
LEMMA UnsentStep ==
  ASSUME IInv, NEW g \in Flows, flow'[g] \in {"none", "DRAFT"}, [Next]_vars
  PROVE  Unsent(g)'
<1> USE DEF IInv, Once, Unsent, Sending, Signing, Shape, ShapeOf
<1>1. CASE UNCHANGED vars
  BY <1>1 DEF vars
<1>2. \A r \in Requests : Arrives(r) => Unsent(g)'
  BY ArrivesDoes, Typed DEF Putting
<1>3. \A r \in Requests : ListDue(r) => Unsent(g)'
  BY ListDueDoes, Typed DEF Putting, Moved, Kept, Gone, rows, Ticking, IsDue
<1>4. \A r \in Requests : GetSchedule(r) => Unsent(g)'
  BY GetScheduleDoes, Typed DEF Putting, Moved, Kept, Gone, rows
<1>5. \A r \in Requests : ReadEntry(r) => Unsent(g)'
  BY ReadEntryDoes, Typed DEF Putting, Moved, Kept, Gone, rows
<1>6. \A r \in Requests : WriteEntry(r) => Unsent(g)'
  BY WriteEntryDoes, Typed DEF Putting, Gone
<1>7. \A r \in Requests : WriteDelete(r) => Unsent(g)'
  BY WriteDeleteDoes, Typed DEF Putting, Gone
<1>8. \A r \in Requests : ReadPerm(r) => Unsent(g)'
  BY ReadPermDoes, Typed DEF Putting, Moved, Kept, Gone, rows, ghosts
<1>9. \A r \in Requests : WritePerm(r) => Unsent(g)'
  BY WritePermDoes, Typed DEF Putting, Gone, Deciding
<1>10. \A r \in Requests : CheckPerms(r) => Unsent(g)'
  BY CheckPermsDoes, Typed DEF Putting, Moved, Gone, rows, ghosts
<1>11. \A r \in Requests : Guard(r) => Unsent(g)'
  BY GuardDoes, Typed DEF Putting, Moved, Kept, Gone, rows
<1>12. \A r \in Requests : Send(r) => Unsent(g)'
  BY SendDoes, Typed DEF Putting, Gone, rows
<1>13. \A r \in Requests, f \in Flows : Create(r, f) => Unsent(g)'
  BY CreateDoes, Typed DEF Putting, Gone
<1>14. \A r \in Requests : ReadFlow(r) => Unsent(g)'
  BY ReadFlowDoes, Typed DEF Putting, Moved, Gone, rows
<1>15. \A r \in Requests : Insert(r) => Unsent(g)'
  BY InsertDoes, Typed DEF Putting, Moved, Gone, rows
<1>16. \A r \in Requests : Commit(r) => Unsent(g)'
  BY CommitDoes, Typed DEF Putting, Moved, Kept, Gone
<1>17. \A r \in Requests : ReadKill(r) => Unsent(g)'
  BY ReadKillDoes, Typed DEF Putting, Moved, rows, ghosts
<1>18. \A r \in Requests : WriteKill(r) => Unsent(g)'
  BY WriteKillDoes, Typed DEF Putting, Gone
<1>19. \A r \in Requests : Die(r) => Unsent(g)'
  BY DieDoes, Typed DEF Putting, Gone, rows
<1>20. \A p \in Perms : Ask(p) => Unsent(g)'
  BY AskDoes, Typed DEF ghosts
<1>21. \A f \in Flows, t \in {"PAUSED", "ACTIVE"} : Human(f, t) => Unsent(g)'
  BY HumanDoes, Typed
<1>22. \A f \in Flows : Deliver(f) => Unsent(g)'
  BY DeliverDoes, Typed DEF rows, ghosts
<1>23. \A f \in Flows : Proceed(f) => Unsent(g)'
  BY ProceedDoes, Typed DEF ghosts
<1>24. \A f \in Flows : Report(f) => Unsent(g)'
  BY ReportDoes, Typed
<1>25. Pass => Unsent(g)'
  BY PassDoes, Typed DEF rows, ghosts
<1> QED
  BY <1>1, <1>2, <1>3, <1>4, <1>5, <1>6, <1>7, <1>8, <1>9, <1>10, <1>11, <1>12, <1>13,
     <1>14, <1>15, <1>16, <1>17, <1>18, <1>19, <1>20, <1>21, <1>22, <1>23, <1>24, <1>25
     DEF Next, Arrives

\* Two late signatures that overlap are in raced.
LEMMA LateStep ==
  ASSUME IInv, NEW i \in Requests, NEW j \in Requests, i # j,
         req'[i].op = "sign", req'[j].op = "sign",
         req'[i].pc # "read", req'[j].pc # "read", req'[i].f = req'[j].f, [Next]_vars
  PROVE  req'[i].f \in raced'
<1> USE DEF IInv, Once, Unsent, Sending, Signing, Shape, ShapeOf, Launching
<1>1. CASE UNCHANGED vars
  BY <1>1 DEF vars
<1>2. \A r \in Requests : Arrives(r) => req'[i].f \in raced'
  BY ArrivesDoes, Typed DEF Putting
<1>3. \A r \in Requests : ListDue(r) => req'[i].f \in raced'
  BY ListDueDoes, Typed DEF Putting, Moved, Kept, Gone, rows, Ticking, IsDue
<1>4. \A r \in Requests : GetSchedule(r) => req'[i].f \in raced'
  BY GetScheduleDoes, Typed DEF Putting, Moved, Kept, Gone, rows
<1>5. \A r \in Requests : ReadEntry(r) => req'[i].f \in raced'
  BY ReadEntryDoes, Typed DEF Putting, Moved, Kept, Gone, rows
<1>6. \A r \in Requests : WriteEntry(r) => req'[i].f \in raced'
  BY WriteEntryDoes, Typed DEF Putting, Gone
<1>7. \A r \in Requests : WriteDelete(r) => req'[i].f \in raced'
  BY WriteDeleteDoes, Typed DEF Putting, Gone
<1>8. \A r \in Requests : ReadPerm(r) => req'[i].f \in raced'
  BY ReadPermDoes, Typed DEF Putting, Moved, Kept, Gone, rows, ghosts
<1>9. \A r \in Requests : WritePerm(r) => req'[i].f \in raced'
  BY WritePermDoes, Typed DEF Putting, Gone, Deciding
<1>10. \A r \in Requests : CheckPerms(r) => req'[i].f \in raced'
  BY CheckPermsDoes, Typed DEF Putting, Moved, Gone, rows, ghosts
<1>11. \A r \in Requests : Guard(r) => req'[i].f \in raced'
  BY GuardDoes, Typed DEF Putting, Moved, Kept, Gone, rows
<1>12. \A r \in Requests : Send(r) => req'[i].f \in raced'
  BY SendDoes, Typed DEF Putting, Gone, rows
<1>13. \A r \in Requests, f \in Flows : Create(r, f) => req'[i].f \in raced'
  BY CreateDoes, Typed DEF Putting, Gone
<1>14. \A r \in Requests : ReadFlow(r) => req'[i].f \in raced'
  BY ReadFlowDoes, Typed DEF Putting, Moved, Gone, rows
<1>15. \A r \in Requests : Insert(r) => req'[i].f \in raced'
  BY InsertDoes, Typed DEF Putting, Moved, Gone, rows
<1>16. \A r \in Requests : Commit(r) => req'[i].f \in raced'
  BY CommitDoes, Typed DEF Putting, Moved, Kept, Gone
<1>17. \A r \in Requests : ReadKill(r) => req'[i].f \in raced'
  BY ReadKillDoes, Typed DEF Putting, Moved, rows, ghosts
<1>18. \A r \in Requests : WriteKill(r) => req'[i].f \in raced'
  BY WriteKillDoes, Typed DEF Putting, Gone
<1>19. \A r \in Requests : Die(r) => req'[i].f \in raced'
  BY DieDoes, Typed DEF Putting, Gone, rows
<1>20. \A p \in Perms : Ask(p) => req'[i].f \in raced'
  BY AskDoes, Typed DEF ghosts
<1>21. \A f \in Flows, t \in {"PAUSED", "ACTIVE"} : Human(f, t) => req'[i].f \in raced'
  BY HumanDoes, Typed
<1>22. \A f \in Flows : Deliver(f) => req'[i].f \in raced'
  BY DeliverDoes, Typed DEF rows, ghosts
<1>23. \A f \in Flows : Proceed(f) => req'[i].f \in raced'
  BY ProceedDoes, Typed DEF ghosts
<1>24. \A f \in Flows : Report(f) => req'[i].f \in raced'
  BY ReportDoes, Typed
<1>25. Pass => req'[i].f \in raced'
  BY PassDoes, Typed DEF rows, ghosts
<1> QED
  BY <1>1, <1>2, <1>3, <1>4, <1>5, <1>6, <1>7, <1>8, <1>9, <1>10, <1>11, <1>12, <1>13,
     <1>14, <1>15, <1>16, <1>17, <1>18, <1>19, <1>20, <1>21, <1>22, <1>23, <1>24, <1>25
     DEF Next, Arrives

\* A signature that may launch a flow is the first to.
LEMMA LaunchingStep ==
  ASSUME IInv, NEW i \in Requests, Signing(i)', req'[i].yes, [Next]_vars
  PROVE  req'[i].f \in raced' \/ Unsent(req[i].f)'
<1> DEFINE Goal == req'[i].f \in raced' \/ Unsent(req[i].f)'
<1> USE DEF IInv, Once, Unsent, Sending, Signing, Shape, ShapeOf
<1>1. CASE UNCHANGED vars
  BY <1>1 DEF vars
<1>2. \A r \in Requests : Arrives(r) => Goal
  BY ArrivesDoes, Typed DEF Putting
<1>3. \A r \in Requests : ListDue(r) => Goal
  BY ListDueDoes, Typed DEF Putting, Moved, Kept, Gone, rows, Ticking, IsDue
<1>4. \A r \in Requests : GetSchedule(r) => Goal
  BY GetScheduleDoes, Typed DEF Putting, Moved, Kept, Gone, rows
<1>5. \A r \in Requests : ReadEntry(r) => Goal
  BY ReadEntryDoes, Typed DEF Putting, Moved, Kept, Gone, rows
<1>6. \A r \in Requests : WriteEntry(r) => Goal
  BY WriteEntryDoes, Typed DEF Putting, Gone
<1>7. \A r \in Requests : WriteDelete(r) => Goal
  BY WriteDeleteDoes, Typed DEF Putting, Gone
<1>8. \A r \in Requests : ReadPerm(r) => Goal
  BY ReadPermDoes, Typed DEF Putting, Moved, Kept, Gone, rows, ghosts
<1>9. \A r \in Requests : WritePerm(r) => Goal
  BY WritePermDoes, Typed DEF Putting, Gone, Deciding
<1>10. \A r \in Requests : CheckPerms(r) => Goal
  BY CheckPermsDoes, Typed DEF Putting, Moved, Gone, rows, ghosts
<1>11. \A r \in Requests : Guard(r) => Goal
  BY GuardDoes, Typed DEF Putting, Moved, Kept, Gone, rows
<1>12. \A r \in Requests : Send(r) => Goal
  BY SendDoes, Typed DEF Putting, Gone, rows
<1>13. \A r \in Requests, f \in Flows : Create(r, f) => Goal
  BY CreateDoes, Typed DEF Putting, Gone
<1>14. \A r \in Requests : ReadFlow(r) => Goal
  BY ReadFlowDoes, Typed DEF Putting, Moved, Gone, rows
<1>15. \A r \in Requests : Insert(r) => Goal
  BY InsertDoes, Typed DEF Putting, Moved, Gone, rows
<1>16. \A r \in Requests : Commit(r) => Goal
  BY CommitDoes, Typed DEF Putting, Moved, Kept, Gone
<1>17. \A r \in Requests : ReadKill(r) => Goal
  BY ReadKillDoes, Typed DEF Putting, Moved, rows, ghosts
<1>18. \A r \in Requests : WriteKill(r) => Goal
  BY WriteKillDoes, Typed DEF Putting, Gone
<1>19. \A r \in Requests : Die(r) => Goal
  BY DieDoes, Typed DEF Putting, Gone, rows
<1>20. \A p \in Perms : Ask(p) => Goal
  BY AskDoes, Typed DEF ghosts
<1>21. \A f \in Flows, t \in {"PAUSED", "ACTIVE"} : Human(f, t) => Goal
  BY HumanDoes, Typed
<1>22. \A f \in Flows : Deliver(f) => Goal
  BY DeliverDoes, Typed DEF rows, ghosts
<1>23. \A f \in Flows : Proceed(f) => Goal
  BY ProceedDoes, Typed DEF ghosts
<1>24. \A f \in Flows : Report(f) => Goal
  BY ReportDoes, Typed
<1>25. Pass => Goal
  BY PassDoes, Typed DEF rows, ghosts
<1> QED
  BY <1>1, <1>2, <1>3, <1>4, <1>5, <1>6, <1>7, <1>8, <1>9, <1>10, <1>11, <1>12, <1>13,
     <1>14, <1>15, <1>16, <1>17, <1>18, <1>19, <1>20, <1>21, <1>22, <1>23, <1>24, <1>25
     DEF Next, Arrives

\* So is a request that is about to publish it.
LEMMA SendingStep ==
  ASSUME IInv, NEW i \in Requests, req'[i].pc = "send", [Next]_vars
  PROVE  \/ req'[i].f \in raced'
         \/ /\ sent'[req'[i].f] = 0
            /\ \A j \in Requests \ {i} : ~ Sending(j, req[i].f)'
<1> DEFINE Goal == \/ req'[i].f \in raced'
                    \/ /\ sent'[req'[i].f] = 0
                       /\ \A j \in Requests \ {i} : ~ Sending(j, req[i].f)'
<1> USE DEF IInv, Once, Unsent, Sending, Signing, Shape, ShapeOf
<1>1. CASE UNCHANGED vars
  BY <1>1 DEF vars
<1>2. \A r \in Requests : Arrives(r) => Goal
  BY ArrivesDoes, Typed DEF Putting
<1>3. \A r \in Requests : ListDue(r) => Goal
  BY ListDueDoes, Typed DEF Putting, Moved, Kept, Gone, rows, Ticking, IsDue
<1>4. \A r \in Requests : GetSchedule(r) => Goal
  BY GetScheduleDoes, Typed DEF Putting, Moved, Kept, Gone, rows
<1>5. \A r \in Requests : ReadEntry(r) => Goal
  BY ReadEntryDoes, Typed DEF Putting, Moved, Kept, Gone, rows
<1>6. \A r \in Requests : WriteEntry(r) => Goal
  BY WriteEntryDoes, Typed DEF Putting, Gone
<1>7. \A r \in Requests : WriteDelete(r) => Goal
  BY WriteDeleteDoes, Typed DEF Putting, Gone
<1>8. \A r \in Requests : ReadPerm(r) => Goal
  BY ReadPermDoes, Typed DEF Putting, Moved, Kept, Gone, rows, ghosts
<1>9. \A r \in Requests : WritePerm(r) => Goal
  BY WritePermDoes, Typed DEF Putting, Gone, Deciding
<1>10. \A r \in Requests : CheckPerms(r) => Goal
  BY CheckPermsDoes, Typed DEF Putting, Moved, Gone, rows, ghosts
<1>11. \A r \in Requests : Guard(r) => Goal
  BY GuardDoes, Typed DEF Putting, Moved, Kept, Gone, rows
<1>12. \A r \in Requests : Send(r) => Goal
  BY SendDoes, Typed DEF Putting, Gone, rows
<1>13. \A r \in Requests, f \in Flows : Create(r, f) => Goal
  BY CreateDoes, Typed DEF Putting, Gone
<1>14. \A r \in Requests : ReadFlow(r) => Goal
  BY ReadFlowDoes, Typed DEF Putting, Moved, Gone, rows
<1>15. \A r \in Requests : Insert(r) => Goal
  BY InsertDoes, Typed DEF Putting, Moved, Gone, rows
<1>16. \A r \in Requests : Commit(r) => Goal
  BY CommitDoes, Typed DEF Putting, Moved, Kept, Gone
<1>17. \A r \in Requests : ReadKill(r) => Goal
  BY ReadKillDoes, Typed DEF Putting, Moved, rows, ghosts
<1>18. \A r \in Requests : WriteKill(r) => Goal
  BY WriteKillDoes, Typed DEF Putting, Gone
<1>19. \A r \in Requests : Die(r) => Goal
  BY DieDoes, Typed DEF Putting, Gone, rows
<1>20. \A p \in Perms : Ask(p) => Goal
  BY AskDoes, Typed DEF ghosts
<1>21. \A f \in Flows, t \in {"PAUSED", "ACTIVE"} : Human(f, t) => Goal
  BY HumanDoes, Typed
<1>22. \A f \in Flows : Deliver(f) => Goal
  BY DeliverDoes, Typed DEF rows, ghosts
<1>23. \A f \in Flows : Proceed(f) => Goal
  BY ProceedDoes, Typed DEF ghosts
<1>24. \A f \in Flows : Report(f) => Goal
  BY ReportDoes, Typed
<1>25. Pass => Goal
  BY PassDoes, Typed DEF rows, ghosts
<1> QED
  BY <1>1, <1>2, <1>3, <1>4, <1>5, <1>6, <1>7, <1>8, <1>9, <1>10, <1>11, <1>12, <1>13,
     <1>14, <1>15, <1>16, <1>17, <1>18, <1>19, <1>20, <1>21, <1>22, <1>23, <1>24, <1>25
     DEF Next, Arrives

\* It is published once.
LEMMA SentStep ==
  ASSUME IInv, NEW g \in Flows, [Next]_vars
  PROVE  sent'[g] <= 1 \/ g \in raced'
<1> DEFINE Goal == sent'[g] <= 1 \/ g \in raced'
<1> USE DEF IInv, Once, Unsent, Sending
<1>1. CASE UNCHANGED vars
  BY <1>1 DEF vars
<1>2. \A r \in Requests : Arrives(r) => Goal
  BY ArrivesDoes, Typed DEF Putting
<1>3. \A r \in Requests : ListDue(r) => Goal
  BY ListDueDoes, Typed DEF Putting, Moved, Kept, Gone, rows, Ticking, IsDue
<1>4. \A r \in Requests : GetSchedule(r) => Goal
  BY GetScheduleDoes, Typed DEF Putting, Moved, Kept, Gone, rows
<1>5. \A r \in Requests : ReadEntry(r) => Goal
  BY ReadEntryDoes, Typed DEF Putting, Moved, Kept, Gone, rows
<1>6. \A r \in Requests : WriteEntry(r) => Goal
  BY WriteEntryDoes, Typed DEF Putting, Gone
<1>7. \A r \in Requests : WriteDelete(r) => Goal
  BY WriteDeleteDoes, Typed DEF Putting, Gone
<1>8. \A r \in Requests : ReadPerm(r) => Goal
  BY ReadPermDoes, Typed DEF Putting, Moved, Kept, Gone, rows, ghosts
<1>9. \A r \in Requests : WritePerm(r) => Goal
  BY WritePermDoes, Typed DEF Putting, Gone, Deciding
<1>10. \A r \in Requests : CheckPerms(r) => Goal
  BY CheckPermsDoes, Typed DEF Putting, Moved, Gone, rows, ghosts
<1>11. \A r \in Requests : Guard(r) => Goal
  BY GuardDoes, Typed DEF Putting, Moved, Kept, Gone, rows
<1>12. \A r \in Requests : Send(r) => Goal
  BY SendDoes, Typed DEF Putting, Gone, rows
<1>13. \A r \in Requests, f \in Flows : Create(r, f) => Goal
  BY CreateDoes, Typed DEF Putting, Gone
<1>14. \A r \in Requests : ReadFlow(r) => Goal
  BY ReadFlowDoes, Typed DEF Putting, Moved, Gone, rows
<1>15. \A r \in Requests : Insert(r) => Goal
  BY InsertDoes, Typed DEF Putting, Moved, Gone, rows
<1>16. \A r \in Requests : Commit(r) => Goal
  BY CommitDoes, Typed DEF Putting, Moved, Kept, Gone
<1>17. \A r \in Requests : ReadKill(r) => Goal
  BY ReadKillDoes, Typed DEF Putting, Moved, rows, ghosts
<1>18. \A r \in Requests : WriteKill(r) => Goal
  BY WriteKillDoes, Typed DEF Putting, Gone
<1>19. \A r \in Requests : Die(r) => Goal
  BY DieDoes, Typed DEF Putting, Gone, rows
<1>20. \A p \in Perms : Ask(p) => Goal
  BY AskDoes, Typed DEF ghosts
<1>21. \A f \in Flows, t \in {"PAUSED", "ACTIVE"} : Human(f, t) => Goal
  BY HumanDoes, Typed
<1>22. \A f \in Flows : Deliver(f) => Goal
  BY DeliverDoes, Typed DEF rows, ghosts
<1>23. \A f \in Flows : Proceed(f) => Goal
  BY ProceedDoes, Typed DEF ghosts
<1>24. \A f \in Flows : Report(f) => Goal
  BY ReportDoes, Typed
<1>25. Pass => Goal
  BY PassDoes, Typed DEF rows, ghosts
<1> QED
  BY <1>1, <1>2, <1>3, <1>4, <1>5, <1>6, <1>7, <1>8, <1>9, <1>10, <1>11, <1>12, <1>13,
     <1>14, <1>15, <1>16, <1>17, <1>18, <1>19, <1>20, <1>21, <1>22, <1>23, <1>24, <1>25
     DEF Next, Arrives

\* More signatures are enough if fewer were.
LEMMA More ==
  ASSUME NEW S \in SUBSET Users, NEW T \in SUBSET Users, S \subseteq T, Enough(S)
  PROVE  Enough(T)
<1>1. IsFiniteSet(T)
  BY LaunchAssumption, FS_Subset
<1>2. Cardinality(S) <= Cardinality(T) /\ IsFiniteSet(S)
  BY <1>1, FS_Subset
<1>3. Cardinality(S) \in Nat /\ Cardinality(T) \in Nat
  BY <1>1, <1>2, FS_CardinalityType
<1> QED
  BY <1>2, <1>3, LaunchAssumption DEF Enough

LEMMA CommitKeeps ==
  ASSUME TypeOK, Shape, NEW r \in Requests, Commit(r)
  PROVE  /\ \A g \in Flows : Enough(signed[g]) => Enough(signed'[g])
         /\ \A i \in Requests : req[i].f \in Flows /\ req[i].u \in Users /\ Enough(With(i)) =>
              Enough(signed'[req[i].f] \cup {req[i].u})
<1>1. \A g \in Flows : /\ signed[g] \in SUBSET Users /\ signed'[g] \in SUBSET Users
                       /\ signed[g] \subseteq signed'[g]
  BY CommitDoes DEF TypeOK, With
<1>2. \A g \in Flows : Enough(signed[g]) => Enough(signed'[g])
  BY <1>1, More
<1>3. ASSUME NEW i \in Requests, req[i].f \in Flows, req[i].u \in Users, Enough(With(i))
      PROVE  Enough(signed'[req[i].f] \cup {req[i].u})
  <2>1. /\ With(i) \in SUBSET Users /\ signed'[req[i].f] \cup {req[i].u} \in SUBSET Users
        /\ With(i) \subseteq signed'[req[i].f] \cup {req[i].u}
    BY <1>1, <1>3 DEF With
  <2> QED
    BY <1>3, <2>1, More
<1> QED
  BY <1>2, <1>3

\* What was published had its signatures.
LEMMA EnoughStep ==
  ASSUME IInv, NEW g \in Flows, sent'[g] > 0, [Next]_vars
  PROVE  Enough(signed'[g])
<1> USE DEF IInv, Signatures, Signing, Once, Unsent, Sending, Shape, ShapeOf
<1>1. CASE UNCHANGED vars
  BY <1>1 DEF vars
<1>2. \A r \in Requests : Arrives(r) => Enough(signed'[g])
  BY ArrivesDoes, Typed DEF Putting
<1>3. \A r \in Requests : ListDue(r) => Enough(signed'[g])
  BY ListDueDoes, Typed DEF Putting, Moved, Kept, Gone, rows, Ticking, IsDue
<1>4. \A r \in Requests : GetSchedule(r) => Enough(signed'[g])
  BY GetScheduleDoes, Typed DEF Putting, Moved, Kept, Gone, rows
<1>5. \A r \in Requests : ReadEntry(r) => Enough(signed'[g])
  BY ReadEntryDoes, Typed DEF Putting, Moved, Kept, Gone, rows
<1>6. \A r \in Requests : WriteEntry(r) => Enough(signed'[g])
  BY WriteEntryDoes, Typed DEF Putting, Gone
<1>7. \A r \in Requests : WriteDelete(r) => Enough(signed'[g])
  BY WriteDeleteDoes, Typed DEF Putting, Gone
<1>8. \A r \in Requests : ReadPerm(r) => Enough(signed'[g])
  BY ReadPermDoes, Typed DEF Putting, Moved, Kept, Gone, rows, ghosts
<1>9. \A r \in Requests : WritePerm(r) => Enough(signed'[g])
  BY WritePermDoes, Typed DEF Putting, Gone, Deciding
<1>10. \A r \in Requests : CheckPerms(r) => Enough(signed'[g])
  BY CheckPermsDoes, Typed DEF Putting, Moved, Gone, rows, ghosts
<1>11. \A r \in Requests : Guard(r) => Enough(signed'[g])
  BY GuardDoes, Typed DEF Putting, Moved, Kept, Gone, rows
<1>12. \A r \in Requests : Send(r) => Enough(signed'[g])
  BY SendDoes, Typed DEF Putting, Gone, rows
<1>13. \A r \in Requests, f \in Flows : Create(r, f) => Enough(signed'[g])
  BY CreateDoes, Typed DEF Putting, Gone
<1>14. \A r \in Requests : ReadFlow(r) => Enough(signed'[g])
  BY ReadFlowDoes, Typed DEF Putting, Moved, Gone, rows
<1>15. \A r \in Requests : Insert(r) => Enough(signed'[g])
  BY InsertDoes, Typed DEF Putting, Moved, Gone, rows
<1>16. \A r \in Requests : Commit(r) => Enough(signed'[g])
  BY CommitDoes, Typed, CommitKeeps, SMTT(15) DEF Putting, Moved, Kept, Gone
<1>17. \A r \in Requests : ReadKill(r) => Enough(signed'[g])
  BY ReadKillDoes, Typed DEF Putting, Moved, rows, ghosts
<1>18. \A r \in Requests : WriteKill(r) => Enough(signed'[g])
  BY WriteKillDoes, Typed DEF Putting, Gone
<1>19. \A r \in Requests : Die(r) => Enough(signed'[g])
  BY DieDoes, Typed DEF Putting, Gone, rows
<1>20. \A p \in Perms : Ask(p) => Enough(signed'[g])
  BY AskDoes, Typed DEF ghosts
<1>21. \A f \in Flows, t \in {"PAUSED", "ACTIVE"} : Human(f, t) => Enough(signed'[g])
  BY HumanDoes, Typed
<1>22. \A f \in Flows : Deliver(f) => Enough(signed'[g])
  BY DeliverDoes, Typed DEF rows, ghosts
<1>23. \A f \in Flows : Proceed(f) => Enough(signed'[g])
  BY ProceedDoes, Typed DEF ghosts
<1>24. \A f \in Flows : Report(f) => Enough(signed'[g])
  BY ReportDoes, Typed
<1>25. Pass => Enough(signed'[g])
  BY PassDoes, Typed DEF rows, ghosts
<1> QED
  BY <1>1, <1>2, <1>3, <1>4, <1>5, <1>6, <1>7, <1>8, <1>9, <1>10, <1>11, <1>12, <1>13,
     <1>14, <1>15, <1>16, <1>17, <1>18, <1>19, <1>20, <1>21, <1>22, <1>23, <1>24, <1>25
     DEF Next, Arrives

\* A draft has not, unless late signatures overlapped.
LEMMA DraftStep ==
  ASSUME IInv, NEW g \in Flows, flow'[g] = "DRAFT", Enough(signed'[g]), [Next]_vars
  PROVE  g \in raced'
<1> USE DEF IInv, Signatures, Signing, Once, Unsent, Sending, Shape, ShapeOf, With
<1>1. CASE UNCHANGED vars
  BY <1>1 DEF vars
<1>2. \A r \in Requests : Arrives(r) => g \in raced'
  BY ArrivesDoes, Typed DEF Putting
<1>3. \A r \in Requests : ListDue(r) => g \in raced'
  BY ListDueDoes, Typed DEF Putting, Moved, Kept, Gone, rows, Ticking, IsDue
<1>4. \A r \in Requests : GetSchedule(r) => g \in raced'
  BY GetScheduleDoes, Typed DEF Putting, Moved, Kept, Gone, rows
<1>5. \A r \in Requests : ReadEntry(r) => g \in raced'
  BY ReadEntryDoes, Typed DEF Putting, Moved, Kept, Gone, rows
<1>6. \A r \in Requests : WriteEntry(r) => g \in raced'
  BY WriteEntryDoes, Typed DEF Putting, Gone
<1>7. \A r \in Requests : WriteDelete(r) => g \in raced'
  BY WriteDeleteDoes, Typed DEF Putting, Gone
<1>8. \A r \in Requests : ReadPerm(r) => g \in raced'
  BY ReadPermDoes, Typed DEF Putting, Moved, Kept, Gone, rows, ghosts
<1>9. \A r \in Requests : WritePerm(r) => g \in raced'
  BY WritePermDoes, Typed DEF Putting, Gone, Deciding
<1>10. \A r \in Requests : CheckPerms(r) => g \in raced'
  BY CheckPermsDoes, Typed DEF Putting, Moved, Gone, rows, ghosts
<1>11. \A r \in Requests : Guard(r) => g \in raced'
  BY GuardDoes, Typed DEF Putting, Moved, Kept, Gone, rows
<1>12. \A r \in Requests : Send(r) => g \in raced'
  BY SendDoes, Typed DEF Putting, Gone, rows
<1>13. \A r \in Requests, f \in Flows : Create(r, f) => g \in raced'
  BY CreateDoes, Typed DEF Putting, Gone
<1>14. \A r \in Requests : ReadFlow(r) => g \in raced'
  BY ReadFlowDoes, Typed DEF Putting, Moved, Gone, rows
<1>15. \A r \in Requests : Insert(r) => g \in raced'
  BY InsertDoes, Typed DEF Putting, Moved, Gone, rows
<1>16. \A r \in Requests : Commit(r) => g \in raced'
  BY CommitDoes, Typed, CommitKeeps, SMTT(15) DEF Putting, Moved, Kept, Gone
<1>17. \A r \in Requests : ReadKill(r) => g \in raced'
  BY ReadKillDoes, Typed DEF Putting, Moved, rows, ghosts
<1>18. \A r \in Requests : WriteKill(r) => g \in raced'
  BY WriteKillDoes, Typed DEF Putting, Gone
<1>19. \A r \in Requests : Die(r) => g \in raced'
  BY DieDoes, Typed DEF Putting, Gone, rows
<1>20. \A p \in Perms : Ask(p) => g \in raced'
  BY AskDoes, Typed DEF ghosts
<1>21. \A f \in Flows, t \in {"PAUSED", "ACTIVE"} : Human(f, t) => g \in raced'
  BY HumanDoes, Typed
<1>22. \A f \in Flows : Deliver(f) => g \in raced'
  BY DeliverDoes, Typed DEF rows, ghosts
<1>23. \A f \in Flows : Proceed(f) => g \in raced'
  BY ProceedDoes, Typed DEF ghosts
<1>24. \A f \in Flows : Report(f) => g \in raced'
  BY ReportDoes, Typed
<1>25. Pass => g \in raced'
  BY PassDoes, Typed DEF rows, ghosts
<1> QED
  BY <1>1, <1>2, <1>3, <1>4, <1>5, <1>6, <1>7, <1>8, <1>9, <1>10, <1>11, <1>12, <1>13,
     <1>14, <1>15, <1>16, <1>17, <1>18, <1>19, <1>20, <1>21, <1>22, <1>23, <1>24, <1>25
     DEF Next, Arrives

\* Nor is it about to be published without.
LEMMA PublishingStep ==
  ASSUME IInv, NEW i \in Requests, req'[i].pc = "send", [Next]_vars
  PROVE  Enough(signed'[req'[i].f])
<1> USE DEF IInv, Signatures
<1>1. CASE UNCHANGED vars
  BY <1>1 DEF vars
<1>2. \A r \in Requests : Arrives(r) => Enough(signed'[req'[i].f])
  BY ArrivesDoes, Typed DEF Putting
<1>3. \A r \in Requests : ListDue(r) => Enough(signed'[req'[i].f])
  BY ListDueDoes, Typed DEF Putting, Moved, Kept, Gone, rows, Ticking, IsDue
<1>4. \A r \in Requests : GetSchedule(r) => Enough(signed'[req'[i].f])
  BY GetScheduleDoes, Typed DEF Putting, Moved, Kept, Gone, rows
<1>5. \A r \in Requests : ReadEntry(r) => Enough(signed'[req'[i].f])
  BY ReadEntryDoes, Typed DEF Putting, Moved, Kept, Gone, rows
<1>6. \A r \in Requests : WriteEntry(r) => Enough(signed'[req'[i].f])
  BY WriteEntryDoes, Typed DEF Putting, Gone
<1>7. \A r \in Requests : WriteDelete(r) => Enough(signed'[req'[i].f])
  BY WriteDeleteDoes, Typed DEF Putting, Gone
<1>8. \A r \in Requests : ReadPerm(r) => Enough(signed'[req'[i].f])
  BY ReadPermDoes, Typed DEF Putting, Moved, Kept, Gone, rows, ghosts
<1>9. \A r \in Requests : WritePerm(r) => Enough(signed'[req'[i].f])
  BY WritePermDoes, Typed DEF Putting, Gone, Deciding
<1>10. \A r \in Requests : CheckPerms(r) => Enough(signed'[req'[i].f])
  BY CheckPermsDoes, Typed DEF Putting, Moved, Gone, rows, ghosts
<1>11. \A r \in Requests : Guard(r) => Enough(signed'[req'[i].f])
  BY GuardDoes, Typed DEF Putting, Moved, Kept, Gone, rows
<1>12. \A r \in Requests : Send(r) => Enough(signed'[req'[i].f])
  BY SendDoes, Typed DEF Putting, Gone, rows
<1>13. ASSUME NEW r \in Requests, NEW f \in Flows, Create(r, f)
      PROVE  Enough(signed'[req'[i].f])
  <2> HIDE DEF Signatures
  <2>1. CASE i = r
    <3>1. req'[r].f = f /\ Enough(signed'[f])
      BY <1>13, <2>1, CreateDoes DEF Gone
    <3> QED
      BY <2>1, <3>1
  <2>2. CASE i # r
    <3>1. req'[i] = req[i] /\ req[i].pc = "send"
      BY <1>13, <2>2, CreateDoes DEF Putting
    <3>2. req[i].f \in Flows /\ req[i].f # f /\ Enough(signed[req[i].f])
      BY <1>13, <3>1, CreateDoes DEF Signatures, Shape, ShapeOf, Once, Unsent, Sending
    <3> QED
      BY <1>13, <3>1, <3>2, CreateDoes
  <2> QED
    BY <2>1, <2>2
<1>14. \A r \in Requests : ReadFlow(r) => Enough(signed'[req'[i].f])
  BY ReadFlowDoes, Typed DEF Putting, Moved, Gone, rows
<1>15. \A r \in Requests : Insert(r) => Enough(signed'[req'[i].f])
  BY InsertDoes, Typed DEF Putting, Moved, Gone, rows
<1>16. ASSUME NEW r \in Requests, Commit(r)
      PROVE  Enough(signed'[req'[i].f])
  <2> HIDE DEF Signatures
  <2>1. CASE i = r
    BY <1>16, <2>1, CommitDoes DEF Moved, Gone, Signatures
  <2>2. CASE i # r
    <3>1. req'[i] = req[i] /\ req[i].pc = "send" /\ req[i].f \in Flows
      BY <1>16, <2>2, CommitDoes DEF Putting, Shape, ShapeOf
    <3> QED
      BY <1>16, <3>1, CommitKeeps DEF Signatures
  <2> QED
    BY <2>1, <2>2
<1>17. \A r \in Requests : ReadKill(r) => Enough(signed'[req'[i].f])
  BY ReadKillDoes, Typed DEF Putting, Moved, rows, ghosts
<1>18. \A r \in Requests : WriteKill(r) => Enough(signed'[req'[i].f])
  BY WriteKillDoes, Typed DEF Putting, Gone
<1>19. \A r \in Requests : Die(r) => Enough(signed'[req'[i].f])
  BY DieDoes, Typed DEF Putting, Gone, rows
<1>20. \A p \in Perms : Ask(p) => Enough(signed'[req'[i].f])
  BY AskDoes, Typed DEF ghosts
<1>21. \A f \in Flows, t \in {"PAUSED", "ACTIVE"} : Human(f, t) => Enough(signed'[req'[i].f])
  BY HumanDoes, Typed
<1>22. \A f \in Flows : Deliver(f) => Enough(signed'[req'[i].f])
  BY DeliverDoes, Typed DEF rows, ghosts
<1>23. \A f \in Flows : Proceed(f) => Enough(signed'[req'[i].f])
  BY ProceedDoes, Typed DEF ghosts
<1>24. \A f \in Flows : Report(f) => Enough(signed'[req'[i].f])
  BY ReportDoes, Typed
<1>25. Pass => Enough(signed'[req'[i].f])
  BY PassDoes, Typed DEF rows, ghosts
<1> QED
  BY <1>1, <1>2, <1>3, <1>4, <1>5, <1>6, <1>7, <1>8, <1>9, <1>10, <1>11, <1>12, <1>13,
     <1>14, <1>15, <1>16, <1>17, <1>18, <1>19, <1>20, <1>21, <1>22, <1>23, <1>24, <1>25
     DEF Next, Arrives

\* Nor queued without.
LEMMA QueueingStep ==
  ASSUME IInv, NEW i \in Requests, req'[i].pc = "commit", req'[i].yes, [Next]_vars
  PROVE  Enough(With(i)')
<1> USE DEF IInv, Signatures, Signing, Once, Unsent, Sending, Shape, ShapeOf, With
<1>1. CASE UNCHANGED vars
  BY <1>1 DEF vars
<1>2. \A r \in Requests : Arrives(r) => Enough(With(i)')
  BY ArrivesDoes, Typed DEF Putting
<1>3. \A r \in Requests : ListDue(r) => Enough(With(i)')
  BY ListDueDoes, Typed DEF Putting, Moved, Kept, Gone, rows, Ticking, IsDue
<1>4. \A r \in Requests : GetSchedule(r) => Enough(With(i)')
  BY GetScheduleDoes, Typed DEF Putting, Moved, Kept, Gone, rows
<1>5. \A r \in Requests : ReadEntry(r) => Enough(With(i)')
  BY ReadEntryDoes, Typed DEF Putting, Moved, Kept, Gone, rows
<1>6. \A r \in Requests : WriteEntry(r) => Enough(With(i)')
  BY WriteEntryDoes, Typed DEF Putting, Gone
<1>7. \A r \in Requests : WriteDelete(r) => Enough(With(i)')
  BY WriteDeleteDoes, Typed DEF Putting, Gone
<1>8. \A r \in Requests : ReadPerm(r) => Enough(With(i)')
  BY ReadPermDoes, Typed DEF Putting, Moved, Kept, Gone, rows, ghosts
<1>9. \A r \in Requests : WritePerm(r) => Enough(With(i)')
  BY WritePermDoes, Typed DEF Putting, Gone, Deciding
<1>10. \A r \in Requests : CheckPerms(r) => Enough(With(i)')
  BY CheckPermsDoes, Typed DEF Putting, Moved, Gone, rows, ghosts
<1>11. \A r \in Requests : Guard(r) => Enough(With(i)')
  BY GuardDoes, Typed DEF Putting, Moved, Kept, Gone, rows
<1>12. \A r \in Requests : Send(r) => Enough(With(i)')
  BY SendDoes, Typed DEF Putting, Gone, rows
<1>13. \A r \in Requests, f \in Flows : Create(r, f) => Enough(With(i)')
  BY CreateDoes, Typed DEF Putting, Gone
<1>14. \A r \in Requests : ReadFlow(r) => Enough(With(i)')
  BY ReadFlowDoes, Typed DEF Putting, Moved, Gone, rows
<1>15. ASSUME NEW r \in Requests, Insert(r)
      PROVE  Enough(With(i)')
  <2> HIDE DEF Signatures, Signing, Once, Unsent, Sending, Shape, ShapeOf, With
  <2>1. CASE i = r
    <3>1. Enough(With(r)) /\ req'[r].f = req[r].f /\ req'[r].u = req[r].u /\ signed' = signed
      BY <1>15, <2>1, InsertDoes DEF Moved, Gone, rows
    <3> QED
      BY <2>1, <3>1 DEF With
  <2>2. CASE i # r
    <3>1. req'[i] = req[i] /\ signed' = signed
      BY <1>15, <2>2, InsertDoes DEF Putting, rows
    <3> QED
      BY <3>1 DEF With, Signatures
  <2> QED
    BY <2>1, <2>2
<1>16. ASSUME NEW r \in Requests, Commit(r)
      PROVE  Enough(With(i)')
  <2> HIDE DEF Signatures, Signing, Once, Unsent, Sending, Shape, ShapeOf, With
  <2>1. i # r
    BY <1>16, CommitDoes DEF Moved, Gone
  <2>2. req'[i] = req[i]
    BY <1>16, <2>1, CommitDoes DEF Putting
  <2>3. req[i].f \in Flows /\ req[i].u \in Users /\ Enough(With(i))
    BY <2>2 DEF Signatures, Shape, ShapeOf, Signing
  <2> QED
    BY <1>16, <2>2, <2>3, CommitKeeps DEF With
<1>17. \A r \in Requests : ReadKill(r) => Enough(With(i)')
  BY ReadKillDoes, Typed DEF Putting, Moved, rows, ghosts
<1>18. \A r \in Requests : WriteKill(r) => Enough(With(i)')
  BY WriteKillDoes, Typed DEF Putting, Gone
<1>19. \A r \in Requests : Die(r) => Enough(With(i)')
  BY DieDoes, Typed DEF Putting, Gone, rows
<1>20. \A p \in Perms : Ask(p) => Enough(With(i)')
  BY AskDoes, Typed DEF ghosts
<1>21. \A f \in Flows, t \in {"PAUSED", "ACTIVE"} : Human(f, t) => Enough(With(i)')
  BY HumanDoes, Typed
<1>22. \A f \in Flows : Deliver(f) => Enough(With(i)')
  BY DeliverDoes, Typed DEF rows, ghosts
<1>23. \A f \in Flows : Proceed(f) => Enough(With(i)')
  BY ProceedDoes, Typed DEF ghosts
<1>24. \A f \in Flows : Report(f) => Enough(With(i)')
  BY ReportDoes, Typed
<1>25. Pass => Enough(With(i)')
  BY PassDoes, Typed DEF rows, ghosts
<1> QED
  BY <1>1, <1>2, <1>3, <1>4, <1>5, <1>6, <1>7, <1>8, <1>9, <1>10, <1>11, <1>12, <1>13,
     <1>14, <1>15, <1>16, <1>17, <1>18, <1>19, <1>20, <1>21, <1>22, <1>23, <1>24, <1>25
     DEF Next, Arrives

\* A signature that will not launch the flow found it launched
LEMMA NotDraftStep ==
  ASSUME IInv, NEW i \in Requests, req'[i].pc = "insert", ~ req'[i].yes, [Next]_vars
  PROVE  flow'[req'[i].f] # "DRAFT"
<1> USE DEF IInv, Signatures, Signing, Once, Unsent, Sending, Shape, ShapeOf
<1>1. CASE UNCHANGED vars
  BY <1>1 DEF vars
<1>2. \A r \in Requests : Arrives(r) => flow'[req'[i].f] # "DRAFT"
  BY ArrivesDoes, Typed DEF Putting
<1>3. \A r \in Requests : ListDue(r) => flow'[req'[i].f] # "DRAFT"
  BY ListDueDoes, Typed DEF Putting, Moved, Kept, Gone, rows, Ticking, IsDue
<1>4. \A r \in Requests : GetSchedule(r) => flow'[req'[i].f] # "DRAFT"
  BY GetScheduleDoes, Typed DEF Putting, Moved, Kept, Gone, rows
<1>5. \A r \in Requests : ReadEntry(r) => flow'[req'[i].f] # "DRAFT"
  BY ReadEntryDoes, Typed DEF Putting, Moved, Kept, Gone, rows
<1>6. \A r \in Requests : WriteEntry(r) => flow'[req'[i].f] # "DRAFT"
  BY WriteEntryDoes, Typed DEF Putting, Gone
<1>7. \A r \in Requests : WriteDelete(r) => flow'[req'[i].f] # "DRAFT"
  BY WriteDeleteDoes, Typed DEF Putting, Gone
<1>8. \A r \in Requests : ReadPerm(r) => flow'[req'[i].f] # "DRAFT"
  BY ReadPermDoes, Typed DEF Putting, Moved, Kept, Gone, rows, ghosts
<1>9. \A r \in Requests : WritePerm(r) => flow'[req'[i].f] # "DRAFT"
  BY WritePermDoes, Typed DEF Putting, Gone, Deciding
<1>10. \A r \in Requests : CheckPerms(r) => flow'[req'[i].f] # "DRAFT"
  BY CheckPermsDoes, Typed DEF Putting, Moved, Gone, rows, ghosts
<1>11. \A r \in Requests : Guard(r) => flow'[req'[i].f] # "DRAFT"
  BY GuardDoes, Typed DEF Putting, Moved, Kept, Gone, rows
<1>12. \A r \in Requests : Send(r) => flow'[req'[i].f] # "DRAFT"
  BY SendDoes, Typed DEF Putting, Gone, rows
<1>13. \A r \in Requests, f \in Flows : Create(r, f) => flow'[req'[i].f] # "DRAFT"
  BY CreateDoes, Typed DEF Putting, Gone
<1>14. \A r \in Requests : ReadFlow(r) => flow'[req'[i].f] # "DRAFT"
  BY ReadFlowDoes, Typed DEF Putting, Moved, Gone, rows
<1>15. \A r \in Requests : Insert(r) => flow'[req'[i].f] # "DRAFT"
  BY InsertDoes, Typed DEF Putting, Moved, Gone, rows
<1>16. \A r \in Requests : Commit(r) => flow'[req'[i].f] # "DRAFT"
  BY CommitDoes, Typed DEF Putting, Moved, Kept, Gone
<1>17. \A r \in Requests : ReadKill(r) => flow'[req'[i].f] # "DRAFT"
  BY ReadKillDoes, Typed DEF Putting, Moved, rows, ghosts
<1>18. \A r \in Requests : WriteKill(r) => flow'[req'[i].f] # "DRAFT"
  BY WriteKillDoes, Typed DEF Putting, Gone
<1>19. \A r \in Requests : Die(r) => flow'[req'[i].f] # "DRAFT"
  BY DieDoes, Typed DEF Putting, Gone, rows
<1>20. \A p \in Perms : Ask(p) => flow'[req'[i].f] # "DRAFT"
  BY AskDoes, Typed DEF ghosts
<1>21. \A f \in Flows, t \in {"PAUSED", "ACTIVE"} : Human(f, t) => flow'[req'[i].f] # "DRAFT"
  BY HumanDoes, Typed
<1>22. \A f \in Flows : Deliver(f) => flow'[req'[i].f] # "DRAFT"
  BY DeliverDoes, Typed DEF rows, ghosts
<1>23. \A f \in Flows : Proceed(f) => flow'[req'[i].f] # "DRAFT"
  BY ProceedDoes, Typed DEF ghosts
<1>24. \A f \in Flows : Report(f) => flow'[req'[i].f] # "DRAFT"
  BY ReportDoes, Typed
<1>25. Pass => flow'[req'[i].f] # "DRAFT"
  BY PassDoes, Typed DEF rows, ghosts
<1> QED
  BY <1>1, <1>2, <1>3, <1>4, <1>5, <1>6, <1>7, <1>8, <1>9, <1>10, <1>11, <1>12, <1>13,
     <1>14, <1>15, <1>16, <1>17, <1>18, <1>19, <1>20, <1>21, <1>22, <1>23, <1>24, <1>25
     DEF Next, Arrives

\* or is not the last.
LEMMA NotLastStep ==
  ASSUME IInv, NEW i \in Requests, req'[i].pc = "commit", ~ req'[i].yes,
         Enough(With(i)'), [Next]_vars
  PROVE  flow'[req'[i].f] # "DRAFT" \/ req'[i].f \in raced'
<1> DEFINE Goal == flow'[req'[i].f] # "DRAFT" \/ req'[i].f \in raced'
<1> USE DEF IInv, Signatures, Signing, Once, Unsent, Sending, Shape, ShapeOf, With
<1>1. UNCHANGED vars => Goal
  BY DEF vars
<1>2. \A r \in Requests : Arrives(r) => Goal
  BY ArrivesDoes, Typed DEF Putting
<1>3. \A r \in Requests : ListDue(r) => Goal
  BY ListDueDoes, Typed DEF Putting, Moved, Kept, Gone, rows, Ticking, IsDue
<1>4. \A r \in Requests : GetSchedule(r) => Goal
  BY GetScheduleDoes, Typed DEF Putting, Moved, Kept, Gone, rows
<1>5. \A r \in Requests : ReadEntry(r) => Goal
  BY ReadEntryDoes, Typed DEF Putting, Moved, Kept, Gone, rows
<1>6. \A r \in Requests : WriteEntry(r) => Goal
  BY WriteEntryDoes, Typed DEF Putting, Gone
<1>7. \A r \in Requests : WriteDelete(r) => Goal
  BY WriteDeleteDoes, Typed DEF Putting, Gone
<1>8. \A r \in Requests : ReadPerm(r) => Goal
  BY ReadPermDoes, Typed DEF Putting, Moved, Kept, Gone, rows, ghosts
<1>9. \A r \in Requests : WritePerm(r) => Goal
  BY WritePermDoes, Typed DEF Putting, Gone, Deciding
<1>10. \A r \in Requests : CheckPerms(r) => Goal
  BY CheckPermsDoes, Typed DEF Putting, Moved, Gone, rows, ghosts
<1>11. \A r \in Requests : Guard(r) => Goal
  BY GuardDoes, Typed DEF Putting, Moved, Kept, Gone, rows
<1>12. \A r \in Requests : Send(r) => Goal
  BY SendDoes, Typed DEF Putting, Gone, rows
<1>13. \A r \in Requests, f \in Flows : Create(r, f) => Goal
  BY CreateDoes, Typed DEF Putting, Gone
<1>14. \A r \in Requests : ReadFlow(r) => Goal
  BY ReadFlowDoes, Typed DEF Putting, Moved, Gone, rows
<1>15. ASSUME NEW r \in Requests, Insert(r)
      PROVE  Goal
  <2> HIDE DEF Signatures, Signing, Once, Unsent, Sending, Shape, ShapeOf, With
  <2>1. CASE i = r
    <3>1. /\ req[r].pc = "insert" /\ req'[r].f = req[r].f /\ req'[r].u = req[r].u
          /\ signed' = signed /\ flow' = flow
          /\ (req'[r].yes <=> req[r].yes /\ Enough(With(r)))
      BY <1>15, <2>1, InsertDoes DEF Moved, Gone, rows
    <3>2. Enough(With(r))
      BY <2>1, <3>1 DEF With
    <3>3. flow[req[r].f] # "DRAFT"
      BY <2>1, <3>1, <3>2 DEF Signatures
    <3> QED
      BY <2>1, <3>1, <3>3
  <2>2. CASE i # r
    <3>1. req'[i] = req[i] /\ signed' = signed /\ flow' = flow /\ raced' = raced
      BY <1>15, <2>2, InsertDoes DEF Putting, rows
    <3> QED
      BY <3>1 DEF With, Signatures
  <2> QED
    BY <2>1, <2>2
<1>16. ASSUME NEW r \in Requests, Commit(r)
      PROVE  Goal
  <2> HIDE DEF Signatures, Signing, Once, Unsent, Sending, Shape, ShapeOf, With
  <2>1. i # r /\ raced' = raced /\ req[r].pc = "commit" /\ req[r].op = "sign"
    BY <1>16, CommitDoes DEF Moved, Gone
  <2>2. req'[i] = req[i] /\ req[i].pc = "commit" /\ ~ req[i].yes
    BY <1>16, <2>1, CommitDoes DEF Putting
  <2>3. req[i].op = "sign" /\ req[i].f \in Flows
    BY <2>2 DEF Shape, ShapeOf, Signing
  <2>4. CASE req[i].f = req[r].f
    <3>1. req[i].f \in raced
      BY <2>1, <2>2, <2>3, <2>4 DEF Once
    <3> QED
      BY <2>1, <2>2, <3>1
  <2>5. CASE req[i].f # req[r].f
    <3>1. signed'[req[i].f] = signed[req[i].f] /\ flow'[req[i].f] = flow[req[i].f]
      BY <1>16, <2>3, <2>5, CommitDoes
    <3>2. Enough(With(i))
      BY <2>2, <3>1 DEF With
    <3> QED
      BY <2>1, <2>2, <3>1, <3>2 DEF Signatures
  <2> QED
    BY <2>4, <2>5
<1>17. \A r \in Requests : ReadKill(r) => Goal
  BY ReadKillDoes, Typed DEF Putting, Moved, rows, ghosts
<1>18. \A r \in Requests : WriteKill(r) => Goal
  BY WriteKillDoes, Typed DEF Putting, Gone
<1>19. \A r \in Requests : Die(r) => Goal
  BY DieDoes, Typed DEF Putting, Gone, rows
<1>20. \A p \in Perms : Ask(p) => Goal
  BY AskDoes, Typed DEF ghosts
<1>21. \A f \in Flows, t \in {"PAUSED", "ACTIVE"} : Human(f, t) => Goal
  BY HumanDoes, Typed
<1>22. \A f \in Flows : Deliver(f) => Goal
  BY DeliverDoes, Typed DEF rows, ghosts
<1>23. \A f \in Flows : Proceed(f) => Goal
  BY ProceedDoes, Typed DEF ghosts
<1>24. \A f \in Flows : Report(f) => Goal
  BY ReportDoes, Typed
<1>25. Pass => Goal
  BY PassDoes, Typed DEF rows, ghosts
<1>26. Goal
  <2> HIDE DEF Goal, IInv, Signatures, Signing, Once, Unsent, Sending, Shape, ShapeOf, With
  <2> QED
    BY <1>1, <1>2, <1>3, <1>4, <1>5, <1>6, <1>7, <1>8, <1>9, <1>10, <1>11, <1>12, <1>13,
       <1>14, <1>15, <1>16, <1>17, <1>18, <1>19, <1>20, <1>21, <1>22, <1>23, <1>24, <1>25
       DEF Next, Arrives
<1> QED
  BY <1>26

\* No flow is born later than now.
LEMMA BornStep ==
  ASSUME IInv, NEW x \in Flows \X (0..MaxNow), x \in born', [Next]_vars
  PROVE  x[2] <= now'
<1> USE DEF IInv, Periods, IsMission, Ticking, Early, After, BornNow, Shape, ShapeOf
<1>1. CASE UNCHANGED vars
  BY <1>1 DEF vars
<1>2. \A r \in Requests : Arrives(r) => x[2] <= now'
  BY ArrivesDoes, Typed DEF Putting
<1>3. \A r \in Requests : ListDue(r) => x[2] <= now'
  BY ListDueDoes, Typed DEF Putting, Moved, Kept, Gone, rows, IsDue
<1>4. \A r \in Requests : GetSchedule(r) => x[2] <= now'
  BY GetScheduleDoes, Typed DEF Putting, Moved, Kept, Gone, rows
<1>5. \A r \in Requests : ReadEntry(r) => x[2] <= now'
  BY ReadEntryDoes, Typed DEF Putting, Moved, Kept, Gone, rows
<1>6. \A r \in Requests : WriteEntry(r) => x[2] <= now'
  BY WriteEntryDoes, Typed DEF Putting, Gone
<1>7. \A r \in Requests : WriteDelete(r) => x[2] <= now'
  BY WriteDeleteDoes, Typed DEF Putting, Gone
<1>8. \A r \in Requests : ReadPerm(r) => x[2] <= now'
  BY ReadPermDoes, Typed DEF Putting, Moved, Kept, Gone, rows, ghosts
<1>9. \A r \in Requests : WritePerm(r) => x[2] <= now'
  BY WritePermDoes, Typed DEF Putting, Gone, Deciding
<1>10. \A r \in Requests : CheckPerms(r) => x[2] <= now'
  BY CheckPermsDoes, Typed DEF Putting, Moved, Gone, rows, ghosts
<1>11. \A r \in Requests : Guard(r) => x[2] <= now'
  BY GuardDoes, Typed DEF Putting, Moved, Kept, Gone, rows
<1>12. \A r \in Requests : Send(r) => x[2] <= now'
  BY SendDoes, Typed DEF Putting, Gone, rows
<1>13. \A r \in Requests, f \in Flows : Create(r, f) => x[2] <= now'
  BY CreateDoes, Typed DEF Putting, Gone
<1>14. \A r \in Requests : ReadFlow(r) => x[2] <= now'
  BY ReadFlowDoes, Typed DEF Putting, Moved, Gone, rows
<1>15. \A r \in Requests : Insert(r) => x[2] <= now'
  BY InsertDoes, Typed DEF Putting, Moved, Gone, rows
<1>16. \A r \in Requests : Commit(r) => x[2] <= now'
  BY CommitDoes, Typed DEF Putting, Moved, Kept, Gone
<1>17. \A r \in Requests : ReadKill(r) => x[2] <= now'
  BY ReadKillDoes, Typed DEF Putting, Moved, rows, ghosts
<1>18. \A r \in Requests : WriteKill(r) => x[2] <= now'
  BY WriteKillDoes, Typed DEF Putting, Gone
<1>19. \A r \in Requests : Die(r) => x[2] <= now'
  BY DieDoes, Typed DEF Putting, Gone, rows
<1>20. \A p \in Perms : Ask(p) => x[2] <= now'
  BY AskDoes, Typed DEF ghosts
<1>21. \A f \in Flows, t \in {"PAUSED", "ACTIVE"} : Human(f, t) => x[2] <= now'
  BY HumanDoes, Typed
<1>22. \A f \in Flows : Deliver(f) => x[2] <= now'
  BY DeliverDoes, Typed DEF rows, ghosts
<1>23. \A f \in Flows : Proceed(f) => x[2] <= now'
  BY ProceedDoes, Typed DEF ghosts
<1>24. \A f \in Flows : Report(f) => x[2] <= now'
  BY ReportDoes, Typed
<1>25. Pass => x[2] <= now'
  BY PassDoes, Typed DEF rows, ghosts
<1> QED
  BY <1>1, <1>2, <1>3, <1>4, <1>5, <1>6, <1>7, <1>8, <1>9, <1>10, <1>11, <1>12, <1>13,
     <1>14, <1>15, <1>16, <1>17, <1>18, <1>19, <1>20, <1>21, <1>22, <1>23, <1>24, <1>25
     DEF Next, Arrives

\* Two ticks past the look at the schedule found it due together.
LEMMA TicksStep ==
  ASSUME IInv, NEW i \in Requests, NEW j \in Requests, i # j,
         Ticking(i)', Ticking(j)', [Next]_vars
  PROVE  "tick" \in raced'
<1> USE DEF IInv, Periods, IsMission, Ticking, Early, After, BornNow, Shape, ShapeOf
<1>1. CASE UNCHANGED vars
  BY <1>1 DEF vars
<1>2. \A r \in Requests : Arrives(r) => "tick" \in raced'
  BY ArrivesDoes, Typed DEF Putting
<1>3. \A r \in Requests : ListDue(r) => "tick" \in raced'
  BY ListDueDoes, Typed DEF Putting, Moved, Kept, Gone, rows, IsDue
<1>4. \A r \in Requests : GetSchedule(r) => "tick" \in raced'
  BY GetScheduleDoes, Typed DEF Putting, Moved, Kept, Gone, rows
<1>5. \A r \in Requests : ReadEntry(r) => "tick" \in raced'
  BY ReadEntryDoes, Typed DEF Putting, Moved, Kept, Gone, rows
<1>6. \A r \in Requests : WriteEntry(r) => "tick" \in raced'
  BY WriteEntryDoes, Typed DEF Putting, Gone
<1>7. \A r \in Requests : WriteDelete(r) => "tick" \in raced'
  BY WriteDeleteDoes, Typed DEF Putting, Gone
<1>8. \A r \in Requests : ReadPerm(r) => "tick" \in raced'
  BY ReadPermDoes, Typed DEF Putting, Moved, Kept, Gone, rows, ghosts
<1>9. \A r \in Requests : WritePerm(r) => "tick" \in raced'
  BY WritePermDoes, Typed DEF Putting, Gone, Deciding
<1>10. \A r \in Requests : CheckPerms(r) => "tick" \in raced'
  BY CheckPermsDoes, Typed DEF Putting, Moved, Gone, rows, ghosts
<1>11. \A r \in Requests : Guard(r) => "tick" \in raced'
  BY GuardDoes, Typed DEF Putting, Moved, Kept, Gone, rows
<1>12. \A r \in Requests : Send(r) => "tick" \in raced'
  BY SendDoes, Typed DEF Putting, Gone, rows
<1>13. \A r \in Requests, f \in Flows : Create(r, f) => "tick" \in raced'
  BY CreateDoes, Typed DEF Putting, Gone
<1>14. \A r \in Requests : ReadFlow(r) => "tick" \in raced'
  BY ReadFlowDoes, Typed DEF Putting, Moved, Gone, rows
<1>15. \A r \in Requests : Insert(r) => "tick" \in raced'
  BY InsertDoes, Typed DEF Putting, Moved, Gone, rows
<1>16. \A r \in Requests : Commit(r) => "tick" \in raced'
  BY CommitDoes, Typed DEF Putting, Moved, Kept, Gone
<1>17. \A r \in Requests : ReadKill(r) => "tick" \in raced'
  BY ReadKillDoes, Typed DEF Putting, Moved, rows, ghosts
<1>18. \A r \in Requests : WriteKill(r) => "tick" \in raced'
  BY WriteKillDoes, Typed DEF Putting, Gone
<1>19. \A r \in Requests : Die(r) => "tick" \in raced'
  BY DieDoes, Typed DEF Putting, Gone, rows
<1>20. \A p \in Perms : Ask(p) => "tick" \in raced'
  BY AskDoes, Typed DEF ghosts
<1>21. \A f \in Flows, t \in {"PAUSED", "ACTIVE"} : Human(f, t) => "tick" \in raced'
  BY HumanDoes, Typed
<1>22. \A f \in Flows : Deliver(f) => "tick" \in raced'
  BY DeliverDoes, Typed DEF rows, ghosts
<1>23. \A f \in Flows : Proceed(f) => "tick" \in raced'
  BY ProceedDoes, Typed DEF ghosts
<1>24. \A f \in Flows : Report(f) => "tick" \in raced'
  BY ReportDoes, Typed
<1>25. Pass => "tick" \in raced'
  BY PassDoes, Typed DEF rows, ghosts
<1> QED
  BY <1>1, <1>2, <1>3, <1>4, <1>5, <1>6, <1>7, <1>8, <1>9, <1>10, <1>11, <1>12, <1>13,
     <1>14, <1>15, <1>16, <1>17, <1>18, <1>19, <1>20, <1>21, <1>22, <1>23, <1>24, <1>25
     DEF Next, Arrives

\* Before a tick launches, nothing was in this period.
LEMMA EarlyStep ==
  ASSUME IInv, NEW i \in Requests, Early(i)', now' \notin moved',
         raced' \cap {"tick", "mission"} = {}, [Next]_vars
  PROVE  ~ BornNow'
<1> USE DEF IInv, Periods, IsMission, Ticking, Early, After, BornNow, Shape, ShapeOf
<1>1. CASE UNCHANGED vars
  BY <1>1 DEF vars
<1>2. \A r \in Requests : Arrives(r) => ~ BornNow'
  BY ArrivesDoes, Typed DEF Putting
<1>3. \A r \in Requests : ListDue(r) => ~ BornNow'
  BY ListDueDoes, Typed DEF Putting, Moved, Kept, Gone, rows, IsDue
<1>4. \A r \in Requests : GetSchedule(r) => ~ BornNow'
  BY GetScheduleDoes, Typed DEF Putting, Moved, Kept, Gone, rows
<1>5. \A r \in Requests : ReadEntry(r) => ~ BornNow'
  BY ReadEntryDoes, Typed DEF Putting, Moved, Kept, Gone, rows
<1>6. \A r \in Requests : WriteEntry(r) => ~ BornNow'
  BY WriteEntryDoes, Typed DEF Putting, Gone
<1>7. \A r \in Requests : WriteDelete(r) => ~ BornNow'
  BY WriteDeleteDoes, Typed DEF Putting, Gone
<1>8. \A r \in Requests : ReadPerm(r) => ~ BornNow'
  BY ReadPermDoes, Typed DEF Putting, Moved, Kept, Gone, rows, ghosts
<1>9. \A r \in Requests : WritePerm(r) => ~ BornNow'
  BY WritePermDoes, Typed DEF Putting, Gone, Deciding
<1>10. \A r \in Requests : CheckPerms(r) => ~ BornNow'
  BY CheckPermsDoes, Typed DEF Putting, Moved, Gone, rows, ghosts
<1>11. \A r \in Requests : Guard(r) => ~ BornNow'
  BY GuardDoes, Typed DEF Putting, Moved, Kept, Gone, rows
<1>12. \A r \in Requests : Send(r) => ~ BornNow'
  BY SendDoes, Typed DEF Putting, Gone, rows
<1>13. \A r \in Requests, f \in Flows : Create(r, f) => ~ BornNow'
  BY CreateDoes, Typed DEF Putting, Gone
<1>14. \A r \in Requests : ReadFlow(r) => ~ BornNow'
  BY ReadFlowDoes, Typed DEF Putting, Moved, Gone, rows
<1>15. \A r \in Requests : Insert(r) => ~ BornNow'
  BY InsertDoes, Typed DEF Putting, Moved, Gone, rows
<1>16. \A r \in Requests : Commit(r) => ~ BornNow'
  BY CommitDoes, Typed DEF Putting, Moved, Kept, Gone
<1>17. \A r \in Requests : ReadKill(r) => ~ BornNow'
  BY ReadKillDoes, Typed DEF Putting, Moved, rows, ghosts
<1>18. \A r \in Requests : WriteKill(r) => ~ BornNow'
  BY WriteKillDoes, Typed DEF Putting, Gone
<1>19. \A r \in Requests : Die(r) => ~ BornNow'
  BY DieDoes, Typed DEF Putting, Gone, rows
<1>20. \A p \in Perms : Ask(p) => ~ BornNow'
  BY AskDoes, Typed DEF ghosts
<1>21. \A f \in Flows, t \in {"PAUSED", "ACTIVE"} : Human(f, t) => ~ BornNow'
  BY HumanDoes, Typed
<1>22. \A f \in Flows : Deliver(f) => ~ BornNow'
  BY DeliverDoes, Typed DEF rows, ghosts
<1>23. \A f \in Flows : Proceed(f) => ~ BornNow'
  BY ProceedDoes, Typed DEF ghosts
<1>24. \A f \in Flows : Report(f) => ~ BornNow'
  BY ReportDoes, Typed
<1>25. Pass => ~ BornNow'
  BY PassDoes, Typed DEF rows, ghosts
<1> QED
  BY <1>1, <1>2, <1>3, <1>4, <1>5, <1>6, <1>7, <1>8, <1>9, <1>10, <1>11, <1>12, <1>13,
     <1>14, <1>15, <1>16, <1>17, <1>18, <1>19, <1>20, <1>21, <1>22, <1>23, <1>24, <1>25
     DEF Next, Arrives

\* After it has, the mission is due in the next one, or will be.
LEMMA MovedOnStep ==
  ASSUME IInv, now' \notin moved', raced' \cap {"tick", "mission"} = {}, BornNow',
         [Next]_vars
  PROVE  \/ mission'.next > now' \/ ~ mission'.exists
         \/ \E j \in Requests : After(j)'
<1> DEFINE Goal == \/ mission'.next > now' \/ ~ mission'.exists
                    \/ \E j \in Requests : After(j)'
<1> USE DEF IInv, Periods, IsMission, Ticking, Early, After, BornNow, Shape, ShapeOf
<1>1. CASE UNCHANGED vars
  BY <1>1 DEF vars
<1>2. \A r \in Requests : Arrives(r) => Goal
  BY ArrivesDoes, Typed DEF Putting
<1>3. \A r \in Requests : ListDue(r) => Goal
  BY ListDueDoes, Typed DEF Putting, Moved, Kept, Gone, rows, IsDue
<1>4. \A r \in Requests : GetSchedule(r) => Goal
  BY GetScheduleDoes, Typed DEF Putting, Moved, Kept, Gone, rows
<1>5. \A r \in Requests : ReadEntry(r) => Goal
  BY ReadEntryDoes, Typed DEF Putting, Moved, Kept, Gone, rows
<1>6. \A r \in Requests : WriteEntry(r) => Goal
  BY WriteEntryDoes, Typed DEF Putting, Gone
<1>7. \A r \in Requests : WriteDelete(r) => Goal
  BY WriteDeleteDoes, Typed DEF Putting, Gone
<1>8. \A r \in Requests : ReadPerm(r) => Goal
  BY ReadPermDoes, Typed DEF Putting, Moved, Kept, Gone, rows, ghosts
<1>9. \A r \in Requests : WritePerm(r) => Goal
  BY WritePermDoes, Typed DEF Putting, Gone, Deciding
<1>10. \A r \in Requests : CheckPerms(r) => Goal
  BY CheckPermsDoes, Typed DEF Putting, Moved, Gone, rows, ghosts
<1>11. \A r \in Requests : Guard(r) => Goal
  BY GuardDoes, Typed DEF Putting, Moved, Kept, Gone, rows
<1>12. \A r \in Requests : Send(r) => Goal
  BY SendDoes, Typed DEF Putting, Gone, rows
<1>13. ASSUME NEW r \in Requests, NEW f \in Flows, Create(r, f)
      PROVE  Goal
  <2> HIDE DEF Periods, IsMission, Ticking, Early, After, BornNow, Shape, ShapeOf
  <2>1. mission' = mission /\ now' = now /\ req[r].pc = "create"
    BY <1>13, CreateDoes
  <2>2. CASE req[r].op = "tick"
    BY <1>13, <2>1, <2>2, CreateDoes DEF After, Gone, IsMission
  <2>3. CASE req[r].op # "tick"
    <3>1. BornNow /\ now \notin moved /\ raced \cap {"tick", "mission"} = {}
      BY <1>13, <2>3, CreateDoes DEF BornNow
    <3>2. \A j \in Requests : After(j) => After(j)'
      BY <1>13, <2>1, CreateDoes DEF After, Putting
    <3> QED
      BY <2>1, <3>1, <3>2 DEF Periods
  <2> QED
    BY <2>2, <2>3
<1>14. \A r \in Requests : ReadFlow(r) => Goal
  BY ReadFlowDoes, Typed DEF Putting, Moved, Gone, rows
<1>15. \A r \in Requests : Insert(r) => Goal
  BY InsertDoes, Typed DEF Putting, Moved, Gone, rows
<1>16. \A r \in Requests : Commit(r) => Goal
  BY CommitDoes, Typed DEF Putting, Moved, Kept, Gone
<1>17. \A r \in Requests : ReadKill(r) => Goal
  BY ReadKillDoes, Typed DEF Putting, Moved, rows, ghosts
<1>18. \A r \in Requests : WriteKill(r) => Goal
  BY WriteKillDoes, Typed DEF Putting, Gone
<1>19. \A r \in Requests : Die(r) => Goal
  BY DieDoes, Typed DEF Putting, Gone, rows
<1>20. \A p \in Perms : Ask(p) => Goal
  BY AskDoes, Typed DEF ghosts
<1>21. \A f \in Flows, t \in {"PAUSED", "ACTIVE"} : Human(f, t) => Goal
  BY HumanDoes, Typed
<1>22. \A f \in Flows : Deliver(f) => Goal
  BY DeliverDoes, Typed DEF rows, ghosts
<1>23. \A f \in Flows : Proceed(f) => Goal
  BY ProceedDoes, Typed DEF ghosts
<1>24. \A f \in Flows : Report(f) => Goal
  BY ReportDoes, Typed
<1>25. Pass => Goal
  BY PassDoes, Typed DEF rows, ghosts
<1> QED
  BY <1>1, <1>2, <1>3, <1>4, <1>5, <1>6, <1>7, <1>8, <1>9, <1>10, <1>11, <1>12, <1>13,
     <1>14, <1>15, <1>16, <1>17, <1>18, <1>19, <1>20, <1>21, <1>22, <1>23, <1>24, <1>25
     DEF Next, Arrives

\* A mission is launched once per period.
LEMMA PeriodStep ==
  ASSUME IInv, NEW x \in born', NEW y \in born', x[2] = y[2], [Next]_vars
  PROVE  x = y \/ x[2] \in moved' \/ raced' \cap {"tick", "mission"} # {}
<1> DEFINE Goal == x = y \/ x[2] \in moved' \/ raced' \cap {"tick", "mission"} # {}
<1> USE DEF IInv, Periods, IsMission, Ticking, Early, After, BornNow, Shape, ShapeOf,
   MissionOncePerPeriod
<1>1. CASE UNCHANGED vars
  BY <1>1 DEF vars
<1>2. \A r \in Requests : Arrives(r) => Goal
  BY ArrivesDoes, Typed DEF Putting
<1>3. \A r \in Requests : ListDue(r) => Goal
  BY ListDueDoes, Typed DEF Putting, Moved, Kept, Gone, rows, IsDue
<1>4. \A r \in Requests : GetSchedule(r) => Goal
  BY GetScheduleDoes, Typed DEF Putting, Moved, Kept, Gone, rows
<1>5. \A r \in Requests : ReadEntry(r) => Goal
  BY ReadEntryDoes, Typed DEF Putting, Moved, Kept, Gone, rows
<1>6. \A r \in Requests : WriteEntry(r) => Goal
  BY WriteEntryDoes, Typed DEF Putting, Gone
<1>7. \A r \in Requests : WriteDelete(r) => Goal
  BY WriteDeleteDoes, Typed DEF Putting, Gone
<1>8. \A r \in Requests : ReadPerm(r) => Goal
  BY ReadPermDoes, Typed DEF Putting, Moved, Kept, Gone, rows, ghosts
<1>9. \A r \in Requests : WritePerm(r) => Goal
  BY WritePermDoes, Typed DEF Putting, Gone, Deciding
<1>10. \A r \in Requests : CheckPerms(r) => Goal
  BY CheckPermsDoes, Typed DEF Putting, Moved, Gone, rows, ghosts
<1>11. \A r \in Requests : Guard(r) => Goal
  BY GuardDoes, Typed DEF Putting, Moved, Kept, Gone, rows
<1>12. \A r \in Requests : Send(r) => Goal
  BY SendDoes, Typed DEF Putting, Gone, rows
<1>13. \A r \in Requests, f \in Flows : Create(r, f) => Goal
  BY CreateDoes, Typed DEF Putting, Gone
<1>14. \A r \in Requests : ReadFlow(r) => Goal
  BY ReadFlowDoes, Typed DEF Putting, Moved, Gone, rows
<1>15. \A r \in Requests : Insert(r) => Goal
  BY InsertDoes, Typed DEF Putting, Moved, Gone, rows
<1>16. \A r \in Requests : Commit(r) => Goal
  BY CommitDoes, Typed DEF Putting, Moved, Kept, Gone
<1>17. \A r \in Requests : ReadKill(r) => Goal
  BY ReadKillDoes, Typed DEF Putting, Moved, rows, ghosts
<1>18. \A r \in Requests : WriteKill(r) => Goal
  BY WriteKillDoes, Typed DEF Putting, Gone
<1>19. \A r \in Requests : Die(r) => Goal
  BY DieDoes, Typed DEF Putting, Gone, rows
<1>20. \A p \in Perms : Ask(p) => Goal
  BY AskDoes, Typed DEF ghosts
<1>21. \A f \in Flows, t \in {"PAUSED", "ACTIVE"} : Human(f, t) => Goal
  BY HumanDoes, Typed
<1>22. \A f \in Flows : Deliver(f) => Goal
  BY DeliverDoes, Typed DEF rows, ghosts
<1>23. \A f \in Flows : Proceed(f) => Goal
  BY ProceedDoes, Typed DEF ghosts
<1>24. \A f \in Flows : Report(f) => Goal
  BY ReportDoes, Typed
<1>25. Pass => Goal
  BY PassDoes, Typed DEF rows, ghosts
<1> QED
  BY <1>1, <1>2, <1>3, <1>4, <1>5, <1>6, <1>7, <1>8, <1>9, <1>10, <1>11, <1>12, <1>13,
     <1>14, <1>15, <1>16, <1>17, <1>18, <1>19, <1>20, <1>21, <1>22, <1>23, <1>24, <1>25
     DEF Next, Arrives

\* The switch is kept.
LEMMA SwitchStep ==
  ASSUME IInv, [Next]_vars
  PROVE  (mission'.enabled <=> wanted') \/ "mission" \in raced'
<1> DEFINE Goal == (mission'.enabled <=> wanted') \/ "mission" \in raced'
<1> USE DEF IInv, SwitchIsKept, TypeOK, Row
<1>1. CASE UNCHANGED vars
  BY <1>1 DEF vars
<1>2. \A r \in Requests : Arrives(r) => Goal
  BY ArrivesDoes DEF Putting
<1>3. \A r \in Requests : ListDue(r) => Goal
  BY ListDueDoes DEF Putting, Moved, Kept, Gone, rows, Ticking, IsDue
<1>4. \A r \in Requests : GetSchedule(r) => Goal
  BY GetScheduleDoes DEF Putting, Moved, Kept, Gone, rows
<1>5. \A r \in Requests : ReadEntry(r) => Goal
  BY ReadEntryDoes DEF Putting, Moved, Kept, Gone, rows
<1>6. \A r \in Requests : WriteEntry(r) => Goal
  BY WriteEntryDoes DEF Putting, Gone
<1>7. \A r \in Requests : WriteDelete(r) => Goal
  BY WriteDeleteDoes DEF Putting, Gone
<1>8. \A r \in Requests : ReadPerm(r) => Goal
  BY ReadPermDoes DEF Putting, Moved, Kept, Gone, rows, ghosts
<1>9. \A r \in Requests : WritePerm(r) => Goal
  BY WritePermDoes DEF Putting, Gone, Deciding
<1>10. \A r \in Requests : CheckPerms(r) => Goal
  BY CheckPermsDoes DEF Putting, Moved, Gone, rows, ghosts
<1>11. \A r \in Requests : Guard(r) => Goal
  BY GuardDoes DEF Putting, Moved, Kept, Gone, rows
<1>12. \A r \in Requests : Send(r) => Goal
  BY SendDoes DEF Putting, Gone, rows
<1>13. \A r \in Requests, f \in Flows : Create(r, f) => Goal
  BY CreateDoes DEF Putting, Gone
<1>14. \A r \in Requests : ReadFlow(r) => Goal
  BY ReadFlowDoes DEF Putting, Moved, Gone, rows
<1>15. \A r \in Requests : Insert(r) => Goal
  BY InsertDoes DEF Putting, Moved, Gone, rows
<1>16. \A r \in Requests : Commit(r) => Goal
  BY CommitDoes DEF Putting, Moved, Kept, Gone
<1>17. \A r \in Requests : ReadKill(r) => Goal
  BY ReadKillDoes DEF Putting, Moved, rows, ghosts
<1>18. \A r \in Requests : WriteKill(r) => Goal
  BY WriteKillDoes DEF Putting, Gone
<1>19. \A r \in Requests : Die(r) => Goal
  BY DieDoes DEF Putting, Gone, rows
<1>20. \A p \in Perms : Ask(p) => Goal
  BY AskDoes DEF ghosts
<1>21. \A f \in Flows, t \in {"PAUSED", "ACTIVE"} : Human(f, t) => Goal
  BY HumanDoes
<1>22. \A f \in Flows : Deliver(f) => Goal
  BY DeliverDoes DEF rows, ghosts
<1>23. \A f \in Flows : Proceed(f) => Goal
  BY ProceedDoes DEF ghosts
<1>24. \A f \in Flows : Report(f) => Goal
  BY ReportDoes
<1>25. Pass => Goal
  BY PassDoes DEF rows, ghosts
<1> QED
  BY <1>1, <1>2, <1>3, <1>4, <1>5, <1>6, <1>7, <1>8, <1>9, <1>10, <1>11, <1>12, <1>13,
     <1>14, <1>15, <1>16, <1>17, <1>18, <1>19, <1>20, <1>21, <1>22, <1>23, <1>24, <1>25
     DEF Next, Arrives

\* An aborted flow stays so.
LEMMA AbortedStep ==
  ASSUME IInv, NEW g \in Flows, flow[g] = "ABORTED", flow'[g] # "ABORTED", [Next]_vars
  PROVE  g \in raced'
<1> USE DEF IInv, Closing, Closed, Signing
<1>1. CASE UNCHANGED vars
  BY <1>1 DEF vars
<1>2. \A r \in Requests : Arrives(r) => g \in raced'
  BY ArrivesDoes, Typed DEF Putting
<1>3. \A r \in Requests : ListDue(r) => g \in raced'
  BY ListDueDoes, Typed DEF Putting, Moved, Kept, Gone, rows, Ticking, IsDue
<1>4. \A r \in Requests : GetSchedule(r) => g \in raced'
  BY GetScheduleDoes, Typed DEF Putting, Moved, Kept, Gone, rows
<1>5. \A r \in Requests : ReadEntry(r) => g \in raced'
  BY ReadEntryDoes, Typed DEF Putting, Moved, Kept, Gone, rows
<1>6. \A r \in Requests : WriteEntry(r) => g \in raced'
  BY WriteEntryDoes, Typed DEF Putting, Gone
<1>7. \A r \in Requests : WriteDelete(r) => g \in raced'
  BY WriteDeleteDoes, Typed DEF Putting, Gone
<1>8. \A r \in Requests : ReadPerm(r) => g \in raced'
  BY ReadPermDoes, Typed DEF Putting, Moved, Kept, Gone, rows, ghosts
<1>9. \A r \in Requests : WritePerm(r) => g \in raced'
  BY WritePermDoes, Typed DEF Putting, Gone, Deciding
<1>10. \A r \in Requests : CheckPerms(r) => g \in raced'
  BY CheckPermsDoes, Typed DEF Putting, Moved, Gone, rows, ghosts
<1>11. \A r \in Requests : Guard(r) => g \in raced'
  BY GuardDoes, Typed DEF Putting, Moved, Kept, Gone, rows
<1>12. \A r \in Requests : Send(r) => g \in raced'
  BY SendDoes, Typed DEF Putting, Gone, rows
<1>13. \A r \in Requests, f \in Flows : Create(r, f) => g \in raced'
  BY CreateDoes, Typed DEF Putting, Gone
<1>14. \A r \in Requests : ReadFlow(r) => g \in raced'
  BY ReadFlowDoes, Typed DEF Putting, Moved, Gone, rows
<1>15. \A r \in Requests : Insert(r) => g \in raced'
  BY InsertDoes, Typed DEF Putting, Moved, Gone, rows
<1>16. \A r \in Requests : Commit(r) => g \in raced'
  BY CommitDoes, Typed DEF Putting, Moved, Kept, Gone
<1>17. \A r \in Requests : ReadKill(r) => g \in raced'
  BY ReadKillDoes, Typed DEF Putting, Moved, rows, ghosts
<1>18. \A r \in Requests : WriteKill(r) => g \in raced'
  BY WriteKillDoes, Typed DEF Putting, Gone
<1>19. \A r \in Requests : Die(r) => g \in raced'
  BY DieDoes, Typed DEF Putting, Gone, rows
<1>20. \A p \in Perms : Ask(p) => g \in raced'
  BY AskDoes, Typed DEF ghosts
<1>21. \A f \in Flows, t \in {"PAUSED", "ACTIVE"} : Human(f, t) => g \in raced'
  BY HumanDoes, Typed
<1>22. \A f \in Flows : Deliver(f) => g \in raced'
  BY DeliverDoes, Typed DEF rows, ghosts
<1>23. \A f \in Flows : Proceed(f) => g \in raced'
  BY ProceedDoes, Typed DEF ghosts
<1>24. \A f \in Flows : Report(f) => g \in raced'
  BY ReportDoes, Typed
<1>25. Pass => g \in raced'
  BY PassDoes, Typed DEF rows, ghosts
<1> QED
  BY <1>1, <1>2, <1>3, <1>4, <1>5, <1>6, <1>7, <1>8, <1>9, <1>10, <1>11, <1>12, <1>13,
     <1>14, <1>15, <1>16, <1>17, <1>18, <1>19, <1>20, <1>21, <1>22, <1>23, <1>24, <1>25
     DEF Next, Arrives

-----------------------------------------------------------------------------
\* The invariant.

LEMMA Starts ==
  ASSUME Init
  PROVE  IInv
<1>0. /\ Idle \in ReqFull /\ Idle.pc = "idle" /\ Idle.op = "none" /\ NoRow \in Row
      /\ ~ NoRow.enabled
  BY IdleFull DEF NoRow
<1>1. mission \in Row /\ mission.enabled \in BOOLEAN /\ wanted = mission.enabled
  <2>1. wanted = mission.enabled
    BY DEF Init
  <2>2. CASE mission = NoRow
    BY <1>0, <2>1, <2>2 DEF Row
  <2>3. CASE mission \in [exists : {TRUE}, enabled : {TRUE}, next : {0}, linked : BOOLEAN]
    <3>1. 0 \in 0..(MaxNow + 1)
      BY LaunchAssumption
    <3>2. mission \in Row
      BY <2>3, <3>1 DEF Row
    <3>3. mission.enabled \in BOOLEAN
      BY <3>2 DEF Row
    <3> QED
      BY <2>1, <3>2, <3>3
  <2> QED
    BY <2>2, <2>3 DEF Init
<1>2. \A r \in Requests : req[r].pc = "idle" /\ req[r].op = "none"
  BY <1>0 DEF Init
<1>3. mix.calls \in Nat
  BY LaunchAssumption DEF Init
<1>4. TypeOK
  <2>1. req \in [Requests -> ReqFull]
    BY <1>0 DEF Init
  <2>2. now \in 0..MaxNow /\ calls \in 0..mix.calls /\ faults \in 0..MaxFaults
    BY <1>3, LaunchAssumption DEF Init
  <2> QED
    BY <1>1, <2>1, <2>2 DEF Init, TypeOK, ReqFull, FlowStatus, PermStatus
<1>5. Shape /\ Permissions /\ LaunchIsPermitted /\ Closing
  BY <1>2 DEF Init, Shape, ShapeOf, Launching, Signing, Permissions, Deciding,
     LaunchIsPermitted, Closing
<1>6. Guarded /\ NoTwinFlows
  BY <1>2 DEF Init, Guarded, NoTwinFlows
<1>7. Once
  BY <1>2 DEF Init, Once, Unsent, Sending, Signing
<1>8. Signatures
  BY <1>2 DEF Init, Signatures
<1>9. Periods /\ MissionOncePerPeriod
  BY <1>2 DEF Init, Periods, Ticking, Early, After, BornNow, MissionOncePerPeriod
<1>10. SwitchIsKept
  BY <1>1 DEF SwitchIsKept
<1> QED
  BY <1>4, <1>5, <1>6, <1>7, <1>8, <1>9, <1>10 DEF IInv

LEMMA KeepsParts ==
  ASSUME IInv, [Next]_vars
  PROVE  /\ TypeOK' /\ Shape' /\ Permissions' /\ LaunchIsPermitted' /\ Closing'
         /\ Guarded' /\ NoTwinFlows'
<1>1. TypeOK'
  BY TypeStep
<1>2. Shape'
  BY ShapeStep DEF Shape
<1>3. Permissions'
  <2>1. ASSUME NEW i \in Requests, Launching(i)', NEW q \in (req[i].seen)' PROVE Granted(q)'
    <3>1. q \in Perms
      BY <1>2, <2>1 DEF Shape, ShapeOf
    <3> QED
      BY <2>1, <3>1, GrantedStep
  <2> QED
    BY <2>1, DecidingStep DEF Permissions
<1>4. LaunchIsPermitted'
  BY <1>1, PermittedStep DEF LaunchIsPermitted, TypeOK
<1>5. Closing'
  <2>1. \A g \in busy' : g \in Flows
    BY <1>1 DEF TypeOK
  <2> QED
    BY <2>1, BusyStep, SigningStep DEF Closing
<1>6. \A g \in linked' : g \in Flows
  BY <1>1 DEF TypeOK
<1>7. Guarded'
  BY <1>6, LinkedStep, FoundStep, AloneStep DEF Guarded
<1>8. NoTwinFlows'
  BY <1>6, TwinsStep DEF NoTwinFlows
<1> QED
  BY <1>1, <1>2, <1>3, <1>4, <1>5, <1>7, <1>8

LEMMA KeepsOnce ==
  ASSUME IInv, [Next]_vars
  PROVE  Once' /\ Signatures'
<1>1. Once'
  BY UnsentStep, LateStep, LaunchingStep, SendingStep, SentStep DEF Once
<1>2. Signatures'
  BY EnoughStep, DraftStep, PublishingStep, QueueingStep, NotDraftStep, NotLastStep
     DEF Signatures
<1> QED
  BY <1>1, <1>2

LEMMA KeepsPeriods ==
  ASSUME IInv, [Next]_vars
  PROVE  Periods' /\ MissionOncePerPeriod' /\ SwitchIsKept'
<1>1. TypeOK'
  BY TypeStep
<1>2. \A x \in born' : x \in Flows \X (0..MaxNow)
  BY <1>1 DEF TypeOK
<1>3. Periods'
  BY <1>2, BornStep, TicksStep, EarlyStep, MovedOnStep DEF Periods
<1>4. MissionOncePerPeriod'
  BY PeriodStep DEF MissionOncePerPeriod
<1>5. SwitchIsKept'
  <2>1. (mission.enabled)' \in BOOLEAN /\ wanted' \in BOOLEAN
    BY <1>1 DEF TypeOK, Row
  <2> QED
    BY <2>1, SwitchStep DEF SwitchIsKept
<1> QED
  BY <1>3, <1>4, <1>5

LEMMA Always == Spec => []IInv
<1>1. Init => IInv
  BY Starts
<1>2. IInv /\ [Next]_vars => IInv'
  BY KeepsParts, KeepsOnce, KeepsPeriods DEF IInv
<1> QED
  BY <1>1, <1>2, PTL DEF Spec

-----------------------------------------------------------------------------
\* Every variable keeps its type, whatever the calls and the faults.
THEOREM TypeCorrect == Spec => []TypeOK
<1>1. IInv => TypeOK
  BY DEF IInv
<1> QED
  BY <1>1, Always, PTL

\* A flow is launched when it has its signatures and once, and a flow that has
\* them does not stay a draft, but for two late signatures that overlap.
THEOREM LaunchedOnce == Spec => []LaunchedOnceSigned
<1>1. IInv => LaunchedOnceSigned
  BY DEF IInv, LaunchedOnceSigned, Once, Signatures, Enough
<1> QED
  BY <1>1, Always, PTL

\* Two flows of a direction are open only after two launches that overlapped,
\* or when one was reopened.
THEOREM NoTwins == Spec => []NoTwinFlows
<1>1. IInv => NoTwinFlows
  BY DEF IInv
<1> QED
  BY <1>1, Always, PTL

\* What a flow was launched with stays permitted.
THEOREM PermittedLaunches == Spec => []LaunchIsPermitted
<1>1. IInv => LaunchIsPermitted
  BY DEF IInv
<1> QED
  BY <1>1, Always, PTL

\* Ticks that do not overlap, die or lose their update launch a mission once
\* per period, unless an edit in that period made it due again.
THEOREM OncePerPeriod == Spec => []MissionOncePerPeriod
<1>1. IInv => MissionOncePerPeriod
  BY DEF IInv
<1> QED
  BY <1>1, Always, PTL

\* A mission stays off once it is switched off, but for a lost update.
THEOREM SwitchKept == Spec => []SwitchIsKept
<1>1. IInv => SwitchIsKept
  BY DEF IInv
<1> QED
  BY <1>1, Always, PTL

\* Only a late signature, a worker that was executing a task of it or a human
\* brings an aborted flow back.
THEOREM AbortedForGood == Spec => AbortedStays
<1>1. IInv /\ [Next]_vars =>
        [\A f \in Flows :
           flow[f] = "ABORTED" /\ flow'[f] # "ABORTED" => f \in raced']_vars
  BY AbortedStep
<1> QED
  BY <1>1, Always, PTL DEF Spec, AbortedStays

=============================================================================
