------------------------------- MODULE Launch -------------------------------
(***************************************************************************)
(* How a flow comes to be launched: POST /api/flows with its permission    *)
(* check and its guard against duplicates, the signature gate of           *)
(* POST /api/flows/[flowId], mission schedules (lib/schedule) with the     *)
(* scheduler tick that runs them, permission requests (lib/requests), the  *)
(* kill switch and the routes that pause and resume a task.                *)
(*                                                                         *)
(* A request is served by one process; its actions are its statements of   *)
(* the database, a READ COMMITTED transaction being cut where it reads     *)
(* what another one has not committed.  The durable worker is reduced to   *)
(* what it does to the status of a flow; TaskRuntime has the rest.         *)
(***************************************************************************)
EXTENDS Naturals, FiniteSets

CONSTANTS
  Flows,       \* flow rows that may be created
  Users,       \* members who launch and sign
  Perms,       \* permission requests of the direction
  Requests,    \* requests served at the same time
  Required,    \* requiredSignatures of every flow
  Approvers,   \* approvalUserIds of the mission
  Mixes,       \* bound: the kinds of calls that occur together, and how many
  MaxFaults,   \* bound: requests that die
  MaxNow,      \* bound: periods of the mission's cadence
  NoFlow, NoUser, NoPerm

\* FAILED is like COMPLETED to everything here, and is left out.
FlowStatus == {"none", "DRAFT", "QUEUED", "ACTIVE", "PAUSED", "COMPLETED",
               "ABORTED"}
Open       == {"DRAFT", "QUEUED", "ACTIVE", "PAUSED"}
Closed     == {"ABORTED", "COMPLETED"}
PermStatus == {"none", "PENDING", "APPROVED", "REJECTED"}
Kinds      == {"launch", "tick", "run", "edit", "delete", "decide", "sign",
               "kill", "human"}

ASSUME LaunchAssumption ==
  /\ IsFiniteSet(Flows) /\ IsFiniteSet(Users)
  /\ NoFlow \notin Flows /\ NoUser \notin Users /\ NoPerm \notin Perms
  /\ Required \in Nat \ {0}
  /\ Approvers \subseteq Users /\ Cardinality(Approvers) >= Required
  /\ Mixes \subseteq [kinds : SUBSET Kinds, calls : Nat]
  /\ MaxFaults \in Nat /\ MaxNow \in Nat

VARIABLES
  flow,     \* Flow.status
  signed,   \* flowApproval rows: the users who signed each flow
  linked,   \* flows linked to the direction
  perm,     \* status of each permission request of the direction
  mission,  \* the memory entry of the schedule
  now,      \* periods passed
  inbox,    \* flow.launched deliveries under way to the worker
  busy,     \* flows of which the worker executes a task
  req,      \* the requests in progress
  mix,      \* the calls that may occur in this behaviour
  calls,    \* requests so far
  faults,   \* requests that died
  wanted,   \* ghost: the value of enabled that was last asked for
  moved,    \* ghost: periods in which an edit set nextRunAt to then or earlier
  checked,  \* ghost: the permission requests a flow's launch looked at
  sent,     \* ghost: how often the launch of each flow was published
  born,     \* ghost: flows the ticks launched, with the period
  raced     \* ghost: what two requests overlapped on, in a way named below

vars == <<flow, signed, linked, perm, mission, now, inbox, busy, req, mix,
          calls, faults, wanted, moved, checked, sent, born, raced>>

Row  == [exists : BOOLEAN, enabled : BOOLEAN, next : 0..(MaxNow + 1),
         linked : BOOLEAN]
PCs  == {"idle", "due", "get", "perms", "guard", "create", "send", "entry",
         "write", "read", "insert", "commit"}
NoRow == [exists |-> FALSE, enabled |-> FALSE, next |-> 0, linked |-> FALSE]
Idle == [op |-> "none", pc |-> "idle", f |-> NoFlow, u |-> NoUser,
         p |-> NoPerm, yes |-> FALSE, seen |-> {}, row |-> NoRow]

TypeOK ==
  /\ flow \in [Flows -> FlowStatus]
  /\ signed \in [Flows -> SUBSET Users]
  /\ linked \subseteq Flows
  /\ perm \in [Perms -> PermStatus]
  /\ mission \in Row
  /\ now \in 0..MaxNow
  /\ inbox \in [Flows -> Nat]
  /\ busy \subseteq Flows
  /\ req \in [Requests -> [op : Kinds \cup {"none"}, pc : PCs,
                           f : Flows \cup {NoFlow}, u : Users \cup {NoUser}, p : Perms \cup {NoPerm},
                           yes : BOOLEAN, seen : SUBSET (Flows \cup Perms),
                           row : Row]]
  /\ mix \in Mixes
  /\ calls \in 0..mix.calls
  /\ faults \in 0..MaxFaults
  /\ wanted \in BOOLEAN
  /\ moved \subseteq 0..MaxNow
  /\ checked \in [Flows -> SUBSET Perms]
  /\ sent \in [Flows -> Nat]
  /\ born \subseteq Flows \X (0..MaxNow)
  /\ raced \subseteq Flows \cup Perms \cup {"mission", "guard", "tick"}

Init ==
  /\ flow = [f \in Flows |-> "none"]
  /\ signed = [f \in Flows |-> {}]
  /\ linked = {}
  /\ perm = [p \in Perms |-> "none"]
  /\ mission \in {NoRow} \cup [exists : {TRUE}, enabled : {TRUE}, next : {0},
                               linked : BOOLEAN]
  /\ now = 0
  /\ inbox = [f \in Flows |-> 0]
  /\ busy = {}
  /\ req = [r \in Requests |-> Idle]
  /\ mix \in Mixes
  /\ calls = 0
  /\ faults = 0
  /\ wanted = mission.enabled
  /\ moved = {}
  /\ checked = [f \in Flows |-> {}]
  /\ sent = [f \in Flows |-> 0]
  /\ born = {}
  /\ raced = {}

rows   == <<flow, signed, linked, perm, mission>>
worker == <<inbox, busy>>
ghosts == <<wanted, moved, checked, sent, born, raced>>

At(r, l)     == req[r].pc = l
Goto(r, l)   == req' = [req EXCEPT ![r].pc = l]
Done(r)      == req' = [req EXCEPT ![r] = Idle]
IsMission(r) == req[r].op \in {"tick", "run"}

\* The direction a launch is made for has an id; a mission's that of its
\* schedule as the run read it, if it names one.
IsLinked(r)  == IF IsMission(r) THEN req[r].row.linked ELSE TRUE

\* A request arrives.
Begin(r, op, l) == [Idle EXCEPT !.op = op, !.pc = l]
Call(r, c) ==
  /\ At(r, "idle")
  /\ c.op \in mix.kinds
  /\ calls < mix.calls /\ calls' = calls + 1
  /\ req' = [req EXCEPT ![r] = c]
  /\ UNCHANGED <<rows, now, worker, mix, faults, ghosts>>

\* The process dies in the middle of a request; an open transaction is undone.
\* A mission whose run dies may be run again.
Die(r) ==
  /\ ~At(r, "idle")
  /\ faults < MaxFaults /\ faults' = faults + 1
  /\ Done(r)
  /\ raced' = IF req[r].op = "tick" THEN raced \cup {"tick"} ELSE raced
  /\ UNCHANGED <<rows, now, worker, mix, calls, wanted, moved, checked, sent, born>>

-----------------------------------------------------------------------------
(* Mission schedules: the tick, POST .../run and runMissionSchedule.        *)

\* POST /api/schedules/tick, perhaps with force; the route
\* POST /api/schedules/missions/[id]/run does not look whether it is due.
Tick(r, b) == Call(r, [Begin(r, "tick", "due") EXCEPT !.yes = b])
Run(r)  == mission.exists /\ Call(r, Begin(r, "run", "get"))

\* isMissionScheduleDue.
\* Mutant: the schedule is due one period early.
IsDueEarly(m) == m.exists /\ m.enabled /\ m.next <= now + 1
IsDue(m) == m.exists /\ m.enabled /\ m.next <= now

ListDue(r) ==
  /\ At(r, "due")
  /\ IF IsDue(mission) THEN Goto(r, "get") ELSE Done(r)
  /\ raced' = IF \E s \in Requests \ {r} : req[s].op = "tick" /\ ~At(s, "due")
              THEN raced \cup {"tick"} ELSE raced
  /\ UNCHANGED <<rows, now, worker, mix, calls, faults, wanted, moved, checked, sent,
                 born>>

\* getMissionSchedule; the approvers are always enough.
GetSchedule(r) ==
  /\ At(r, "get")
  /\ IF mission.exists /\ (mission.enabled \/ req[r].yes)
     THEN req' = [req EXCEPT ![r].pc = IF mission.linked THEN "perms" ELSE "create",
                             ![r].row = mission]
     ELSE Done(r)
  /\ UNCHANGED <<rows, now, worker, mix, calls, faults, ghosts>>

\* PATCH of a schedule, DELETE, and the end of a run.
Edit(r)   == mission.exists /\ Call(r, Begin(r, "edit", "entry"))
Delete(r) == mission.exists /\ Call(r, Begin(r, "delete", "write"))

\* updateMissionSchedule reads the entry and writes it whole.
ReadEntry(r) ==
  /\ At(r, "entry")
  /\ IF mission.exists
     THEN req' = [req EXCEPT ![r].pc = "write", ![r].row = mission]
     ELSE Done(r)
  /\ UNCHANGED <<rows, now, worker, mix, calls, faults, ghosts>>

\* What the end of a run patches.
\* Mutant: a run switches its mission on.
AfterRunEnables(m) == [m EXCEPT !.next = now + 1, !.enabled = TRUE]
AfterRun(m) == [m EXCEPT !.next = now + 1]

\* A deletion in between has set redactedAt, which stays.
Replace(r, m) ==
  /\ At(r, "write")
  /\ mission' = [m EXCEPT !.exists = mission.exists]
  /\ raced' = IF [mission EXCEPT !.exists = TRUE] # req[r].row
              THEN raced \cup {"mission"} ELSE raced
  /\ Done(r)
  /\ UNCHANGED <<flow, signed, linked, perm, now, worker, mix, calls, faults,
                 checked, sent, born>>

WriteRun(r) ==
  /\ IsMission(r)
  /\ Replace(r, AfterRun(req[r].row))
  /\ UNCHANGED <<wanted, moved>>

\* The body names the fields it sets: the switch, nextRunAt to any time, and
\* directionId, to the direction or to none.
WriteEdit(r) ==
  /\ req[r].op = "edit"
  /\ \E body \in SUBSET {"enabled", "next", "linked"}, m \in Row :
       /\ m.exists = req[r].row.exists
       /\ "enabled" \in body \/ m.enabled = req[r].row.enabled
       /\ "next" \in body \/ m.next = req[r].row.next
       /\ "linked" \in body \/ m.linked = req[r].row.linked
       /\ Replace(r, m)
       /\ wanted' = IF "enabled" \in body THEN m.enabled ELSE wanted
       /\ moved' = IF "next" \in body /\ m.next <= now
                   THEN moved \cup {now} ELSE moved

WriteEntry(r) == WriteRun(r) \/ WriteEdit(r)

WriteDelete(r) ==
  /\ At(r, "write") /\ req[r].op = "delete"
  /\ mission' = [mission EXCEPT !.exists = FALSE]
  /\ Done(r)
  /\ UNCHANGED <<flow, signed, linked, perm, now, worker, mix, calls, faults,
                 ghosts>>

Pass ==
  /\ now < MaxNow /\ now' = now + 1
  /\ UNCHANGED <<rows, worker, req, mix, calls, faults, ghosts>>

-----------------------------------------------------------------------------
(* Permission requests.                                                     *)

\* A plan asks for permissions.
Ask(p) ==
  /\ perm[p] = "none"
  /\ perm' = [perm EXCEPT ![p] = "PENDING"]
  /\ UNCHANGED <<flow, signed, linked, mission, now, worker, req, mix, calls,
                 faults,
                 ghosts>>

Decide(r, p, b) ==
  perm[p] # "none"
  /\ Call(r, [Begin(r, "decide", "read") EXCEPT !.p = p, !.yes = b])

\* decidePermissionRequest reads the record and writes it whole.
MayDecide(s) == s = "PENDING"

ReadPerm(r) ==
  /\ At(r, "read") /\ req[r].op = "decide"
  /\ IF MayDecide(perm[req[r].p]) THEN Goto(r, "write") ELSE Done(r)
  /\ UNCHANGED <<rows, now, worker, mix, calls, faults, ghosts>>

Verdict(yes) == IF yes THEN "APPROVED" ELSE "REJECTED"

WritePerm(r) ==
  LET p == req[r].p IN
  /\ At(r, "write") /\ req[r].op = "decide"
  /\ perm' = [perm EXCEPT ![p] = Verdict(req[r].yes)]
  /\ raced' = IF \E s \in Requests \ {r} : /\ req[s].op = "decide"
                                           /\ req[s].p = p /\ At(s, "write")
              THEN raced \cup {p} ELSE raced
  /\ Done(r)
  /\ UNCHANGED <<flow, signed, linked, mission, now, worker, mix, calls, faults,
                 wanted, moved, checked, sent, born>>

-----------------------------------------------------------------------------
(* POST /api/flows.                                                         *)

Launch(r, u) == Call(r, [Begin(r, "launch", "perms") EXCEPT !.u = u])

\* Mutant: only a rejected request blocks a launch.
PermittedUnlessRejected == \A p \in Perms : perm[p] # "REJECTED"
Permitted == \A p \in Perms : perm[p] \in {"none", "APPROVED"}

CheckPerms(r) ==
  /\ At(r, "perms")
  /\ IF Permitted
     THEN req' = [req EXCEPT ![r].pc = "guard",
                             ![r].seen = {p \in Perms : perm[p] # "none"}]
     ELSE Done(r)
  /\ UNCHANGED <<rows, now, worker, mix, calls, faults, ghosts>>

\* findReusableFlowForLaunch: an open flow of the direction is reused.
\* Mutant: a flow that waits for signatures is not reused.
ReusableNotDraft == {f \in linked : flow[f] \in Open \ {"DRAFT"}}
Reusable == {f \in linked : flow[f] \in Open}

Guard(r) ==
  /\ At(r, "guard")
  /\ IF Reusable # {}
     THEN IF IsMission(r) THEN Goto(r, "entry") ELSE Done(r)
     ELSE Goto(r, "create")
  /\ raced' = IF \E s \in Requests \ {r} : At(s, "create")
              THEN raced \cup {"guard"} ELSE raced
  /\ UNCHANGED <<rows, now, worker, mix, calls, faults, wanted, moved, checked, sent,
                 born>>

\* launchReady.
IsEnough(n) == n >= Required

Create(r, f) ==
  LET users == IF IsMission(r) THEN Approvers ELSE {req[r].u}
      ready == IsEnough(Cardinality(users))
  IN
  /\ At(r, "create")
  /\ flow[f] = "none"
  /\ flow' = [flow EXCEPT ![f] = IF ready THEN "QUEUED" ELSE "DRAFT"]
  /\ signed' = [signed EXCEPT ![f] = users]
  /\ linked' = IF IsLinked(r) THEN linked \cup {f} ELSE linked
  /\ IF ready
     THEN req' = [req EXCEPT ![r].pc = "send", ![r].f = f, ![r].seen = {}]
     ELSE IF IsMission(r)
     THEN req' = [req EXCEPT ![r].pc = "entry", ![r].seen = {}]
     ELSE Done(r)
  /\ checked' = [checked EXCEPT ![f] = req[r].seen]
  /\ born' = IF req[r].op = "tick" THEN born \cup {<<f, now>>} ELSE born
  /\ UNCHANGED <<perm, mission, now, worker, mix, calls, faults, wanted, moved,
                 sent, raced>>

\* publishInngestEvent and the kick.  A delivery may be late for ever.
Send(r) ==
  LET f == req[r].f IN
  /\ At(r, "send")
  /\ inbox' = [inbox EXCEPT ![f] = @ + 2]
  /\ sent' = [sent EXCEPT ![f] = @ + 1]
  /\ IF IsMission(r) THEN req' = [req EXCEPT ![r].pc = "entry", ![r].f = NoFlow]
     ELSE Done(r)
  /\ UNCHANGED <<rows, now, busy, mix, calls, faults, wanted, moved, checked, born,
                 raced>>

-----------------------------------------------------------------------------
(* The signature gate: POST /api/flows/[flowId].                            *)

Sign(r, f, u) ==
  flow[f] # "none"
  /\ Call(r, [Begin(r, "sign", "read") EXCEPT !.f = f, !.u = u])

ReadFlow(r) ==
  LET f == req[r].f IN
  /\ At(r, "read") /\ req[r].op = "sign"
  /\ IF flow[f] \in Closed THEN Done(r)
     ELSE req' = [req EXCEPT ![r].pc = "insert", ![r].yes = flow[f] = "DRAFT"]
  /\ raced' = IF \E s \in Requests \ {r} :
                    req[s].op = "sign" /\ req[s].f = f /\ ~At(s, "read")
              THEN raced \cup {f} ELSE raced
  /\ UNCHANGED <<rows, now, worker, mix, calls, faults, wanted, moved, checked, sent,
                 born>>

\* The signature is inserted unless it is there, and the signatures are
\* counted: those committed and the own one.  A second insert of the same
\* signature waits for the first, and fails.
SignTwice(r) ==
  \E s \in Requests \ {r} : /\ req[s].op = "sign" /\ At(s, "commit")
                            /\ req[s].f = req[r].f /\ req[s].u = req[r].u

\* Mutant: the status is not looked at.
GateAnyStatus(r, n) == IsEnough(n)
Gate(r, n) == IsEnough(n) /\ req[r].yes

Insert(r) ==
  LET f == req[r].f
      n == Cardinality(signed[f] \cup {req[r].u})
  IN
  /\ At(r, "insert")
  /\ IF SignTwice(r) THEN Done(r)
     ELSE req' = [req EXCEPT ![r].pc = "commit", ![r].yes = Gate(r, n)]
  /\ UNCHANGED <<rows, now, worker, mix, calls, faults, ghosts>>

\* The flow is queued by id, whatever has become of it since it was read.
Commit(r) ==
  LET f == req[r].f IN
  /\ At(r, "commit")
  /\ signed' = [signed EXCEPT ![f] = @ \cup {req[r].u}]
  /\ IF req[r].yes
     THEN flow' = [flow EXCEPT ![f] = "QUEUED"] /\ Goto(r, "send")
     ELSE flow' = flow /\ Done(r)
  /\ UNCHANGED <<linked, perm, mission, now, worker, mix, calls, faults,
                 ghosts>>

-----------------------------------------------------------------------------
(* The kill switch, the routes of a task, and the worker.                   *)

\* Those who can bring a flow back: a late signature that has read it before, the
\* worker that executes a task of it when it is killed, and a human who pauses
\* or resumes a task of a flow that is not open.
Late(S) == {f \in S : \E s \in Requests : /\ req[s].op = "sign"
                                          /\ req[s].f = f /\ ~At(s, "read")}

Kill(r) == Call(r, Begin(r, "kill", "read"))
ReadKill(r) ==
  /\ At(r, "read") /\ req[r].op = "kill"
  /\ req' = [req EXCEPT ![r].pc = "write",
                        ![r].seen = {f \in Flows : flow[f] \in Open \ {"DRAFT"}}]
  /\ UNCHANGED <<rows, now, worker, mix, calls, faults, ghosts>>
WriteKill(r) ==
  /\ At(r, "write") /\ req[r].op = "kill"
  /\ flow' = [f \in Flows |-> IF f \in req[r].seen THEN "ABORTED" ELSE flow[f]]
  /\ raced' = raced \cup Late(req[r].seen) \cup (req[r].seen \cap busy)
  /\ Done(r)
  /\ UNCHANGED <<signed, linked, perm, mission, now, worker, mix, calls, faults,
                 wanted, moved, checked, sent, born>>

\* POST /api/tasks/[taskId]/pause and /resume: by id, for any status.  A task
\* that is resumed is published and kicked.
Human(f, s) ==
  /\ flow[f] # "none"
  /\ "human" \in mix.kinds
  /\ calls < mix.calls /\ calls' = calls + 1
  /\ flow' = [flow EXCEPT ![f] = s]
  /\ inbox' = IF s = "ACTIVE" THEN [inbox EXCEPT ![f] = @ + 2] ELSE inbox
  /\ raced' = IF flow[f] \in Closed THEN raced \cup {f} ELSE raced
  /\ UNCHANGED <<signed, linked, perm, mission, now, busy, req, mix, faults,
                 wanted, moved, checked, sent, born>>

\* isFlowExecutionBlocked, asked before a task is taken.
\* Mutant: an aborted flow is not blocked.
IsBlockedNotAborted(s) == s \in {"PAUSED", "COMPLETED"}
IsBlocked(s) == s \in {"PAUSED", "ABORTED", "COMPLETED"}

\* The worker handles an event of the flow: unless the flow is blocked it takes
\* a task, or finds none that is queued.
Deliver(f) ==
  /\ inbox[f] > 0
  /\ inbox' = [inbox EXCEPT ![f] = @ - 1]
  /\ busy' \in IF IsBlocked(flow[f]) THEN {busy} ELSE {busy, busy \cup {f}}
  /\ UNCHANGED <<rows, now, req, mix, calls, faults, ghosts>>

\* What it executes starts, pauses, or reports with other tasks left, and may be
\* followed by another task: each time the flow's status is set by id, whatever
\* has become of the flow.
Proceed(f) ==
  /\ f \in busy
  /\ \E s \in {"ACTIVE", "PAUSED"} : flow' = [flow EXCEPT ![f] = s]
  /\ busy' \in {busy, busy \ {f}}
  /\ UNCHANGED <<signed, linked, perm, mission, now, inbox, req, mix, calls,
                 faults, ghosts>>

\* The last task reports.
Report(f) ==
  /\ f \in busy
  /\ flow' = [flow EXCEPT ![f] = "COMPLETED"]
  /\ busy' = busy \ {f}
  /\ raced' = raced \cup Late({f})
  /\ UNCHANGED <<signed, linked, perm, mission, now, inbox, req, mix, calls,
                 faults, wanted, moved, checked, sent, born>>

-----------------------------------------------------------------------------
Next ==
  \/ \E r \in Requests :
       \/ \E b \in BOOLEAN : Tick(r, b)
       \/ Run(r) \/ ListDue(r) \/ GetSchedule(r)
       \/ Edit(r) \/ Delete(r) \/ ReadEntry(r) \/ WriteEntry(r) \/ WriteDelete(r)
       \/ \E p \in Perms, b \in BOOLEAN : Decide(r, p, b)
       \/ ReadPerm(r) \/ WritePerm(r)
       \/ \E u \in Users : Launch(r, u)
       \/ CheckPerms(r) \/ Guard(r) \/ Send(r)
       \/ \E f \in Flows : Create(r, f)
       \/ \E f \in Flows, u \in Users : Sign(r, f, u)
       \/ ReadFlow(r) \/ Insert(r) \/ Commit(r)
       \/ Kill(r) \/ ReadKill(r) \/ WriteKill(r)
       \/ Die(r)
  \/ \E p \in Perms : Ask(p)
  \/ \E f \in Flows : \/ Human(f, "PAUSED") \/ Human(f, "ACTIVE")
                      \/ Deliver(f) \/ Proceed(f) \/ Report(f)
  \/ Pass

Spec == Init /\ [][Next]_vars

-----------------------------------------------------------------------------
(* Properties.                                                              *)

\* A flow is launched when it has its signatures, not before and once, whichever
\* way it took: at once, by a mission, or by the last of the late signatures.
\* Only two late signatures that overlap break this: both find the flow in draft
\* and launch it, or each counts without the other's and nobody does.
LaunchedOnceSigned ==
  \A f \in Flows :
    /\ sent[f] > 0 => Cardinality(signed[f]) >= Required
    /\ sent[f] <= 1 \/ f \in raced
    /\ flow[f] = "DRAFT" /\ Cardinality(signed[f]) >= Required => f \in raced

\* The guard of POST /api/flows: two open flows of a direction exist only if
\* two launches were past the guard at the same time, or a human or a late
\* signature reopened a closed one.
NoTwinFlows ==
  \A f, g \in linked :
    flow[f] \in Open /\ flow[g] \in Open /\ f # g =>
      "guard" \in raced \/ {f, g} \cap raced # {}

\* A flow of a direction was launched with all its permission requests
\* approved, and they still are, unless two deciders of one overlapped: a
\* decision is final though it is a read and a write.
LaunchIsPermitted ==
  \A f \in Flows : \A p \in checked[f] : perm[p] = "APPROVED" \/ p \in raced

\* The ticks launch a mission once per period, unless in that period an edit
\* set nextRunAt to a time that had come, or before it two ticks found the
\* mission due together, a run died before it moved nextRunAt, or the end of a
\* run or an edit wrote back an entry that had changed since it was read.
MissionOncePerPeriod ==
  \A x, y \in born :
    x[2] = y[2] => x = y \/ x[2] \in moved \/ raced \cap {"tick", "mission"} # {}

\* A mission that was switched off stays off until it is switched on, unless
\* an update was lost: the end of a run, and every edit, writes the whole entry
\* back as it read it.
SwitchIsKept == mission.enabled = wanted \/ "mission" \in raced

\* An aborted flow is not brought back, by the worker or by a request, unless a
\* late signature had read it before the kill, the worker was executing a task
\* of it (see KillIsFinal of TaskRuntime), or a human resumed it: no delivery
\* that is late, no mission and no launch does it.
AbortedStays ==
  [][\A f \in Flows :
       flow[f] = "ABORTED" /\ flow'[f] # "ABORTED" => f \in raced']_vars

=============================================================================
