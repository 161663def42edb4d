------------------------------ MODULE AgentRun ------------------------------
(***************************************************************************)
(* The mails of one run of the Main Agent: POST /api/agent/run, the engine  *)
(* of lib/agent/run/engine.ts it races with a timer, the tool call of       *)
(* lib/agent/tools/execute.ts that sends a mail, and the shell's approval   *)
(* of a draft (components/vorldx-shell.tsx).                                *)
(*                                                                         *)
(* Several tabs of one user share the run: a request that names no run      *)
(* joins the user's active one.  A draft is its content.  The session is    *)
(* read when a request is admitted and written back when it is answered,    *)
(* with the planner, the writer and the mail provider in between.  When     *)
(* the timer wins the race, the request is answered and the engine goes on. *)
(***************************************************************************)
EXTENDS Naturals, FiniteSets

CONSTANTS
  Clients,      \* tabs of the user
  Requests,     \* engines that may be at work at the same time
  Contents,     \* what a mail may say, and to whom
  MaxInflight,  \* AGENT_RUN_MAX_INFLIGHT_PER_ACTOR
  MaxPosts,     \* bound: requests in a behaviour
  MaxFaults,    \* bound: lost answers, failed statements and restarts
  MaxTimeouts,  \* bound: requests that the timer answers
  NoClient, NoDraft

Ops == {"write", "confirm", "send", "read"}

\* RETRY_ATTEMPTS.
RetryAttempts == 2

ASSUME AgentRunAssumption ==
  /\ IsFiniteSet(Requests)
  /\ NoClient \notin Clients /\ NoDraft \notin Contents
  /\ MaxInflight \in Nat /\ MaxPosts \in Nat
  /\ MaxFaults \in Nat /\ MaxTimeouts \in Nat

VARIABLES
  session,   \* activeDraft of the run's session: its content
  inflight,  \* inflight of the user's guard bucket
  req,       \* the requests, and the engines whose request is answered
  pending,   \* pendingEmailApproval of each tab: the draft it shows
  shown,     \* ghost: the drafts a tab has been shown
  sends,     \* ghost: mails sent on a tab's approvals of the draft it shows
  excused,   \* ghost: tabs with an approval whose outcome they were not told
  posts, faults, timeouts

vars == <<session, inflight, req, pending, shown, sends, excused, posts,
          faults, timeouts>>

\* open: the route has not answered.  waits: the tab still expects the answer.
\* draft: the activeDraft of the engine's response; text: the draft it shows.
Free == [pc |-> "idle", op |-> "read", by |-> NoClient, named |-> FALSE,
         open |-> FALSE, waits |-> FALSE, draft |-> NoDraft, text |-> NoDraft,
         tries |-> 0, sent |-> 0, lost |-> FALSE, status |-> "none"]

Pcs == {"think", "tools", "log", "end", "telemetry"}
Statuses == {"completed", "needs_confirmation", "error"}
Drafts == Contents \cup {NoDraft}

RequestType ==
  [pc : Pcs \cup {"idle"}, op : Ops, by : Clients \cup {NoClient}, named : BOOLEAN,
   open : BOOLEAN, waits : BOOLEAN, draft : Drafts, text : Drafts, tries : Nat,
   sent : Nat, lost : BOOLEAN, status : Statuses \cup {"none"}]

TypeOK ==
  /\ session \in Drafts
  /\ inflight \in Nat
  /\ req \in [Requests -> RequestType]
  /\ pending \in [Clients -> Drafts]
  /\ shown \in [Clients -> SUBSET Contents]
  /\ sends \in [Clients -> Nat]
  /\ excused \subseteq Clients
  /\ posts \in Nat /\ faults \in Nat /\ timeouts \in Nat

Init ==
  /\ session = NoDraft
  /\ inflight = 0
  /\ req = [q \in Requests |-> Free]
  /\ pending = [c \in Clients |-> NoDraft]
  /\ shown = [c \in Clients |-> {}]
  /\ sends = [c \in Clients |-> 0]
  /\ excused = {}
  /\ posts = 0 /\ faults = 0 /\ timeouts = 0

bounds == <<posts, faults, timeouts>>
tabs   == <<pending, shown, sends, excused>>

Waiting(c) == \E q \in Requests : req[q].by = c /\ req[q].waits

Put(q, r) == req' = [req EXCEPT ![q] = r]

Fault == faults < MaxFaults /\ faults' = faults + 1

-----------------------------------------------------------------------------
(* The shell and the guard.                                                 *)

\* acquireActorRunGuard.  A request that is refused, here or by the rate limit,
\* changes nothing.
Admitted(n) == n < MaxInflight

\* The shell names the draft it shows in an approval; the route takes one that
\* names none for the session's.  A tab has one request at a time.
Post(c, q, op, named) ==
  /\ req[q] = Free /\ ~ Waiting(c)
  /\ posts < MaxPosts /\ posts' = posts + 1
  /\ Admitted(inflight)
  /\ named => op = "confirm" /\ pending[c] # NoDraft
  /\ inflight' = inflight + 1
  /\ Put(q, [Free EXCEPT !.pc = "think", !.op = op, !.by = c, !.named = named,
                          !.open = TRUE, !.waits = TRUE, !.draft = session,
                          !.text = IF named THEN pending[c] ELSE session])
  /\ UNCHANGED <<session, tabs, faults, timeouts>>

\* handleRejectEmailDraft, which does not ask whether the tab waits for an answer.
Reject(c) ==
  /\ pending[c] # NoDraft
  /\ pending' = [pending EXCEPT ![c] = NoDraft]
  /\ sends' = [sends EXCEPT ![c] = 0]
  /\ excused' = excused \ {c}
  /\ UNCHANGED <<session, inflight, req, shown, bounds>>

-----------------------------------------------------------------------------
(* The engine.                                                              *)

\* Its response: what it says of the session's draft, and what it shows.
Respond(q, status, draft, text) ==
  Put(q, [req[q] EXCEPT !.pc = "end", !.status = status, !.draft = draft,
                        !.text = text])

\* Which text a mail that was approved has.
\* Mutant: the session's draft, whatever the approval names.
ApprovedSession(q) == req[q].draft
Approved(q) == req[q].text

\* The engine's first look at a request: it lacks an input, is too long or is not
\* for mails; needs_input leaves the tab as an error does.
Lack(q) ==
  /\ req[q].pc = "think"
  /\ Respond(q, "error", req[q].draft, NoDraft)
  /\ UNCHANGED <<session, inflight, tabs, bounds>>

\* Mails are searched, read or summarized: the draft stays.
Read(q) ==
  /\ req[q].pc = "think" /\ req[q].op = "read"
  /\ Respond(q, "completed", req[q].draft, NoDraft)
  /\ UNCHANGED <<session, inflight, tabs, bounds>>

\* The session's draft is regenerated or refined; details that it lacks are
\* filled in, also when the request approves it.
Refine(q) ==
  /\ req[q].pc = "think" /\ req[q].op \in {"write", "confirm"}
  /\ req[q].draft # NoDraft
  /\ \E d \in Contents : Respond(q, "needs_confirmation", d, d)
  /\ UNCHANGED <<session, inflight, tabs, bounds>>

\* A mail that needs an approval is drafted and shown.
Write(q) ==
  /\ req[q].pc = "think" /\ req[q].op = "write"
  /\ \E d \in Contents : Respond(q, "needs_confirmation", d, d)
  /\ UNCHANGED <<session, inflight, tabs, bounds>>

\* An approval of no draft: one is made up and shown, but not kept.
Preview(q) ==
  /\ req[q].pc = "think" /\ req[q].op = "confirm" /\ req[q].text = NoDraft
  /\ \E d \in Contents : Respond(q, "needs_confirmation", req[q].draft, d)
  /\ UNCHANGED <<session, inflight, tabs, bounds>>

Call(q, d) ==
  Put(q, [req[q] EXCEPT !.pc = "tools", !.tries = 1, !.text = d])

Confirm(q) ==
  /\ req[q].pc = "think" /\ req[q].op = "confirm" /\ Approved(q) # NoDraft
  /\ Call(q, Approved(q))
  /\ UNCHANGED <<session, inflight, tabs, bounds>>

\* direct_send, and a mail that is sent again.
SendNow(q) ==
  /\ req[q].pc = "think" /\ req[q].op = "send"
  /\ \E d \in Contents : Call(q, d)
  /\ UNCHANGED <<session, inflight, tabs, bounds>>

\* executeAgentTool: which errors are tried again.  What the provider says or
\* throws becomes TOOL_EXECUTION_FAILED, also when its answer is lost.
\* Mutant: that is tried again as well.
RetryableFailed(code) == code \in {"TOOLS_UNAVAILABLE", "TOOL_EXECUTION_FAILED"}
Retryable(code) == code = "TOOLS_UNAVAILABLE"

ToolFails(q, code, r) ==
  Put(q, IF Retryable(code) /\ r.tries < RetryAttempts
         THEN [r EXCEPT !.tries = @ + 1]
         ELSE [r EXCEPT !.pc = "end", !.status = "error", !.text = NoDraft])

\* The tools or the connection are not there, before anything is sent.
Resolve(q) ==
  /\ req[q].pc = "tools"
  /\ \E code \in {"TOOLS_UNAVAILABLE", "INTEGRATION_NOT_CONNECTED"} :
       ToolFails(q, code, req[q])
  /\ UNCHANGED <<session, inflight, tabs, bounds>>

\* The provider refuses the mail.
Refuse(q) ==
  /\ req[q].pc = "tools"
  /\ ToolFails(q, "TOOL_EXECUTION_FAILED", req[q])
  /\ UNCHANGED <<session, inflight, tabs, bounds>>

\* A mail is sent on an approval of the draft a tab shows, which may have given
\* up waiting for it.
Mailed(q) ==
  LET r == req[q] IN
  IF r.op = "confirm" /\ r.named /\ pending[r.by] = r.text
  THEN /\ sends' = [sends EXCEPT ![r.by] = @ + 1]
       /\ excused' = IF r.waits THEN excused ELSE excused \cup {r.by}
  ELSE UNCHANGED <<sends, excused>>

\* The provider sends the mail, and says so or is not heard.
Deliver(q) ==
  LET r == req[q] IN
  /\ r.pc = "tools"
  /\ Mailed(q)
  /\ \/ /\ Put(q, [r EXCEPT !.pc = "log", !.sent = @ + 1])
        /\ UNCHANGED faults
     \/ /\ Fault
        /\ ToolFails(q, "TOOL_EXECUTION_FAILED",
                     [r EXCEPT !.sent = @ + 1, !.lost = TRUE])
  /\ UNCHANGED <<session, inflight, pending, shown, posts, timeouts>>

\* extractSendReceipt, verifySentMailboxEvidence and the audit log, whose errors
\* are caught, then logAction.  The draft that was sent becomes the session's; a
\* mail that is not verified is answered as completed too.
Log(q) ==
  /\ req[q].pc = "log"
  /\ Respond(q, "completed", req[q].text, NoDraft)
  /\ UNCHANGED <<session, inflight, tabs, bounds>>

-----------------------------------------------------------------------------
(* The answer.                                                              *)

Release(n) == IF n = 0 THEN 0 ELSE n - 1

\* How many places of the guard a request that ends gives back.
\* Mutant: it keeps its place when the engine goes on.
ReleasedLate(q) == IF req[q].pc \in {"end", "telemetry"} THEN Release(inflight)
                   ELSE inflight
Released(q) == Release(inflight)

\* saveRunSession, with the draft of the response.  The engine of a request
\* that was answered by the timer returns to nobody.
Save(q) ==
  /\ req[q].pc = "end"
  /\ IF req[q].open
     THEN /\ session' = req[q].draft
          /\ Put(q, [req[q] EXCEPT !.pc = "telemetry"])
     ELSE /\ Put(q, Free)
          /\ UNCHANGED session
  /\ UNCHANGED <<inflight, tabs, bounds>>

\* Which draft a tab waits for an approval of, when it is answered.
\* Mutant: a completed run leaves it.
PendingKept(status, text, d) ==
  IF status = "needs_confirmation" THEN text ELSE d
Pending(status, text, d) ==
  CASE status = "needs_confirmation" -> text
    [] status = "completed"          -> NoDraft
    [] OTHER                         -> d

\* The answer after the telemetry log, whose errors are caught; finally, the
\* guard is released.
Answer(q) ==
  LET r == req[q]
      c == r.by
      d == Pending(r.status, r.text, pending[c])
  IN
  /\ r.pc = "telemetry"
  /\ inflight' = Released(q)
  /\ Put(q, Free)
  /\ IF r.waits
     THEN /\ pending' = [pending EXCEPT ![c] = d]
          /\ shown' = [shown EXCEPT ![c] = @ \cup ({d} \cap Contents)]
          /\ sends' = IF r.status = "needs_confirmation" \/ d = NoDraft
                      THEN [sends EXCEPT ![c] = 0] ELSE sends
          /\ excused' =
               CASE r.status = "needs_confirmation" \/ d = NoDraft -> excused \ {c}
                 [] r.lost -> excused \cup {c}
                 [] OTHER  -> excused
     ELSE UNCHANGED tabs
  /\ UNCHANGED <<session, bounds>>

\* The tab is told that the request failed, or not told anything.
Untold(q) == excused' = IF req[q].waits THEN excused \cup {req[q].by} ELSE excused

\* withTimeout: the request is answered with REQUEST_TIMEOUT.
TimesOut(q) ==
  /\ req[q].open /\ req[q].pc \notin {"end", "telemetry"}
  /\ timeouts < MaxTimeouts
  /\ timeouts' = timeouts + 1
  /\ inflight' = Released(q)
  /\ Put(q, [req[q] EXCEPT !.open = FALSE, !.waits = FALSE])
  /\ Untold(q)
  /\ UNCHANGED <<session, pending, shown, sends, posts, faults>>

\* The log of a mail that was sent throws: "Main Agent run failed."
LogFails(q) ==
  /\ req[q].pc = "log" /\ Fault
  /\ inflight' = IF req[q].open THEN Released(q) ELSE inflight
  /\ Put(q, Free)
  /\ Untold(q)
  /\ UNCHANGED <<session, pending, shown, sends, posts, timeouts>>

\* The answer is lost, or the tab no longer listens.
AnswerLost(q) ==
  /\ req[q].waits /\ Fault
  /\ Put(q, [req[q] EXCEPT !.waits = FALSE])
  /\ Untold(q)
  /\ UNCHANGED <<session, inflight, pending, shown, sends, posts, timeouts>>

\* The server restarts: sessions and guards are in its memory.
Restart ==
  /\ Fault
  /\ session' = NoDraft
  /\ inflight' = 0
  /\ req' = [q \in Requests |-> Free]
  /\ excused' = excused \cup {c \in Clients : Waiting(c)}
  /\ UNCHANGED <<pending, shown, sends, posts, timeouts>>

\* cleanupRunSessions: the run has been left alone for hours.
Expire ==
  /\ session # NoDraft
  /\ \A q \in Requests : req[q] = Free
  /\ session' = NoDraft
  /\ UNCHANGED <<inflight, req, tabs, bounds>>

-----------------------------------------------------------------------------
Next ==
  \/ \E c \in Clients :
       \/ Reject(c)
       \/ \E q \in Requests, op \in Ops, named \in BOOLEAN : Post(c, q, op, named)
  \/ \E q \in Requests :
       \/ Lack(q) \/ Read(q) \/ Refine(q) \/ Write(q) \/ Preview(q)
       \/ Confirm(q) \/ SendNow(q) \/ Resolve(q) \/ Refuse(q) \/ Deliver(q) \/ Log(q)
       \/ Save(q) \/ Answer(q) \/ TimesOut(q) \/ LogFails(q) \/ AnswerLost(q)
  \/ Restart \/ Expire

Spec == Init /\ [][Next]_vars

-----------------------------------------------------------------------------
(* Properties.                                                              *)

\* A mail sent on an approval of the draft a tab shows says what that draft says,
\* whatever the other tabs have made of the session meanwhile.
ApprovedIsShown ==
  \A q \in Requests :
    req[q].op = "confirm" /\ req[q].named /\ req[q].pc \in {"tools", "log"} =>
      req[q].text \in shown[req[q].by]

\* An engine sends one mail at most, and only if it was asked to.  It says
\* "completed" if and only if it has sent it, unless the provider was not heard,
\* although a failed call is tried twice.
OneMailPerAnswer ==
  \A q \in Requests :
    LET r == req[q] IN
    /\ r.sent <= (IF r.op \in {"confirm", "send"} THEN 1 ELSE 0)
    /\ r.pc \in {"end", "telemetry"} /\ r.op # "read" =>
         \/ (r.status = "completed") = (r.sent = 1)
         \/ r.lost

\* A draft that a tab shows is mailed once on its approvals, unless an approval
\* of it timed out, failed after the mail was sent, or was not answered: the
\* engine goes on, the draft stays, and the user is asked to retry.
ApprovalSendsOnce ==
  \A c \in Clients : sends[c] > 1 => c \in excused

\* The guard counts the requests that are not answered, so that a user is not
\* refused for a request that timed out or failed, and at most MaxInflight of
\* them are served at the same time.
GuardCountsRequests ==
  /\ inflight = Cardinality({q \in Requests : req[q].open})
  /\ inflight <= MaxInflight

=============================================================================
