---------------------------- MODULE DnaSessions -----------------------------
(***************************************************************************)
(* The idle sessions of the DNA memory: the requests that register the     *)
(* activity of a session, the in-memory timer and the sweep that queue a   *)
(* session that has been idle (lib/dna/phase2), the claim-check tasks in   *)
(* Postgres with their pointers in a Redis stream, and the Python workers  *)
(* (workers/phase2_slm_worker.py) that summarise the session's memories.   *)
(*                                                                         *)
(* Two values the worker takes from the database make it raise unless the  *)
(* driver has converted them, which the constants Decodes and Aware say.   *)
(* With asyncpg, the pool of phase2_slm_worker.py:489, which sets no codec,*)
(* and the columns of the migrations, neither is: both are {FALSE}.        *)
(*                                                                         *)
(* Time is abstracted to two facts of a session's row: whether its last    *)
(* message is older than the idle window, and whether last_queued_at is    *)
(* before last_message_at.  The memory that a message leaves behind is     *)
(* named by the message.                                                   *)
(***************************************************************************)
EXTENDS Naturals, Sequences, FiniteSets

CONSTANTS
  Sessions,   \* sessions of one organisation
  MaxMsgs,    \* bound: messages sent to them
  MaxTasks,   \* bound: claim-check tasks inserted
  Sweeps,     \* requests that sweep the organisation, a tick or the queue route
  Workers,    \* coroutines of the Python worker pool
  Limit,      \* sessions a sweep takes
  Count,      \* pointers a worker reads at a time
  ReadMax,    \* memories a worker reads of a session (140 in the code)
  TextMax,    \* memories it puts into a summary (24 in the code)
  Decodes,    \* whether the driver gives a task's payload as an object
  Aware,      \* whether it gives a memory's time with its time zone
  MaxFaults,  \* bound: statements that throw, and processes that die
  NoSession

Msgs   == 1..MaxMsgs
Tasks  == 1..MaxTasks
NoTask == 0
Enqueuers == Sessions \cup Sweeps   \* a timer is named by its session
TaskStatus == {"none", "QUEUED", "IN_PROGRESS", "COMPLETED", "FAILED"}

ASSUME DnaSessionsAssumption ==
  /\ Sessions \cap Sweeps = {}
  /\ NoSession \notin Sessions
  /\ MaxMsgs \in Nat /\ MaxTasks \in Nat
  /\ ReadMax \in Nat /\ TextMax \in Nat
  /\ Decodes \subseteq BOOLEAN /\ Aware \subseteq BOOLEAN
  /\ Limit \in Nat \ {0} /\ Count \in Nat \ {0} /\ MaxFaults \in Nat

VARIABLES
  home,     \* session of a message that has been sent
  known,    \* messages whose activity is registered
  kept,     \* memories that are stored, not archived
  row,      \* session_activity: there, idle, and queued before the last message
  timer,    \* sessions whose idle timer runs
  enq,      \* timers' callbacks and sweeps in progress
  task,     \* claim_check_tasks: session, status, version
  stream,   \* pointers no worker has been given yet
  acked,    \* pointers that are acknowledged
  worker,   \* the workers, with the pointers they have been given
  faults,   \* faults so far
  settled,  \* ghost: memories given to the summary, or archived as worthless
  left,     \* ghost: messages a worker raised on, or that exceed a summary
  raced,    \* ghost: messages that met the queueing of their session
  lost,     \* ghost: messages whose task was lost by a fault
  overlap   \* ghost: sessions two enqueuers found due at the same time

vars == <<home, known, kept, row, timer, enq, task, stream, acked, worker, faults,
          settled, left, raced, lost, overlap>>

said   == {m \in Msgs : home[m] # NoSession}
Of(s)  == {m \in Msgs : home[m] = s}
Silent == [there |-> FALSE, idle |-> FALSE, due |-> FALSE]
Rest   == [pc |-> "rest", todo |-> {}, at |-> NoSession, task |-> NoTask,
           ok |-> FALSE, seen |-> {}]
Ready  == [pc |-> "read", batch |-> <<>>, version |-> 0, found |-> {}]

EnqPc  == {"check", "insert", "push", "note", "mark", "next"}
WorkPc == {"fetch", "start", "search", "archive", "persist", "done", "ack"}

TypeOK ==
  /\ home \in [Msgs -> Sessions \cup {NoSession}]
  /\ known \subseteq said /\ kept \subseteq said
  /\ row \in [Sessions -> [there : BOOLEAN, idle : BOOLEAN, due : BOOLEAN]]
  /\ timer \subseteq Sessions
  /\ enq \in [Enqueuers -> [pc : EnqPc, todo : SUBSET Sessions,
                            at : Sessions \cup {NoSession},
                            task : Tasks \cup {NoTask}, ok : BOOLEAN,
                            seen : SUBSET Msgs] \cup {Rest}]
  /\ task \in [Tasks -> [of : Sessions \cup {NoSession}, status : TaskStatus,
                         version : 0..3, seen : SUBSET Msgs]]
  /\ stream \in Seq(Tasks)
  /\ acked \subseteq Tasks
  /\ worker \in [Workers -> [pc : WorkPc, batch : Seq(Tasks) \ {<<>>},
                             version : 0..3, found : SUBSET Msgs] \cup {Ready}]
  /\ faults \in 0..MaxFaults
  /\ settled \subseteq said /\ left \subseteq said
  /\ raced \subseteq said /\ lost \subseteq said
  /\ overlap \subseteq Sessions

Init ==
  /\ home = [m \in Msgs |-> NoSession]
  /\ known = {} /\ kept = {}
  /\ row = [s \in Sessions |-> Silent]
  /\ timer = {}
  /\ enq = [e \in Enqueuers |-> Rest]
  /\ task = [t \in Tasks |-> [of |-> NoSession, status |-> "none",
                              version |-> 0, seen |-> {}]]
  /\ stream = <<>>
  /\ acked = {}
  /\ worker = [w \in Workers |-> Ready]
  /\ faults = 0
  /\ settled = {} /\ left = {} /\ raced = {} /\ lost = {}
  /\ overlap = {}

messages == <<home, known, kept>>
queue    == <<task, stream, acked, worker>>
ghosts   == <<settled, left, raced, lost, overlap>>

Fault == faults < MaxFaults /\ faults' = faults + 1

-----------------------------------------------------------------------------
(* A message: its time is taken, its activity registered and its memory     *)
(* stored, in any order.                                                    *)

Send(m, s) ==
  /\ m = Cardinality(said) + 1
  /\ home' = [home EXCEPT ![m] = s]
  /\ UNCHANGED <<known, kept, row, timer, enq, queue, faults, ghosts>>

Store(m) ==
  /\ m \in said \ kept /\ m \notin settled
  /\ kept' = kept \cup {m}
  /\ UNCHANGED <<home, known, row, timer, enq, queue, faults, ghosts>>

\* registerSessionActivity: the time the message came at replaces the time of
\* the last message, and is before last_queued_at when the session was queued
\* in between; the timer starts again.
\* Mutant: the timer is started and the row is left as it is.
ActivityUnwritten(s, late) == row[s]
Activity(s, late) == [there |-> TRUE, idle |-> FALSE, due |-> ~late]

Register(m) ==
  LET s    == home[m]
      late == m \in raced
  IN
  /\ m \in said \ known
  /\ known' = known \cup {m}
  /\ row' = [row EXCEPT ![s] = Activity(s, late)]
  /\ timer' = timer \cup {s}
  \* An older time hides the newer messages as well.
  /\ raced' = IF late THEN raced \cup (Of(s) \cap known) ELSE raced
  /\ UNCHANGED <<home, kept, enq, queue, faults, settled, left, lost, overlap>>

RegisterFails(m) ==
  /\ m \in said \ known /\ Fault
  /\ known' = known \cup {m}
  /\ lost' = lost \cup {m}
  /\ UNCHANGED <<home, kept, row, timer, enq, queue, settled, left, raced, overlap>>

\* The idle window passes.  Bound: a request is served within the window.
Age(s) ==
  /\ row[s].there /\ ~row[s].idle
  /\ Of(s) \subseteq known /\ Of(s) \subseteq kept \cup settled
  /\ row' = [row EXCEPT ![s].idle = TRUE]
  /\ UNCHANGED <<messages, timer, enq, queue, faults, ghosts>>

-----------------------------------------------------------------------------
(* Queueing an idle session.                                                *)

\* Mutant: last_queued_at is not looked at.
DueAlways(s) == row[s].there /\ row[s].idle
Due(s) == row[s].there /\ row[s].idle /\ row[s].due

\* Sessions another enqueuer is about to queue.
InHand(e) == UNION {enq[f].todo \cup {enq[f].at} : f \in Enqueuers \ {e}}

\* The timer goes off.
Fire(s) ==
  /\ s \in timer /\ row[s].idle /\ enq[s] = Rest
  /\ timer' = timer \ {s}
  /\ enq' = [enq EXCEPT ![s] = [Rest EXCEPT !.pc = "check", !.at = s]]
  /\ UNCHANGED <<messages, row, queue, faults, ghosts>>

\* enqueueIdleSessionIfDue
Check(s) ==
  /\ enq[s].pc = "check"
  /\ IF Due(s)
     THEN /\ enq' = [enq EXCEPT ![s].pc = "insert", ![s].seen = Of(s) \cap known]
          /\ overlap' = overlap \cup (InHand(s) \cap {s})
     ELSE enq' = [enq EXCEPT ![s] = Rest] /\ overlap' = overlap
  /\ UNCHANGED <<messages, row, timer, queue, faults, settled, left, raced, lost>>

\* enqueueIdleSessionsForOrg lists the sessions and queues one after another.
List(e) ==
  /\ enq[e] = Rest
  /\ \E S \in SUBSET {s \in Sessions : Due(s)} :
       /\ S # {} /\ Cardinality(S) <= Limit
       /\ enq' = [enq EXCEPT ![e] = [Rest EXCEPT !.pc = "next", !.todo = S,
                                     !.seen = known]]
       /\ overlap' = overlap \cup (InHand(e) \cap S)
  /\ UNCHANGED <<messages, row, timer, queue, faults, settled, left, raced, lost>>

Turn(e) ==
  /\ enq[e].pc = "next"
  /\ \/ \E s \in enq[e].todo :
          enq' = [enq EXCEPT ![e].pc = "insert", ![e].at = s,
                             ![e].todo = @ \ {s}]
     \/ enq[e].todo = {} /\ enq' = [enq EXCEPT ![e] = Rest]
  /\ UNCHANGED <<messages, row, timer, queue, faults, ghosts>>

To(e, l) == enq' = [enq EXCEPT ![e].pc = l]

\* enqueueClaimCheckTask: the row, its pointer, the pointer's id in the row.
Insert(e) ==
  /\ enq[e].pc = "insert"
  /\ \E t \in Tasks :
       /\ t = Cardinality({u \in Tasks : task[u].status # "none"}) + 1
       /\ task' = [task EXCEPT ![t] = [of |-> enq[e].at, status |-> "QUEUED",
                                       version |-> 1,
                                       seen |-> enq[e].seen \cap Of(enq[e].at)]]
       /\ enq' = [enq EXCEPT ![e].pc = "push", ![e].task = t]
  /\ UNCHANGED <<messages, row, timer, stream, acked, worker, faults, ghosts>>

Push(e) ==
  /\ enq[e].pc = "push"
  /\ stream' = Append(stream, enq[e].task)
  /\ enq' = [enq EXCEPT ![e].pc = "note", ![e].ok = TRUE]
  /\ UNCHANGED <<messages, row, timer, task, acked, worker, faults, ghosts>>

\* A failure of Redis is an answer, not an exception: the session is marked.
PushFails(e) ==
  /\ enq[e].pc = "push" /\ Fault
  /\ enq' = [enq EXCEPT ![e].pc = "mark", ![e].ok = FALSE]
  /\ UNCHANGED <<messages, row, timer, queue, ghosts>>

\* The pointer's id is written to the task's row, which keeps its version.
Note(e) ==
  /\ enq[e].pc = "note"
  /\ To(e, "mark")
  /\ UNCHANGED <<messages, row, timer, queue, faults, ghosts>>

\* markSessionQueued: last_queued_at = now, unless the session was queued since
\* its last message.
Mark(e) ==
  LET s == enq[e].at
      missed == Of(s) \ enq[e].seen
  IN
  /\ enq[e].pc = "mark"
  /\ row' = [row EXCEPT ![s].due = FALSE]
  /\ IF row[s].due
     THEN /\ raced' = raced \cup missed
          /\ lost' = IF enq[e].ok THEN lost ELSE lost \cup (Of(s) \ settled)
     ELSE UNCHANGED <<raced, lost>>
  /\ enq' = [enq EXCEPT ![e] =
               IF e \in Sweeps
               THEN [@ EXCEPT !.pc = "next", !.at = NoSession, !.task = NoTask,
                              !.ok = FALSE]
               ELSE Rest]
  /\ UNCHANGED <<messages, timer, queue, faults, settled, left, overlap>>

\* A statement throws, and what is left of the callback or sweep is not done.
EnqueueFails(e) ==
  /\ enq[e] # Rest /\ Fault
  /\ enq' = [enq EXCEPT ![e] = Rest]
  /\ UNCHANGED <<messages, row, timer, queue, ghosts>>

\* The application restarts: its timers and what it was doing are gone.
Restart ==
  /\ Fault
  /\ timer' = {}
  /\ enq' = [e \in Enqueuers |-> Rest]
  /\ UNCHANGED <<messages, row, queue, ghosts>>

-----------------------------------------------------------------------------
(* The Python workers.                                                      *)

Go(w, l) == worker' = [worker EXCEPT ![w].pc = l]
Current(w) == Head(worker[w].batch)
Session(w) == task[Current(w)].of

\* What is left of the batch, after the pointer that has been dealt with.
Forward(w) ==
  worker' = [worker EXCEPT ![w] =
               IF Len(@.batch) = 1 THEN Ready
               ELSE [pc |-> "fetch", batch |-> Tail(@.batch), version |-> 0,
                     found |-> {}]]

\* xreadgroup: the first pointers of the stream, given to this worker only.
ReadGroup(w) ==
  /\ worker[w] = Ready /\ stream # <<>>
  /\ LET n == IF Len(stream) < Count THEN Len(stream) ELSE Count IN
     /\ worker' = [worker EXCEPT ![w].pc = "fetch",
                                 ![w].batch = SubSeq(stream, 1, n)]
     /\ stream' = SubSeq(stream, n + 1, Len(stream))
  /\ UNCHANGED <<messages, row, timer, enq, task, acked, faults, ghosts>>

\* What is not summarised of the sessions whose pointers are given up.
Unread(w, n) ==
  UNION {(known \cap Of(task[worker[w].batch[i]].of)) \ settled : i \in 1..n}

\* An exception outside of the task's try, or the end of the process, gives up
\* the whole batch: the pointers stay pending and nobody claims them.
GiveUp(w) == worker' = [worker EXCEPT ![w] = Ready]

\* fetch_claim_task makes a dict of the payload.
Fetch(w) ==
  /\ worker[w].pc = "fetch" /\ TRUE \in Decodes
  /\ worker' = [worker EXCEPT ![w].pc = "start",
                              ![w].version = task[Current(w)].version]
  /\ UNCHANGED <<messages, row, timer, enq, task, stream, acked, faults, ghosts>>

FetchRaises(w) ==
  /\ worker[w].pc = "fetch" /\ FALSE \in Decodes
  /\ GiveUp(w)
  /\ left' = left \cup Unread(w, Len(worker[w].batch))
  /\ UNCHANGED <<messages, row, timer, enq, task, stream, acked, faults, settled,
                 raced, lost, overlap>>

\* update_claim_check_task_status_occ
Occ(t, version, status) ==
  IF task[t].version = version
  THEN [task EXCEPT ![t].status = status, ![t].version = @ + 1]
  ELSE task

Start(w) ==
  LET v == worker[w].version IN
  /\ worker[w].pc = "start"
  /\ task' = Occ(Current(w), v, "IN_PROGRESS")
  /\ Go(w, IF task[Current(w)].version = v THEN "search" ELSE "ack")
  /\ UNCHANGED <<messages, row, timer, enq, stream, acked, faults, ghosts>>

\* The second status change expects the version the first one made.
\* Mutant: it expects the version that was fetched.
NextVersionSame(v) == v
NextVersion(v) == v + 1

\* The newest of a set of memories, whose times are not modelled.
Newest(S, max) ==
  {N \in SUBSET S : Cardinality(N) = IF Cardinality(S) < max THEN Cardinality(S)
                                     ELSE max}

\* fetch_session_memories
Search(w) ==
  LET there == kept \cap Of(Session(w)) IN
  /\ worker[w].pc = "search"
  /\ \E N \in Newest(there, ReadMax) :
       /\ worker' = [worker EXCEPT ![w].pc = "archive", ![w].found = N]
       /\ left' = left \cup (there \ N)
  /\ UNCHANGED <<messages, row, timer, enq, task, stream, acked, faults, settled,
                 raced, lost, overlap>>

\* An exception while the task is in progress is stored with it.
Fail(w) ==
  /\ task' = Occ(Current(w), NextVersion(worker[w].version), "FAILED")
  /\ Go(w, "ack")

\* archive_low_scoring_memories scores the memories that are not pinned by their
\* age; the others go into the summary.
Archive(w) ==
  /\ worker[w].pc = "archive"
  /\ \E low \in SUBSET worker[w].found :
       /\ low # {} => TRUE \in Aware
       /\ kept' = kept \ low
       /\ settled' = settled \cup low
       /\ worker' = [worker EXCEPT ![w].pc = "persist", ![w].found = @ \ low]
  /\ UNCHANGED <<home, known, row, timer, enq, task, stream, acked, faults, left,
                 raced, lost, overlap>>

ArchiveRaises(w) ==
  /\ worker[w].pc = "archive" /\ worker[w].found # {} /\ FALSE \in Aware
  /\ Fail(w)
  /\ left' = left \cup Unread(w, 1)
  /\ UNCHANGED <<messages, row, timer, enq, stream, acked, faults, settled, raced,
                 lost, overlap>>

\* persist_session_summary
Persist(w) ==
  /\ worker[w].pc = "persist"
  /\ \E N \in Newest(worker[w].found, TextMax) :
       /\ settled' = settled \cup N
       /\ left' = left \cup (worker[w].found \ N)
  /\ Go(w, "done")
  /\ UNCHANGED <<messages, row, timer, enq, task, stream, acked, faults, raced,
                 lost, overlap>>

Complete(w) ==
  /\ worker[w].pc = "done"
  /\ task' = Occ(Current(w), NextVersion(worker[w].version), "COMPLETED")
  /\ Go(w, "ack")
  /\ UNCHANGED <<messages, row, timer, enq, stream, acked, faults, ghosts>>

Ack(w) ==
  /\ worker[w].pc = "ack"
  /\ acked' = acked \cup {Current(w)}
  /\ Forward(w)
  /\ UNCHANGED <<messages, row, timer, enq, task, stream, faults, ghosts>>

ProcessFails(w) ==
  /\ worker[w].pc \in {"search", "archive", "persist", "done"} /\ Fault
  /\ Fail(w)
  /\ lost' = lost \cup Unread(w, 1)
  /\ UNCHANGED <<messages, row, timer, enq, stream, acked, settled, left, raced,
                 overlap>>

WorkerFails(w) ==
  /\ worker[w] # Ready /\ Fault
  /\ GiveUp(w)
  /\ lost' = lost \cup Unread(w, Len(worker[w].batch))
  /\ UNCHANGED <<messages, row, timer, enq, task, stream, acked, settled, left,
                 raced, overlap>>

-----------------------------------------------------------------------------
Enqueue(e) ==
  Turn(e) \/ Insert(e) \/ Push(e) \/ Note(e) \/ Mark(e)

Work(w) ==
  \/ ReadGroup(w) \/ Fetch(w) \/ FetchRaises(w) \/ Start(w) \/ Search(w)
  \/ Archive(w) \/ ArchiveRaises(w) \/ Persist(w) \/ Complete(w) \/ Ack(w)

Faults ==
  \/ \E m \in Msgs : RegisterFails(m)
  \/ \E e \in Enqueuers : PushFails(e) \/ EnqueueFails(e)
  \/ Restart
  \/ \E w \in Workers : ProcessFails(w) \/ WorkerFails(w)

Next ==
  \/ \E m \in Msgs : (\E s \in Sessions : Send(m, s)) \/ Store(m) \/ Register(m)
  \/ \E s \in Sessions : Age(s) \/ Fire(s) \/ Check(s)
  \/ \E e \in Sweeps : List(e)
  \/ \E e \in Enqueuers : Enqueue(e)
  \/ \E w \in Workers : Work(w)
  \/ Faults

Spec == Init /\ [][Next]_vars

-----------------------------------------------------------------------------
(* Properties.                                                              *)

\* A message on its way: the pointer of a task of its session is in the stream
\* or with a worker that has not looked for memories yet, or that has found it.
Before(w, t) == \E i \in 2..Len(worker[w].batch) : worker[w].batch[i] = t
OnItsWay(m) ==
  \E t \in Tasks :
    /\ task[t].of = home[m]
    /\ \/ \E i \in DOMAIN stream : stream[i] = t
       \/ \E w \in Workers :
            \/ Before(w, t)
            \/ /\ worker[w] # Ready /\ Current(w) = t
               /\ \/ worker[w].pc \in {"fetch", "start", "search"}
                  \/ worker[w].pc \in {"archive", "persist"} /\ m \in worker[w].found

\* No message is forgotten: once it is registered its session is due, or it is
\* on its way to a summary, or it has been given to one.  The exceptions: it came
\* while its session was being queued; the task's pointer or its worker was lost;
\* a worker raised on the task's payload or on the time of a memory; or the
\* session had more memories than a worker reads or puts into a summary.
NothingForgotten ==
  \A m \in known \cap kept :
    m \in settled \cup raced \cup lost \cup left \/ row[home[m]].due \/ OnItsWay(m)

\* A pointer is acknowledged only when its task has come to an end, although
\* the application still writes to the row that the worker has claimed.
AckedIsSettled == \A t \in acked : task[t].status \in {"COMPLETED", "FAILED"}

\* One silence of a session is queued once, unless the timer and a sweep found
\* it at the same time, or a fault kept it from being marked.
SilenceQueuedOnce ==
  \A t, u \in Tasks :
    /\ t # u
    /\ task[t].status # "none" /\ task[u].status # "none"
    /\ task[t].of = task[u].of /\ task[t].seen = task[u].seen
    => task[t].of \in overlap \/ faults > 0

=============================================================================
