-------------------------- MODULE DnaSessionsProofs --------------------------
(***************************************************************************)
(* What holds of DnaSessions for every number of sessions, messages, tasks, *)
(* sweeps, workers and faults.                                             *)
(***************************************************************************)
EXTENDS DnaSessions, FiniteSetTheorems, SequenceTheorems, TLAPS

-----------------------------------------------------------------------------
\* The parts of the inductive invariant.

In(q, t)    == \E i \in 1..Len(q) : q[i] = t
Distinct(q) == \A i, j \in 1..Len(q) : q[i] = q[j] => i = j

\* Messages and tasks are numbered in their order.
Used == {t \in Tasks : task[t].status # "none"}
Prefix(S) == \A t \in S, u \in Nat \ {0} : u <= t => u \in S
Numbered == Prefix(said) /\ Prefix(Used)

\* A task is one of a session, and what it is for is known.
TaskOf(t) ==
  task[t].status # "none" =>
    task[t].of \in Sessions /\ task[t].seen \subseteq known \cap Of(task[t].of)

\* Where an enqueuer may be, and what it carries there.
Past(e) == enq[e].pc \notin {"rest", "check"}
EnqOf(e) ==
  /\ enq[e].seen \subseteq known
  /\ enq[e].pc = "check" => e \in Sessions
  /\ e \in Sessions /\ enq[e].pc # "rest" => enq[e].at = e /\ enq[e].todo = {}
  /\ enq[e].pc = "next" => enq[e].at = NoSession
  /\ enq[e].pc \in {"insert", "push", "note", "mark"} =>
       enq[e].at \in Sessions /\ enq[e].at \notin enq[e].todo
  /\ enq[e].pc \in {"push", "note", "mark"} =>
       /\ enq[e].task \in Tasks /\ task[enq[e].task].status # "none"
       /\ task[enq[e].task].of = enq[e].at
Shape == /\ \A t \in Tasks : TaskOf(t)
         /\ \A e \in Enqueuers : EnqOf(e)
         /\ \A w \in Workers : worker[w].found \subseteq said

\* A pointer is in one place.
Pushing(e, t) == enq[e].pc = "push" /\ enq[e].task = t
Holds(w, t)   == In(worker[w].batch, t)
Pointers ==
  /\ \A t \in Tasks : task[t].status = "none" =>
       /\ ~ In(stream, t) /\ t \notin acked
       /\ \A w \in Workers : ~ Holds(w, t)
  /\ Distinct(stream)
  /\ \A w \in Workers : Distinct(worker[w].batch)
  /\ \A t \in Tasks : In(stream, t) => t \notin acked /\ \A w \in Workers : ~ Holds(w, t)
  /\ \A w \in Workers, t \in Tasks : Holds(w, t) =>
       t \notin acked /\ \A v \in Workers \ {w} : ~ Holds(v, t)
  /\ \A e \in Enqueuers, t \in Tasks : Pushing(e, t) =>
       /\ ~ In(stream, t) /\ t \notin acked
       /\ \A w \in Workers : ~ Holds(w, t)
       /\ \A f \in Enqueuers \ {e} : ~ Pushing(f, t)

\* The version of a task is the one its worker expects.
VersionOf(w) ==
  /\ \A t \in Tasks : Before(w, t) => task[t].version = 1
  /\ worker[w].pc \in {"fetch", "start"} => task[Current(w)].version = 1
  /\ worker[w].pc = "start" => worker[w].version = 1
  /\ worker[w].pc \in {"search", "archive", "persist", "done"} =>
       worker[w].version = 1 /\ task[Current(w)].version = 2
  /\ worker[w].pc = "ack" => task[Current(w)].status \in {"COMPLETED", "FAILED"}
Versions ==
  /\ \A t \in Tasks : In(stream, t) => task[t].version = 1
  /\ \A e \in Enqueuers, t \in Tasks : Pushing(e, t) => task[t].version = 1
  /\ \A w \in Workers : VersionOf(w)

\* What is queued is stored.
Stored ==
  /\ \A s \in Sessions :
       row[s].idle => Of(s) \cap known \subseteq kept \cup settled \cup lost \cup left
  /\ \A e \in Enqueuers : Past(e) =>
       \A s \in enq[e].todo \cup {enq[e].at} :
         s \in Sessions =>
           enq[e].seen \cap Of(s) \subseteq kept \cup settled \cup lost \cup left

\* A message is settled, excused, due, or on its way.
Carried(m) == m \in settled \cup lost \cup left \/ (m \in kept /\ OnItsWay(m))
Remembered ==
  /\ \A m \in known : m \in raced \/ row[home[m]].due \/ Carried(m)
  /\ \A e \in Enqueuers :
       enq[e].pc = "note" \/ (enq[e].pc = "mark" /\ enq[e].ok) =>
         \A m \in enq[e].seen \cap Of(enq[e].at) : Carried(m)

\* One enqueuer has a session in hand, and its task is a new one.
InHandOf(e, s) == Past(e) /\ s \in enq[e].todo \cup {enq[e].at}
Excused(s) == s \in overlap \/ faults > 0
Inserted(e, s) == enq[e].pc \in {"push", "note", "mark"} /\ enq[e].at = s
Queueing ==
  /\ \A e, f \in Enqueuers, s \in Sessions :
       e # f /\ InHandOf(e, s) /\ InHandOf(f, s) => Excused(s)
  /\ \A e \in Enqueuers, s \in Sessions, t \in Used :
       /\ InHandOf(e, s) /\ task[t].of = s
       /\ ~ (Inserted(e, s) /\ t = enq[e].task)
       => task[t].seen # enq[e].seen \cap Of(s) \/ Excused(s)
  /\ \A s \in Sessions, t \in Used :
       row[s].due /\ task[t].of = s /\ (\A e \in Enqueuers : ~ InHandOf(e, s)) =>
         task[t].seen # Of(s) \cap known \/ Excused(s)

IInv == /\ TypeOK /\ Numbered /\ Shape /\ Pointers /\ Versions /\ AckedIsSettled
        /\ Stored /\ Remembered /\ Queueing /\ SilenceQueuedOnce

-----------------------------------------------------------------------------
\* Pointers in sequences.

LEMMA Appending ==
  ASSUME NEW q \in Seq(Tasks), NEW t \in Tasks
  PROVE  /\ Append(q, t) \in Seq(Tasks)
         /\ \A u : In(Append(q, t), u) <=> In(q, u) \/ u = t
         /\ Distinct(q) /\ ~ In(q, t) => Distinct(Append(q, t))
<1>1. /\ Append(q, t) \in Seq(Tasks) /\ Len(q) \in Nat /\ Len(Append(q, t)) = Len(q) + 1
      /\ \A i \in 1..Len(q) : Append(q, t)[i] = q[i]
      /\ Append(q, t)[Len(q) + 1] = t
  OBVIOUS
<1>2. \A i \in 1..(Len(q) + 1) : i \in 1..Len(q) \/ i = Len(q) + 1
  BY <1>1
<1>3. Len(q) + 1 \in 1..(Len(q) + 1) /\ 1..Len(q) \subseteq 1..(Len(q) + 1)
  BY <1>1
<1> DEFINE a == Append(q, t)
           n == Len(q)
           I == 1..n
           J == 1..(n + 1)
<1>4. /\ \A i \in I : a[i] = q[i]
      /\ a[n + 1] = t /\ \A i \in J : i \in I \/ i = n + 1
      /\ n + 1 \in J /\ I \subseteq J
      /\ \A u : In(a, u) <=> \E i \in J : a[i] = u
      /\ \A u : In(q, u) <=> \E i \in I : q[i] = u
      /\ Distinct(a) <=> \A i, j \in J : a[i] = a[j] => i = j
      /\ Distinct(q) <=> \A i, j \in I : q[i] = q[j] => i = j
  BY <1>1, <1>2, <1>3 DEF In, Distinct
<1> HIDE DEF a, n, I, J
<1>5. \A u : In(a, u) <=> In(q, u) \/ u = t
  BY <1>4
<1>6. Distinct(q) /\ ~ In(q, t) => Distinct(a)
  BY <1>4
<1> QED
  BY <1>1, <1>5, <1>6 DEF a

LEMMA Splitting ==
  ASSUME NEW q \in Seq(Tasks), NEW n \in 1..Len(q)
  PROVE  LET a == SubSeq(q, 1, n)
             b == SubSeq(q, n + 1, Len(q))
         IN  /\ a \in Seq(Tasks) /\ b \in Seq(Tasks) /\ a # <<>>
             /\ \A u : In(q, u) <=> In(a, u) \/ In(b, u)
             /\ Distinct(q) => /\ Distinct(a) /\ Distinct(b)
                               /\ \A u : ~ (In(a, u) /\ In(b, u))
<1> DEFINE a == SubSeq(q, 1, n)
           b == SubSeq(q, n + 1, Len(q))
           l == Len(q)
<1>1. l \in Nat /\ n \in Nat /\ 1 <= n /\ n <= l /\ \A i \in 1..l : q[i] \in Tasks
  BY ElementOfSeq, LenProperties
<1>2. /\ a \in Seq(Tasks) /\ Len(a) = n /\ \A i \in 1..n : a[i] = q[i]
  <2>1. 1 \in Int /\ n \in Int /\ \A i \in 1..n : q[i] \in Tasks
    BY <1>1
  <2> QED
    BY <1>1, <2>1, SubSeqProperties
<1>3. /\ b \in Seq(Tasks) /\ Len(b) = l - n /\ \A i \in 1..(l - n) : b[i] = q[n + i]
  <2>1. n + 1 \in Int /\ l \in Int /\ \A i \in (n + 1)..l : q[i] \in Tasks
    BY <1>1
  <2>2. /\ b \in Seq(Tasks) /\ Len(b) = IF n + 1 <= l THEN l - (n + 1) + 1 ELSE 0
        /\ \A i \in 1..(l - (n + 1) + 1) : b[i] = q[(n + 1) + i - 1]
    BY <2>1, SubSeqProperties
  <2>3. /\ \A i \in 1..(l - n) : (n + 1) + i - 1 = n + i /\ i \in 1..(l - (n + 1) + 1)
        /\ (IF n + 1 <= l THEN l - (n + 1) + 1 ELSE 0) = l - n
    BY <1>1
  <2> HIDE DEF b
  <2> QED
    BY <2>2, <2>3 DEF b
<1>4. a # <<>>
  BY <1>1, <1>2
<1> HIDE DEF a, b, l
<1>5. \A i \in 1..(l - n) : n + i \in 1..l /\ n + i \notin 1..n
  BY <1>1
<1>6. \A i \in 1..l : i \in 1..n \/ \E j \in 1..(l - n) : i = n + j
  <2>1. ASSUME NEW i \in 1..l, i \notin 1..n PROVE i - n \in 1..(l - n) /\ i = n + (i - n)
    BY <1>1, <2>1
  <2> QED
    BY <2>1
<1>7. 1..n \subseteq 1..l
  BY <1>1
<1>8. \A u : In(q, u) <=> \E i \in 1..l : q[i] = u
  BY DEF In, l
<1>9. \A u : In(q, u) <=> In(a, u) \/ In(b, u)
  <2>1. ASSUME NEW u, In(a, u) PROVE In(q, u)
    BY <1>2, <1>7, <1>8, <2>1 DEF In
  <2>2. ASSUME NEW u, In(b, u) PROVE In(q, u)
    BY <1>3, <1>5, <1>8, <2>2 DEF In
  <2>3. ASSUME NEW u, In(q, u), ~ In(b, u) PROVE In(a, u)
    <3>1. PICK i \in 1..l : q[i] = u
      BY <1>8, <2>3
    <3>2. i \notin 1..n => In(b, u)
      BY <1>3, <1>6, <3>1 DEF In
    <3> QED
      BY <1>2, <2>3, <3>1, <3>2 DEF In
  <2> QED
    BY <2>1, <2>2, <2>3
<1>10. ASSUME Distinct(q)
       PROVE  Distinct(a) /\ Distinct(b) /\ \A u : ~ (In(a, u) /\ In(b, u))
  <2>1. \A i, j \in 1..l : q[i] = q[j] => i = j
    BY <1>10 DEF Distinct, l
  <2>2. Distinct(a)
    BY <1>2, <1>7, <2>1 DEF Distinct
  <2>3. Distinct(b)
    <3>1. \A i, j \in 1..(l - n) : n + i = n + j => i = j
      BY <1>1
    <3> QED
      BY <1>3, <1>5, <2>1, <3>1 DEF Distinct
  <2>4. ASSUME NEW u, In(a, u), In(b, u) PROVE FALSE
    <3>1. PICK i \in 1..n : q[i] = u
      BY <1>2, <2>4 DEF In
    <3>2. PICK j \in 1..(l - n) : q[n + j] = u
      BY <1>3, <2>4 DEF In
    <3> QED
      BY <1>5, <1>7, <2>1, <3>1, <3>2
  <2> QED
    BY <2>2, <2>3, <2>4
<1> QED
  BY <1>2, <1>3, <1>4, <1>9, <1>10 DEF a, b, l

LEMMA Dropping ==
  ASSUME NEW q \in Seq(Tasks), q # <<>>
  PROVE  /\ Head(q) \in Tasks /\ Tail(q) \in Seq(Tasks) /\ Len(q) \in Nat
         /\ Len(q) # 1 => Tail(q) # <<>>
         /\ Len(q) = 1 => \A u : ~ In(Tail(q), u)
         /\ \A u : In(q, u) <=> u = Head(q) \/ In(Tail(q), u)
         /\ \A u : In(Tail(q), u) <=> \E i \in 2..Len(q) : q[i] = u
         /\ Distinct(q) => Distinct(Tail(q)) /\ ~ In(Tail(q), Head(q))
<1> DEFINE b == Tail(q)
           l == Len(q)
<1>1. /\ l \in Nat /\ l >= 1 /\ Head(q) \in Tasks /\ Head(q) = q[1] /\ b \in Seq(Tasks)
      /\ Len(b) = l - 1 /\ \A i \in 1..(l - 1) : b[i] = q[i + 1]
  BY HeadTailProperties, LenProperties, EmptySeq
<1>2. l # 1 => b # <<>>
  <2> HIDE DEF b
  <2>1. Len(<<>>) = 0
    BY EmptySeq
  <2> QED
    BY <1>1, <2>1
<1>3. l = 1 => \A u : ~ In(b, u)
  BY <1>1 DEF In
<1> HIDE DEF b, l
<1>4. \A i \in 1..(l - 1) : i + 1 \in 2..l
  BY <1>1
<1>5. \A i \in 2..l : \E j \in 1..(l - 1) : i = j + 1
  <2>1. \A i \in 2..l : i - 1 \in 1..(l - 1) /\ i = (i - 1) + 1
    BY <1>1
  <2> QED
    BY <2>1
<1>6. /\ \A i \in 1..l : i = 1 \/ i \in 2..l
      /\ 1 \in 1..l /\ 2..l \subseteq 1..l /\ 1 \notin 2..l
  BY <1>1
<1>7. \A u : In(b, u) <=> \E i \in 2..l : q[i] = u
  <2>1. \A u : In(b, u) <=> \E j \in 1..(l - 1) : b[j] = u
    BY <1>1 DEF In
  <2>2. \A u : (\E j \in 1..(l - 1) : b[j] = u) <=> \E j \in 1..(l - 1) : q[j + 1] = u
    BY <1>1
  <2>3. \A u : (\E j \in 1..(l - 1) : q[j + 1] = u) <=> \E i \in 2..l : q[i] = u
    BY <1>4, <1>5
  <2> QED
    BY <2>1, <2>2, <2>3
<1>8. \A u : In(q, u) <=> u = Head(q) \/ In(b, u)
  BY <1>1, <1>6, <1>7 DEF In, l
<1>9. ASSUME Distinct(q) PROVE Distinct(b) /\ ~ In(b, Head(q))
  <2>1. \A i, j \in 1..l : q[i] = q[j] => i = j
    BY <1>9 DEF Distinct, l
  <2>2. \A i, j \in 1..(l - 1) : i + 1 = j + 1 => i = j
    BY <1>1
  <2>3. Distinct(b)
    BY <1>1, <1>4, <1>6, <2>1, <2>2 DEF Distinct
  <2> QED
    BY <1>1, <1>6, <1>7, <2>1, <2>3
<1> QED
  BY <1>1, <1>2, <1>3, <1>7, <1>8, <1>9 DEF b, l

LEMMA NoneIn == /\ \A u : ~ In(<<>>, u)
                /\ Distinct(<<>>) /\ <<>> \in Seq(Tasks)
  BY DEF In, Distinct

-----------------------------------------------------------------------------
\* The next number is a new one.

LEMMA Numbering ==
  ASSUME NEW N \in Nat, NEW S \in SUBSET (1..N), Prefix(S),
         NEW m \in 1..N, m = Cardinality(S) + 1
  PROVE  m \notin S /\ Prefix(S \cup {m})
<1>1. IsFiniteSet(S) /\ Cardinality(S) \in Nat
  <2>1. 1 \in Int /\ N \in Int
    OBVIOUS
  <2>2. IsFiniteSet(1..N)
    BY <2>1, FS_Interval
  <2> QED
    BY <2>2, FS_Subset, FS_CardinalityType
<1>2. ASSUME m \in S PROVE FALSE
  <2>1. 1..m \subseteq S
    BY <1>2 DEF Prefix
  <2>2. IsFiniteSet(1..m) /\ Cardinality(1..m) = m
    BY FS_Interval
  <2> QED
    BY <1>1, <2>1, <2>2, FS_Subset
<1>3. ASSUME NEW u \in Nat \ {0}, u <= m, u \notin S \cup {m} PROVE FALSE
  <2>1. S \subseteq 1..(u - 1)
    BY <1>3 DEF Prefix
  <2>2. IsFiniteSet(1..(u - 1)) /\ Cardinality(1..(u - 1)) = u - 1
    <3>1. /\ 1 \in Int /\ u - 1 \in Int
          /\ (IF 1 > u - 1 THEN 0 ELSE (u - 1) - 1 + 1) = u - 1
      BY <1>3
    <3>2. /\ IsFiniteSet(1..(u - 1))
          /\ Cardinality(1..(u - 1)) = IF 1 > u - 1 THEN 0 ELSE (u - 1) - 1 + 1
      BY <3>1, FS_Interval
    <3> QED
      BY <3>1, <3>2
  <2>3. Cardinality(S) <= u - 1
    BY <2>1, <2>2, FS_Subset
  <2> QED
    BY <1>1, <1>3, <2>3
<1> QED
  BY <1>2, <1>3 DEF Prefix

-----------------------------------------------------------------------------
\* What the steps do to enqueuers and workers.

EnqFull  == [pc : EnqPc \cup {"rest"}, todo : SUBSET Sessions,
             at : Sessions \cup {NoSession}, task : Tasks \cup {NoTask},
             ok : BOOLEAN, seen : SUBSET Msgs]
WorkFull == [pc : WorkPc \cup {"read"}, batch : Seq(Tasks), version : 0..3,
             found : SUBSET Msgs]
Putting(e) == /\ enq' \in [Enqueuers -> EnqFull]
              /\ \A f \in Enqueuers \ {e} : enq'[f] = enq[f]
Gone(e)    == enq'[e].pc = "rest" /\ enq'[e].seen = {} /\ enq'[e].todo = {}
Moved(e)   == enq'[e].at = enq[e].at /\ enq'[e].todo = enq[e].todo /\ enq'[e].seen = enq[e].seen
Giving(w)  == /\ worker' \in [Workers -> WorkFull]
              /\ \A v \in Workers \ {w} : worker'[v] = worker[v]
Going(w, l) == worker'[w].pc = l /\ worker'[w].batch = worker[w].batch
Free(w)    == worker'[w].pc = "read" /\ worker'[w].batch = <<>> /\ worker'[w].found = {}

LEMMA Typed ==
  ASSUME TypeOK
  PROVE  /\ enq \in [Enqueuers -> EnqFull]
         /\ \A e \in Enqueuers : enq[e] \in EnqFull /\ (enq[e] = Rest <=> enq[e].pc = "rest")
         /\ worker \in [Workers -> WorkFull]
         /\ \A w \in Workers :
              /\ worker[w] \in WorkFull /\ (worker[w] = Ready <=> worker[w].pc = "read")
              /\ worker[w].pc = "read" <=> worker[w].batch = <<>>
         /\ Rest \in EnqFull /\ Rest.pc = "rest" /\ Rest.seen = {} /\ Rest.todo = {}
         /\ Rest.at = NoSession
         /\ Ready \in WorkFull /\ Ready.pc = "read" /\ Ready.batch = <<>> /\ Ready.found = {}
<1>1. /\ Rest \in EnqFull /\ Rest.pc = "rest" /\ Rest.seen = {} /\ Rest.todo = {}
      /\ Rest.at = NoSession
  BY DEF Rest, EnqFull, EnqPc
<1>2. Ready \in WorkFull /\ Ready.pc = "read" /\ Ready.batch = <<>> /\ Ready.found = {}
  BY DEF Ready, WorkFull, WorkPc
<1>3. \A e \in Enqueuers : enq[e] \in EnqFull /\ (enq[e] = Rest <=> enq[e].pc = "rest")
  <2>1. ASSUME NEW e \in Enqueuers
        PROVE  enq[e] \in EnqFull /\ (enq[e] = Rest <=> enq[e].pc = "rest")
    <3>1. CASE enq[e] = Rest
      BY <1>1, <3>1
    <3>2. CASE enq[e] # Rest
      BY <3>2 DEF TypeOK, EnqFull, EnqPc
    <3> QED
      BY <3>1, <3>2
  <2> QED
    BY <2>1
<1>4. \A w \in Workers : /\ worker[w] \in WorkFull
                         /\ worker[w] = Ready <=> worker[w].pc = "read"
                         /\ worker[w].pc = "read" <=> worker[w].batch = <<>>
  <2>1. ASSUME NEW w \in Workers
        PROVE  /\ worker[w] \in WorkFull
               /\ worker[w] = Ready <=> worker[w].pc = "read"
               /\ worker[w].pc = "read" <=> worker[w].batch = <<>>
    <3>1. CASE worker[w] = Ready
      BY <1>2, <3>1
    <3>2. CASE worker[w] # Ready
      BY <3>2 DEF TypeOK, WorkFull, WorkPc
    <3> QED
      BY <3>1, <3>2
  <2> QED
    BY <2>1
<1>5. enq \in [Enqueuers -> EnqFull]
  BY <1>3 DEF TypeOK
<1>6. worker \in [Workers -> WorkFull]
  BY <1>4 DEF TypeOK
<1> QED
  BY <1>1, <1>2, <1>3, <1>4, <1>5, <1>6

\* The types of enq and worker.
EnqType  == enq \in [Enqueuers -> [pc : EnqPc, todo : SUBSET Sessions,
                            at : Sessions \cup {NoSession},
                            task : Tasks \cup {NoTask}, ok : BOOLEAN,
                            seen : SUBSET Msgs] \cup {Rest}]
WorkType == worker \in [Workers -> [pc : WorkPc, batch : Seq(Tasks) \ {<<>>},
                             version : 0..3, found : SUBSET Msgs] \cup {Ready}]

LEMMA PutsEnq ==
  ASSUME TypeOK, NEW e \in Enqueuers, NEW c \in EnqFull, c.pc # "rest" \/ c = Rest,
         enq' = [enq EXCEPT ![e] = c]
  PROVE  EnqType' /\ Putting(e) /\ enq'[e] = c
<1>1. enq'[e] = c /\ Putting(e)
  BY Typed DEF Putting
<1>2. c \in [pc : EnqPc, todo : SUBSET Sessions, at : Sessions \cup {NoSession},
             task : Tasks \cup {NoTask}, ok : BOOLEAN, seen : SUBSET Msgs] \cup {Rest}
  BY DEF EnqFull
<1> QED
  BY <1>1, <1>2 DEF TypeOK, EnqType

LEMMA RestsEnq ==
  ASSUME TypeOK, NEW e \in Enqueuers, enq' = [enq EXCEPT ![e] = Rest]
  PROVE  EnqType' /\ Putting(e) /\ Gone(e)
  BY Typed, PutsEnq DEF Gone

LEMMA PutsWork ==
  ASSUME TypeOK, NEW w \in Workers, NEW c \in WorkFull,
         (c.pc # "read" /\ c.batch # <<>>) \/ c = Ready, worker' = [worker EXCEPT ![w] = c]
  PROVE  WorkType' /\ Giving(w) /\ worker'[w] = c
<1>1. worker'[w] = c /\ Giving(w)
  BY Typed DEF Giving
<1>2. c \in [pc : WorkPc, batch : Seq(Tasks) \ {<<>>}, version : 0..3,
             found : SUBSET Msgs] \cup {Ready}
  BY DEF WorkFull
<1> QED
  BY <1>1, <1>2 DEF TypeOK, WorkType

LEMMA GoesWork ==
  ASSUME TypeOK, NEW w \in Workers, NEW l \in WorkPc, worker[w].pc # "read", Go(w, l)
  PROVE  WorkType' /\ Giving(w) /\ Going(w, l) /\ worker'[w].version = worker[w].version
         /\ worker'[w].found = worker[w].found
<1> DEFINE c == [worker[w] EXCEPT !.pc = l]
<1>1. /\ c \in WorkFull /\ c.pc = l /\ c.batch = worker[w].batch /\ c.batch # <<>>
      /\ c.version = worker[w].version /\ c.found = worker[w].found /\ l # "read"
  BY Typed DEF WorkFull, WorkPc
<1>2. worker' = [worker EXCEPT ![w] = c]
  BY DEF Go
<1> HIDE DEF c
<1> QED
  BY <1>1, <1>2, PutsWork DEF Going

\* A worker that is at work has a current pointer.
LEMMA CurrentOf ==
  ASSUME TypeOK, NEW w \in Workers, worker[w].pc # "read"
  PROVE  /\ Current(w) \in Tasks /\ worker[w].batch \in Seq(Tasks) /\ worker[w].batch # <<>>
         /\ \A t : Before(w, t) <=> In(Tail(worker[w].batch), t)
         /\ \A t : Holds(w, t) <=> t = Current(w) \/ Before(w, t)
         /\ Distinct(worker[w].batch) => ~ Before(w, Current(w))
<1>1. worker[w].batch \in Seq(Tasks) /\ worker[w].batch # <<>>
  BY Typed DEF WorkFull
<1> QED
  BY <1>1, Dropping DEF Current, Before, Holds

-----------------------------------------------------------------------------
\* What each action does: messages and the sessions' rows.

LEMMA SendDoes ==
  ASSUME TypeOK, Numbered, NEW m \in Msgs, NEW s \in Sessions, Send(m, s)
  PROVE  /\ TypeOK' /\ UNCHANGED <<known, kept, row, enq, queue, faults, ghosts>>
         /\ m \notin said /\ said' = said \cup {m} /\ Prefix(said)'
         /\ home'[m] = s /\ \A n \in said : home'[n] = home[n]
<1>1. /\ home' \in [Msgs -> Sessions \cup {NoSession}] /\ home'[m] = s
      /\ \A n \in Msgs \ {m} : home'[n] = home[n]
  BY DEF Send, TypeOK
<1>2. m \notin said /\ Prefix(said \cup {m})
  <2>1. said \in SUBSET (1..MaxMsgs) /\ m \in 1..MaxMsgs /\ MaxMsgs \in Nat
    BY DnaSessionsAssumption DEF said, Msgs
  <2>2. m = Cardinality(said) + 1 /\ Prefix(said)
    BY DEF Send, Numbered
  <2> QED
    BY <2>1, <2>2, Numbering
<1>3. said' = said \cup {m}
  BY <1>1, DnaSessionsAssumption DEF said
<1>4. \A n \in said : home'[n] = home[n]
  BY <1>1, <1>2 DEF said
<1>5. UNCHANGED <<known, kept, row, timer, enq, queue, faults, ghosts>>
  BY DEF Send
<1>6. TypeOK'
  BY <1>1, <1>3, <1>5 DEF TypeOK, queue, ghosts
<1> QED
  BY <1>1, <1>2, <1>3, <1>4, <1>5, <1>6

LEMMA StoreDoes ==
  ASSUME TypeOK, NEW m \in Msgs, Store(m)
  PROVE  /\ TypeOK' /\ UNCHANGED <<home, known, row, enq, queue, faults, ghosts>>
         /\ m \in said /\ kept' = kept \cup {m}
  BY DEF Store, TypeOK, queue, ghosts, said

LEMMA RegisterDoes ==
  ASSUME TypeOK, NEW m \in Msgs, Register(m)
  PROVE  /\ TypeOK'
         /\ UNCHANGED <<home, kept, enq, queue, faults, settled, left, lost, overlap>>
         /\ m \in said /\ m \notin known /\ known' = known \cup {m}
         /\ home[m] \in Sessions /\ ~ row'[home[m]].idle
         /\ row'[home[m]].due <=> m \notin raced
         /\ \A s \in Sessions \ {home[m]} : row'[s] = row[s]
         /\ raced \subseteq raced'
         /\ m \in raced => Of(home[m]) \cap known \subseteq raced'
<1>1. m \in said /\ m \notin known /\ home[m] \in Sessions
  BY DEF Register, said, TypeOK
<1>2. /\ UNCHANGED <<home, kept, enq, queue, faults, settled, left, lost, overlap>>
      /\ known' = known \cup {m} /\ timer' = timer \cup {home[m]}
      /\ row' = [row EXCEPT ![home[m]] = Activity(home[m], m \in raced)]
      /\ raced' = IF m \in raced THEN raced \cup (Of(home[m]) \cap known) ELSE raced
  BY DEF Register
<1>3. /\ Activity(home[m], m \in raced) \in [there : BOOLEAN, idle : BOOLEAN, due : BOOLEAN]
      /\ ~ Activity(home[m], m \in raced).idle
      /\ Activity(home[m], m \in raced).due <=> m \notin raced
  BY DEF Activity
<1>4. /\ row' \in [Sessions -> [there : BOOLEAN, idle : BOOLEAN, due : BOOLEAN]]
      /\ row'[home[m]] = Activity(home[m], m \in raced)
      /\ \A s \in Sessions \ {home[m]} : row'[s] = row[s]
  BY <1>1, <1>2, <1>3 DEF TypeOK
<1>5. said' = said
  BY <1>2 DEF said
<1>6. known' \subseteq said /\ raced' \subseteq said /\ timer' \subseteq Sessions
  BY <1>1, <1>2 DEF TypeOK
<1>7. TypeOK'
  BY <1>2, <1>4, <1>5, <1>6 DEF TypeOK, queue
<1> QED
  BY <1>1, <1>2, <1>3, <1>4, <1>7

LEMMA RegisterFailsDoes ==
  ASSUME TypeOK, NEW m \in Msgs, RegisterFails(m)
  PROVE  /\ TypeOK'
         /\ UNCHANGED <<home, kept, row, enq, queue, settled, left, raced, overlap>>
         /\ m \in said /\ known' = known \cup {m} /\ lost' = lost \cup {m} /\ faults' > 0
<1>1. faults' \in 0..MaxFaults /\ faults' > 0
  BY DnaSessionsAssumption DEF RegisterFails, Fault, TypeOK
<1> QED
  BY <1>1 DEF RegisterFails, TypeOK, queue, said

LEMMA AgeDoes ==
  ASSUME TypeOK, NEW s \in Sessions, Age(s)
  PROVE  /\ TypeOK' /\ UNCHANGED <<messages, enq, queue, faults, ghosts>>
         /\ Of(s) \subseteq kept \cup settled
         /\ row'[s].due <=> row[s].due
         /\ \A u \in Sessions \ {s} : row'[u] = row[u]
<1>1. /\ row' \in [Sessions -> [there : BOOLEAN, idle : BOOLEAN, due : BOOLEAN]]
      /\ row'[s].due <=> row[s].due
      /\ \A u \in Sessions \ {s} : row'[u] = row[u]
  BY DEF Age, TypeOK
<1> QED
  BY <1>1 DEF Age, TypeOK, messages, queue, ghosts, said

-----------------------------------------------------------------------------
\* What each action does: the enqueuers.

LEMMA FireDoes ==
  ASSUME TypeOK, NEW s \in Sessions, Fire(s)
  PROVE  /\ TypeOK' /\ UNCHANGED <<messages, row, queue, faults, ghosts>>
         /\ s \in Enqueuers /\ Putting(s) /\ enq[s].pc = "rest"
         /\ enq'[s].pc = "check" /\ enq'[s].at = s /\ enq'[s].todo = {} /\ enq'[s].seen = {}
<1> DEFINE c == [Rest EXCEPT !.pc = "check", !.at = s]
<1>1. c \in EnqFull /\ c.pc = "check" /\ c.at = s /\ c.todo = {} /\ c.seen = {}
  BY Typed DEF EnqFull, EnqPc
<1>2. enq' = [enq EXCEPT ![s] = c] /\ s \in Enqueuers
  BY DEF Fire, Enqueuers
<1>3. EnqType' /\ Putting(s) /\ enq'[s] = c
  <2> HIDE DEF c
  <2> QED
    BY <1>1, <1>2, PutsEnq
<1>4. timer' \subseteq Sessions
  BY DEF Fire, TypeOK
<1>5. TypeOK'
  BY <1>3, <1>4 DEF Fire, TypeOK, EnqType, messages, queue, ghosts, said
<1> QED
  BY <1>1, <1>2, <1>3, <1>5, Typed DEF Fire

LEMMA CheckDoes ==
  ASSUME TypeOK, Shape, NEW s \in Sessions, Check(s)
  PROVE  /\ TypeOK' /\ UNCHANGED <<messages, row, queue, faults, settled, left, raced, lost>>
         /\ s \in Enqueuers /\ Putting(s) /\ enq[s].pc = "check"
         /\ \/ /\ Due(s) /\ enq'[s].pc = "insert" /\ enq'[s].at = s /\ enq'[s].todo = {}
               /\ enq'[s].seen = Of(s) \cap known
               /\ overlap' = overlap \cup (InHand(s) \cap {s})
            \/ Gone(s) /\ overlap' = overlap
<1>0. /\ s \in Enqueuers /\ enq[s].pc = "check" /\ enq[s].at = s /\ enq[s].todo = {}
      /\ UNCHANGED <<messages, row, timer, queue, faults, settled, left, raced, lost>>
  BY DEF Check, Enqueuers, Shape, EnqOf
<1>1. CASE Due(s)
  <2> DEFINE S == Of(s) \cap known
             c == [enq[s] EXCEPT !.pc = "insert", !.seen = S]
  <2>1. S \subseteq Msgs
    BY DEF Of
  <2>2. c \in EnqFull /\ c.pc = "insert" /\ c.at = s /\ c.todo = {} /\ c.seen = S
    <3> HIDE DEF S
    <3> QED
      BY <1>0, <2>1, Typed DEF EnqFull, EnqPc
  <2>3. enq' = [enq EXCEPT ![s] = c] /\ overlap' = overlap \cup (InHand(s) \cap {s})
    BY <1>1, Typed DEF Check, EnqFull
  <2>4. EnqType' /\ Putting(s) /\ enq'[s] = c
    <3> HIDE DEF c
    <3> QED
      BY <1>0, <2>2, <2>3, PutsEnq
  <2>5. TypeOK'
    <3> HIDE DEF c, S
    <3> QED
      BY <1>0, <2>3, <2>4 DEF TypeOK, EnqType, messages, queue, said
  <2> QED
    BY <1>0, <1>1, <2>2, <2>3, <2>4, <2>5
<1>2. CASE ~ Due(s)
  <2>1. enq' = [enq EXCEPT ![s] = Rest] /\ overlap' = overlap
    BY <1>2 DEF Check
  <2>2. EnqType' /\ Putting(s) /\ Gone(s)
    BY <1>0, <2>1, RestsEnq
  <2>3. TypeOK'
    BY <1>0, <2>1, <2>2 DEF TypeOK, EnqType, messages, queue, said
  <2> QED
    BY <1>0, <2>1, <2>2, <2>3
<1> QED
  BY <1>1, <1>2

LEMMA ListDoes ==
  ASSUME TypeOK, NEW e \in Sweeps, List(e)
  PROVE  /\ TypeOK' /\ UNCHANGED <<messages, row, queue, faults, settled, left, raced, lost>>
         /\ e \in Enqueuers /\ e \notin Sessions /\ Putting(e) /\ enq[e].pc = "rest"
         /\ enq'[e].pc = "next" /\ enq'[e].at = NoSession /\ enq'[e].seen = known
         /\ enq'[e].todo \subseteq Sessions
         /\ \A s \in enq'[e].todo : Due(s)
         /\ overlap' = overlap \cup (InHand(e) \cap enq'[e].todo)
<1>1. PICK S \in SUBSET {s \in Sessions : Due(s)} :
        /\ enq' = [enq EXCEPT ![e] = [Rest EXCEPT !.pc = "next", !.todo = S, !.seen = known]]
        /\ overlap' = overlap \cup (InHand(e) \cap S)
  BY DEF List
<1> DEFINE c == [Rest EXCEPT !.pc = "next", !.todo = S, !.seen = known]
<1>2. known \subseteq Msgs /\ S \subseteq Sessions
  BY DEF TypeOK, said
<1>3. /\ c \in EnqFull /\ c.pc = "next" /\ c.at = NoSession /\ c.todo = S
      /\ c.seen = known
  BY <1>2, Typed DEF EnqFull, EnqPc
<1>4. EnqType' /\ Putting(e) /\ enq'[e] = c
  <2> HIDE DEF c
  <2>1. enq' = [enq EXCEPT ![e] = c] /\ e \in Enqueuers
    BY <1>1 DEF c, Enqueuers
  <2> QED
    BY <1>3, <2>1, PutsEnq
<1>5. TypeOK'
  <2> HIDE DEF c
  <2> QED
    BY <1>1, <1>2, <1>4 DEF List, TypeOK, EnqType, messages, queue, said
<1> QED
  BY <1>1, <1>2, <1>3, <1>4, <1>5, Typed, DnaSessionsAssumption DEF List, Enqueuers

LEMMA TurnDoes ==
  ASSUME TypeOK, NEW e \in Enqueuers, Turn(e)
  PROVE  /\ TypeOK' /\ UNCHANGED <<messages, row, queue, faults, ghosts>>
         /\ Putting(e) /\ enq[e].pc = "next"
         /\ \/ /\ enq'[e].pc = "insert" /\ enq'[e].at \in enq[e].todo
               /\ enq'[e].at \in Sessions
               /\ enq'[e].todo = enq[e].todo \ {enq'[e].at} /\ enq'[e].seen = enq[e].seen
            \/ Gone(e) /\ enq[e].todo = {}
<1>1. ASSUME NEW s \in enq[e].todo,
             enq' = [enq EXCEPT ![e].pc = "insert", ![e].at = s, ![e].todo = @ \ {s}]
      PROVE  /\ EnqType' /\ Putting(e) /\ enq'[e].pc = "insert" /\ enq'[e].at = s
             /\ s \in Sessions
             /\ enq'[e].todo = enq[e].todo \ {s} /\ enq'[e].seen = enq[e].seen
  <2> DEFINE c == [enq[e] EXCEPT !.pc = "insert", !.at = s, !.todo = @ \ {s}]
  <2>1. /\ c \in EnqFull /\ c.pc = "insert" /\ c.at = s /\ s \in Sessions
        /\ c.todo = enq[e].todo \ {s} /\ c.seen = enq[e].seen
    BY Typed DEF EnqFull, EnqPc
  <2>2. enq' = [enq EXCEPT ![e] = c]
    BY <1>1, Typed DEF EnqFull
  <2> HIDE DEF c
  <2> QED
    BY <2>1, <2>2, PutsEnq
<1>2. /\ EnqType' /\ Putting(e)
      /\ \/ /\ enq'[e].pc = "insert" /\ enq'[e].at \in enq[e].todo
            /\ enq'[e].at \in Sessions
            /\ enq'[e].todo = enq[e].todo \ {enq'[e].at} /\ enq'[e].seen = enq[e].seen
         \/ Gone(e) /\ enq[e].todo = {}
  <2>1. CASE enq[e].todo = {} /\ enq' = [enq EXCEPT ![e] = Rest]
    BY <2>1, RestsEnq
  <2>2. CASE \E s \in enq[e].todo :
               enq' = [enq EXCEPT ![e].pc = "insert", ![e].at = s, ![e].todo = @ \ {s}]
    BY <1>1, <2>2
  <2> QED
    BY <2>1, <2>2 DEF Turn
<1> QED
  BY <1>2 DEF Turn, TypeOK, EnqType, messages, queue, ghosts, said

LEMMA InsertDoes ==
  ASSUME TypeOK, Shape, Numbered, NEW e \in Enqueuers, Insert(e)
  PROVE  /\ TypeOK'
         /\ UNCHANGED <<messages, row, stream, acked, worker, faults, ghosts>>
         /\ Putting(e) /\ enq[e].pc = "insert" /\ enq'[e].pc = "push" /\ Moved(e)
         /\ enq'[e].task \in Tasks /\ enq'[e].task \notin Used
         /\ Used' = Used \cup {enq'[e].task} /\ Prefix(Used)'
         /\ enq[e].at \in Sessions /\ task'[enq'[e].task].of = enq[e].at
         /\ task'[enq'[e].task].status = "QUEUED" /\ task'[enq'[e].task].version = 1
         /\ task'[enq'[e].task].seen = enq[e].seen \cap Of(enq[e].at)
         /\ \A u \in Tasks \ {enq'[e].task} : task'[u] = task[u]
<1> DEFINE new == [of |-> enq[e].at, status |-> "QUEUED", version |-> 1,
                   seen |-> enq[e].seen \cap Of(enq[e].at)]
<1>0. /\ enq[e].pc = "insert" /\ enq[e].at \in Sessions
      /\ UNCHANGED <<messages, row, timer, stream, acked, worker, faults, ghosts>>
  BY DEF Insert, Shape, EnqOf
<1>1. PICK t \in Tasks : /\ t = Cardinality(Used) + 1
                         /\ task' = [task EXCEPT ![t] = new]
                         /\ enq' = [enq EXCEPT ![e].pc = "push", ![e].task = t]
  BY DEF Insert, Used
<1>2. /\ new.of = enq[e].at /\ new.status = "QUEUED" /\ new.version = 1
      /\ new.seen = enq[e].seen \cap Of(enq[e].at)
      /\ new \in [of : Sessions \cup {NoSession}, status : TaskStatus, version : 0..3,
                  seen : SUBSET Msgs]
  BY <1>0, Typed DEF EnqFull, TaskStatus
<1> HIDE DEF new
<1>3. /\ task' \in [Tasks -> [of : Sessions \cup {NoSession}, status : TaskStatus,
                              version : 0..3, seen : SUBSET Msgs]]
      /\ task'[t] = new /\ \A u \in Tasks \ {t} : task'[u] = task[u]
  BY <1>1, <1>2 DEF TypeOK
<1>4. t \notin Used /\ Prefix(Used \cup {t})
  <2>1. Used \in SUBSET (1..MaxTasks) /\ t \in 1..MaxTasks /\ MaxTasks \in Nat
    BY DnaSessionsAssumption DEF Used, Tasks
  <2>2. Prefix(Used)
    BY DEF Numbered
  <2> QED
    BY <1>1, <2>1, <2>2, Numbering
<1>5. Used' = Used \cup {t}
  BY <1>2, <1>3 DEF Used
<1>6. EnqType' /\ Putting(e) /\ enq'[e].pc = "push" /\ enq'[e].task = t /\ Moved(e)
  <2> DEFINE c == [enq[e] EXCEPT !.pc = "push", !.task = t]
  <2>1. /\ c \in EnqFull /\ c.pc = "push" /\ c.task = t
        /\ c.at = enq[e].at /\ c.todo = enq[e].todo /\ c.seen = enq[e].seen
    BY Typed DEF EnqFull, EnqPc
  <2>2. enq' = [enq EXCEPT ![e] = c]
    BY <1>1, Typed DEF EnqFull
  <2> HIDE DEF c
  <2> QED
    BY <2>1, <2>2, PutsEnq DEF Moved
<1>7. TypeOK'
  BY <1>0, <1>3, <1>6 DEF TypeOK, EnqType, messages, ghosts, said
<1> QED
  BY <1>0, <1>2, <1>3, <1>4, <1>5, <1>6, <1>7

LEMMA PushDoes ==
  ASSUME TypeOK, Shape, NEW e \in Enqueuers, Push(e)
  PROVE  /\ TypeOK'
         /\ UNCHANGED <<messages, row, task, acked, worker, faults, ghosts>>
         /\ Putting(e) /\ enq[e].pc = "push" /\ enq'[e].pc = "note" /\ Moved(e)
         /\ enq[e].task \in Tasks /\ enq'[e].task = enq[e].task
         /\ \A u : In(stream', u) <=> In(stream, u) \/ u = enq[e].task
         /\ Distinct(stream) /\ ~ In(stream, enq[e].task) => Distinct(stream')
<1>0. /\ enq[e].pc = "push" /\ enq[e].task \in Tasks /\ stream \in Seq(Tasks)
      /\ UNCHANGED <<messages, row, timer, task, acked, worker, faults, ghosts>>
      /\ stream' = Append(stream, enq[e].task)
      /\ enq' = [enq EXCEPT ![e].pc = "note", ![e].ok = TRUE]
  BY DEF Push, Shape, EnqOf, TypeOK
<1>1. /\ EnqType' /\ Putting(e) /\ enq'[e].pc = "note" /\ enq'[e].task = enq[e].task
      /\ Moved(e)
  <2> DEFINE c == [enq[e] EXCEPT !.pc = "note", !.ok = TRUE]
  <2>1. /\ c \in EnqFull /\ c.pc = "note" /\ c.task = enq[e].task
        /\ c.at = enq[e].at /\ c.todo = enq[e].todo /\ c.seen = enq[e].seen
    BY Typed DEF EnqFull, EnqPc
  <2>2. enq' = [enq EXCEPT ![e] = c]
    BY <1>0, Typed DEF EnqFull
  <2> HIDE DEF c
  <2> QED
    BY <2>1, <2>2, PutsEnq DEF Moved
<1>2. /\ stream' \in Seq(Tasks)
      /\ \A u : In(stream', u) <=> In(stream, u) \/ u = enq[e].task
      /\ Distinct(stream) /\ ~ In(stream, enq[e].task) => Distinct(stream')
  BY <1>0, Appending
<1>3. TypeOK'
  BY <1>0, <1>1, <1>2 DEF TypeOK, EnqType, messages, ghosts, said
<1> QED
  BY <1>0, <1>1, <1>2, <1>3

LEMMA PushFailsDoes ==
  ASSUME TypeOK, NEW e \in Enqueuers, PushFails(e)
  PROVE  /\ TypeOK' /\ UNCHANGED <<messages, row, queue, ghosts>> /\ faults' > 0
         /\ Putting(e) /\ enq[e].pc = "push" /\ enq'[e].pc = "mark" /\ Moved(e)
         /\ enq'[e].task = enq[e].task /\ ~ enq'[e].ok
<1>0. /\ enq[e].pc = "push" /\ UNCHANGED <<messages, row, timer, queue, ghosts>>
      /\ enq' = [enq EXCEPT ![e].pc = "mark", ![e].ok = FALSE]
  BY DEF PushFails
<1>1. faults' \in 0..MaxFaults /\ faults' > 0
  BY DnaSessionsAssumption DEF PushFails, Fault, TypeOK
<1>2. /\ EnqType' /\ Putting(e) /\ enq'[e].pc = "mark" /\ enq'[e].task = enq[e].task
      /\ Moved(e) /\ ~ enq'[e].ok
  <2> DEFINE c == [enq[e] EXCEPT !.pc = "mark", !.ok = FALSE]
  <2>1. /\ c \in EnqFull /\ c.pc = "mark" /\ c.task = enq[e].task /\ ~ c.ok
        /\ c.at = enq[e].at /\ c.todo = enq[e].todo /\ c.seen = enq[e].seen
    BY Typed DEF EnqFull, EnqPc
  <2>2. enq' = [enq EXCEPT ![e] = c]
    BY <1>0, Typed DEF EnqFull
  <2> HIDE DEF c
  <2> QED
    BY <2>1, <2>2, PutsEnq DEF Moved
<1> QED
  BY <1>0, <1>1, <1>2 DEF TypeOK, EnqType, messages, queue, ghosts, said

LEMMA NoteDoes ==
  ASSUME TypeOK, NEW e \in Enqueuers, Note(e)
  PROVE  /\ TypeOK' /\ UNCHANGED <<messages, row, queue, faults, ghosts>>
         /\ Putting(e) /\ enq[e].pc = "note" /\ enq'[e].pc = "mark" /\ Moved(e)
         /\ enq'[e].task = enq[e].task
<1>1. /\ EnqType' /\ Putting(e) /\ enq'[e].pc = "mark" /\ enq'[e].task = enq[e].task
      /\ Moved(e)
  <2> DEFINE c == [enq[e] EXCEPT !.pc = "mark"]
  <2>1. /\ c \in EnqFull /\ c.pc = "mark" /\ c.task = enq[e].task
        /\ c.at = enq[e].at /\ c.todo = enq[e].todo /\ c.seen = enq[e].seen
    BY Typed DEF EnqFull, EnqPc
  <2>2. enq' = [enq EXCEPT ![e] = c]
    BY DEF Note, To
  <2> HIDE DEF c
  <2> QED
    BY <2>1, <2>2, PutsEnq DEF Moved
<1> QED
  BY <1>1 DEF Note, TypeOK, EnqType, messages, queue, ghosts, said

LEMMA MarkDoes ==
  ASSUME TypeOK, Shape, NEW e \in Enqueuers, Mark(e)
  PROVE  /\ TypeOK' /\ UNCHANGED <<messages, queue, faults, settled, left, overlap>>
         /\ Putting(e) /\ enq[e].pc = "mark" /\ enq[e].at \in Sessions
         /\ ~ row'[enq[e].at].due /\ (row'[enq[e].at].idle <=> row[enq[e].at].idle)
         /\ \A s \in Sessions \ {enq[e].at} : row'[s] = row[s]
         /\ raced \subseteq raced' /\ lost \subseteq lost'
         /\ row[enq[e].at].due => /\ Of(enq[e].at) \ enq[e].seen \subseteq raced'
                                  /\ enq[e].ok \/ Of(enq[e].at) \ settled \subseteq lost'
         /\ \/ /\ e \notin Sessions /\ enq'[e].pc = "next" /\ enq'[e].at = NoSession
               /\ enq'[e].todo = enq[e].todo /\ enq'[e].seen = enq[e].seen
            \/ Gone(e) /\ e \in Sessions
<1>0. /\ enq[e].pc = "mark" /\ enq[e].at \in Sessions
      /\ UNCHANGED <<messages, timer, queue, faults, settled, left, overlap>>
      /\ row' = [row EXCEPT ![enq[e].at].due = FALSE]
  BY DEF Mark, Shape, EnqOf
<1>1. /\ row' \in [Sessions -> [there : BOOLEAN, idle : BOOLEAN, due : BOOLEAN]]
      /\ ~ row'[enq[e].at].due /\ (row'[enq[e].at].idle <=> row[enq[e].at].idle)
      /\ \A s \in Sessions \ {enq[e].at} : row'[s] = row[s]
  <2> DEFINE u == enq[e].at
  <2>1. u \in Sessions /\ row' = [row EXCEPT ![u].due = FALSE]
    BY <1>0
  <2> HIDE DEF u
  <2>2. /\ row' \in [Sessions -> [there : BOOLEAN, idle : BOOLEAN, due : BOOLEAN]]
        /\ ~ row'[u].due /\ (row'[u].idle <=> row[u].idle)
        /\ \A s \in Sessions \ {u} : row'[s] = row[s]
    BY <2>1 DEF TypeOK
  <2> QED
    BY <2>2 DEF u
<1>2. Of(enq[e].at) \subseteq said
  BY <1>0, DnaSessionsAssumption DEF Of, said
<1>3. /\ raced \subseteq raced' /\ lost \subseteq lost'
      /\ raced' \subseteq said /\ lost' \subseteq said
      /\ row[enq[e].at].due => /\ Of(enq[e].at) \ enq[e].seen \subseteq raced'
                               /\ enq[e].ok \/ Of(enq[e].at) \ settled \subseteq lost'
  <2>1. CASE row[enq[e].at].due
    <3>1. /\ raced' = raced \cup (Of(enq[e].at) \ enq[e].seen)
          /\ lost' = IF enq[e].ok THEN lost ELSE lost \cup (Of(enq[e].at) \ settled)
      BY <2>1 DEF Mark
    <3> QED
      BY <1>2, <3>1 DEF TypeOK
  <2>2. CASE ~ row[enq[e].at].due
    BY <2>2 DEF Mark, TypeOK
  <2> QED
    BY <2>1, <2>2
<1>4. /\ EnqType' /\ Putting(e)
      /\ \/ /\ e \notin Sessions /\ enq'[e].pc = "next" /\ enq'[e].at = NoSession
            /\ enq'[e].todo = enq[e].todo /\ enq'[e].seen = enq[e].seen
         \/ Gone(e) /\ e \in Sessions
  <2>1. CASE e \in Sweeps
    <3> DEFINE c == [enq[e] EXCEPT !.pc = "next", !.at = NoSession, !.task = NoTask,
                                   !.ok = FALSE]
    <3>1. /\ c \in EnqFull /\ c.pc = "next" /\ c.at = NoSession
          /\ c.todo = enq[e].todo /\ c.seen = enq[e].seen
      <4>1. enq[e] \in EnqFull /\ "next" \in EnqPc
        BY Typed DEF EnqPc
      <4> QED
        BY <4>1 DEF EnqFull
    <3>2. enq' = [enq EXCEPT ![e] = c]
      BY <2>1, Typed DEF Mark, EnqFull
    <3> HIDE DEF c
    <3> QED
      BY <2>1, <3>1, <3>2, PutsEnq, DnaSessionsAssumption
  <2>2. CASE e \notin Sweeps
    <3>1. enq' = [enq EXCEPT ![e] = Rest] /\ e \in Sessions
      BY <2>2 DEF Mark, Enqueuers
    <3> QED
      BY <3>1, RestsEnq
  <2> QED
    BY <2>1, <2>2
<1>5. TypeOK'
  BY <1>0, <1>1, <1>3, <1>4 DEF TypeOK, EnqType, messages, queue, said
<1> QED
  BY <1>0, <1>1, <1>3, <1>4, <1>5

LEMMA EnqueueFailsDoes ==
  ASSUME TypeOK, NEW e \in Enqueuers, EnqueueFails(e)
  PROVE  /\ TypeOK' /\ UNCHANGED <<messages, row, queue, ghosts>> /\ faults' > 0
         /\ Putting(e) /\ Gone(e)
<1>1. EnqType' /\ Putting(e) /\ Gone(e)
  BY RestsEnq DEF EnqueueFails
<1>2. faults' \in 0..MaxFaults /\ faults' > 0
  BY DnaSessionsAssumption DEF EnqueueFails, Fault, TypeOK
<1> QED
  BY <1>1, <1>2 DEF EnqueueFails, TypeOK, EnqType, messages, queue, ghosts, said

LEMMA RestartDoes ==
  ASSUME TypeOK, Restart
  PROVE  /\ TypeOK' /\ UNCHANGED <<messages, row, queue, ghosts>> /\ faults' > 0
         /\ \A e \in Enqueuers : Gone(e)
<1>1. EnqType' /\ \A e \in Enqueuers : Gone(e)
  BY Typed DEF Restart, EnqType, Gone
<1>2. faults' \in 0..MaxFaults /\ faults' > 0
  BY DnaSessionsAssumption DEF Restart, Fault, TypeOK
<1> QED
  BY <1>1, <1>2 DEF Restart, TypeOK, EnqType, messages, queue, ghosts, said

-----------------------------------------------------------------------------
\* What each action does: the workers.

LEMMA ReadGroupDoes ==
  ASSUME TypeOK, NEW w \in Workers, ReadGroup(w)
  PROVE  /\ TypeOK' /\ UNCHANGED <<messages, row, enq, task, acked, faults, ghosts>>
         /\ Giving(w) /\ worker[w].pc = "read" /\ worker'[w].pc = "fetch"
         /\ worker'[w].batch # <<>> /\ worker'[w].batch \in Seq(Tasks)
         /\ worker'[w].found = worker[w].found
         /\ \A u : In(stream, u) <=> In(stream', u) \/ In(worker'[w].batch, u)
         /\ Distinct(stream) => /\ Distinct(stream') /\ Distinct(worker'[w].batch)
                                /\ \A u : ~ (In(stream', u) /\ In(worker'[w].batch, u))
<1> DEFINE n == IF Len(stream) < Count THEN Len(stream) ELSE Count
           a == SubSeq(stream, 1, n)
           b == SubSeq(stream, n + 1, Len(stream))
<1>0. /\ worker[w] = Ready /\ stream # <<>> /\ stream \in Seq(Tasks)
      /\ UNCHANGED <<messages, row, timer, enq, task, acked, faults, ghosts>>
      /\ stream' = b
      /\ worker' = [worker EXCEPT ![w].pc = "fetch", ![w].batch = a]
  BY DEF ReadGroup, TypeOK
<1>1. n \in 1..Len(stream)
  <2>1. Len(stream) \in Nat /\ Len(stream) # 0
    BY <1>0, EmptySeq, LenProperties
  <2> QED
    BY <2>1, DnaSessionsAssumption
<1> HIDE DEF n
<1>2. /\ a \in Seq(Tasks) /\ b \in Seq(Tasks) /\ a # <<>>
      /\ \A u : In(stream, u) <=> In(a, u) \/ In(b, u)
      /\ Distinct(stream) => /\ Distinct(a) /\ Distinct(b)
                             /\ \A u : ~ (In(a, u) /\ In(b, u))
  BY <1>0, <1>1, Splitting
<1> HIDE DEF a, b
<1>3. /\ WorkType' /\ Giving(w) /\ worker'[w].pc = "fetch" /\ worker'[w].batch = a
      /\ worker'[w].found = worker[w].found
  <2> DEFINE c == [worker[w] EXCEPT !.pc = "fetch", !.batch = a]
  <2>1. /\ c \in WorkFull /\ c.pc = "fetch" /\ c.batch = a /\ c.found = worker[w].found
    BY <1>2, Typed DEF WorkFull, WorkPc
  <2>2. worker' = [worker EXCEPT ![w] = c]
    BY <1>0, Typed DEF WorkFull
  <2> HIDE DEF c
  <2> QED
    BY <1>2, <2>1, <2>2, PutsWork
<1>4. TypeOK'
  BY <1>0, <1>2, <1>3 DEF TypeOK, WorkType, messages, ghosts, said
<1> QED
  BY <1>0, <1>2, <1>3, <1>4, Typed

LEMMA FetchDoes ==
  ASSUME TypeOK, NEW w \in Workers, Fetch(w)
  PROVE  /\ TypeOK' /\ UNCHANGED <<messages, row, enq, task, stream, acked, faults, ghosts>>
         /\ Giving(w) /\ worker[w].pc = "fetch" /\ Going(w, "start")
         /\ worker'[w].version = task[Current(w)].version /\ worker'[w].found = worker[w].found
<1> DEFINE v == task[Current(w)].version
           c == [worker[w] EXCEPT !.pc = "start", !.version = v]
<1>0. worker[w].pc = "fetch" /\ Current(w) \in Tasks /\ worker[w].batch # <<>>
  BY CurrentOf DEF Fetch
<1>1. v \in 0..3
  BY <1>0 DEF TypeOK
<1>2. worker' = [worker EXCEPT ![w] = c]
  BY Typed DEF Fetch, WorkFull
<1> HIDE DEF v
<1>3. /\ c \in WorkFull /\ c.pc = "start" /\ c.batch = worker[w].batch /\ c.version = v
      /\ c.found = worker[w].found
  BY <1>1, Typed DEF WorkFull, WorkPc
<1> HIDE DEF c
<1>4. /\ WorkType' /\ Giving(w) /\ Going(w, "start") /\ worker'[w].version = v
      /\ worker'[w].found = worker[w].found
  BY <1>0, <1>2, <1>3, PutsWork DEF Going
<1>5. TypeOK'
  BY <1>4 DEF Fetch, TypeOK, WorkType, messages, ghosts, said
<1> QED
  BY <1>0, <1>4, <1>5 DEF Fetch, v

\* The conditional update of a task's row.
LEMMA OccDoes ==
  ASSUME TypeOK, NEW t \in Tasks, NEW v \in {1, 2}, task[t].version = v,
         NEW s \in TaskStatus, task' = Occ(t, v, s)
  PROVE  /\ task' \in [Tasks -> [of : Sessions \cup {NoSession}, status : TaskStatus,
                                 version : 0..3, seen : SUBSET Msgs]]
         /\ task'[t].status = s /\ task'[t].version = v + 1 /\ task'[t].of = task[t].of
         /\ task'[t].seen = task[t].seen
         /\ \A u \in Tasks \ {t} : task'[u] = task[u]
<1>1. task' = [task EXCEPT ![t].status = s, ![t].version = @ + 1]
  BY DEF Occ
<1>2. v + 1 \in 0..3
  OBVIOUS
<1> QED
  BY <1>1, <1>2 DEF TypeOK

LEMMA StartDoes ==
  ASSUME TypeOK, Versions, NEW w \in Workers, Start(w)
  PROVE  /\ TypeOK' /\ UNCHANGED <<messages, row, enq, stream, acked, faults, ghosts>>
         /\ Giving(w) /\ worker[w].pc = "start" /\ Going(w, "search")
         /\ worker'[w].version = 1 /\ worker'[w].found = worker[w].found
         /\ task'[Current(w)].status = "IN_PROGRESS" /\ task'[Current(w)].version = 2
         /\ task'[Current(w)].of = task[Current(w)].of
         /\ task'[Current(w)].seen = task[Current(w)].seen
         /\ \A u \in Tasks \ {Current(w)} : task'[u] = task[u]
<1>0. /\ worker[w].pc = "start" /\ Current(w) \in Tasks
      /\ worker[w].version = 1 /\ task[Current(w)].version = 1
  BY CurrentOf DEF Start, Versions, VersionOf
<1>1. /\ WorkType' /\ Giving(w) /\ Going(w, "search") /\ worker'[w].version = 1
      /\ worker'[w].found = worker[w].found
  <2>1. Go(w, "search")
    BY <1>0 DEF Start
  <2> QED
    BY <1>0, <2>1, GoesWork DEF WorkPc
<1>2. task' = Occ(Current(w), 1, "IN_PROGRESS")
  BY <1>0 DEF Start
<1>3. /\ task' \in [Tasks -> [of : Sessions \cup {NoSession}, status : TaskStatus,
                              version : 0..3, seen : SUBSET Msgs]]
      /\ task'[Current(w)].status = "IN_PROGRESS" /\ task'[Current(w)].version = 1 + 1
      /\ task'[Current(w)].of = task[Current(w)].of
      /\ task'[Current(w)].seen = task[Current(w)].seen
      /\ \A u \in Tasks \ {Current(w)} : task'[u] = task[u]
  BY <1>0, <1>2, OccDoes DEF TaskStatus
<1>4. TypeOK'
  BY <1>1, <1>3 DEF Start, TypeOK, WorkType, messages, ghosts, said
<1> QED
  BY <1>0, <1>1, <1>3, <1>4 DEF Start

\* The newest of a set are some of it.
LEMMA NewestOf == \A S, n : \A N \in Newest(S, n) : N \subseteq S
  BY DEF Newest

LEMMA SearchDoes ==
  ASSUME TypeOK, NEW w \in Workers, Search(w)
  PROVE  /\ TypeOK'
         /\ UNCHANGED <<messages, row, enq, task, stream, acked, faults, settled, raced,
                        lost, overlap>>
         /\ Giving(w) /\ worker[w].pc = "search" /\ Going(w, "archive")
         /\ worker'[w].version = worker[w].version /\ left \subseteq left'
         /\ worker'[w].found \subseteq kept
         /\ kept \cap Of(task[Current(w)].of) \subseteq worker'[w].found \cup left'
<1> DEFINE S == kept \cap Of(Session(w))
<1>1. PICK N \in Newest(S, ReadMax) :
        /\ worker' = [worker EXCEPT ![w].pc = "archive", ![w].found = N]
        /\ left' = left \cup (S \ N)
  BY DEF Search
<1>2. N \subseteq S /\ S \subseteq kept /\ kept \subseteq said /\ said \subseteq Msgs
  BY NewestOf DEF TypeOK, said
<1> DEFINE c == [worker[w] EXCEPT !.pc = "archive", !.found = N]
<1>3. worker[w].pc = "search" /\ worker[w].batch # <<>>
  BY CurrentOf DEF Search
<1>4. worker' = [worker EXCEPT ![w] = c]
  BY <1>1, Typed DEF WorkFull
<1>5. S = kept \cap Of(task[Current(w)].of)
  BY DEF Session
<1> HIDE DEF S
<1>6. N \in SUBSET Msgs
  BY <1>2
<1>7. /\ c \in WorkFull /\ c.pc = "archive" /\ c.batch = worker[w].batch
      /\ c.version = worker[w].version /\ c.found = N
  BY <1>3, <1>6, Typed DEF WorkFull, WorkPc
<1> HIDE DEF c
<1>8. /\ WorkType' /\ Giving(w) /\ Going(w, "archive") /\ worker'[w].found = N
      /\ worker'[w].version = worker[w].version
  BY <1>3, <1>4, <1>7, PutsWork DEF Going
<1>9. left' \subseteq said
  BY <1>1, <1>2 DEF TypeOK
<1>10. TypeOK'
  BY <1>8, <1>9 DEF Search, TypeOK, WorkType, messages, said
<1>11. UNCHANGED <<messages, row, enq, task, stream, acked, faults, settled, raced, lost,
                  overlap>>
  BY DEF Search
<1>12. worker'[w].found \subseteq kept /\ S \subseteq worker'[w].found \cup left'
  BY <1>1, <1>2, <1>8
<1> QED
  BY <1>1, <1>3, <1>5, <1>8, <1>10, <1>11, <1>12

LEMMA ArchiveDoes ==
  ASSUME TypeOK, Shape, NEW w \in Workers, Archive(w)
  PROVE  /\ TypeOK'
         /\ UNCHANGED <<home, known, row, enq, task, stream, acked, faults, left, raced,
                        lost, overlap>>
         /\ Giving(w) /\ worker[w].pc = "archive" /\ Going(w, "persist")
         /\ worker'[w].version = worker[w].version
         /\ settled \subseteq settled' /\ kept' \subseteq kept
         /\ kept \subseteq kept' \cup settled'
         /\ worker'[w].found \subseteq worker[w].found
         /\ worker[w].found \subseteq worker'[w].found \cup settled'
<1>0. worker[w].pc = "archive" /\ worker[w].batch # <<>> /\ worker[w].found \subseteq said
  BY CurrentOf DEF Archive, Shape
<1>1. PICK low \in SUBSET worker[w].found :
        /\ kept' = kept \ low /\ settled' = settled \cup low
        /\ worker' = [worker EXCEPT ![w].pc = "persist", ![w].found = @ \ low]
  BY DEF Archive
<1> DEFINE c == [worker[w] EXCEPT !.pc = "persist", !.found = @ \ low]
<1>2. worker' = [worker EXCEPT ![w] = c]
  BY <1>1, Typed DEF WorkFull
<1>3. /\ c \in WorkFull /\ c.pc = "persist" /\ c.batch = worker[w].batch
      /\ c.version = worker[w].version /\ c.found = worker[w].found \ low
  BY <1>0, Typed DEF WorkFull, WorkPc
<1> HIDE DEF c
<1>4. /\ WorkType' /\ Giving(w) /\ Going(w, "persist")
      /\ worker'[w].found = worker[w].found \ low
      /\ worker'[w].version = worker[w].version
  BY <1>0, <1>2, <1>3, PutsWork DEF Going
<1>5. kept' \subseteq said /\ settled' \subseteq said
  BY <1>0, <1>1 DEF TypeOK
<1>6. TypeOK'
  BY <1>4, <1>5 DEF Archive, TypeOK, WorkType, said
<1> QED
  BY <1>0, <1>1, <1>4, <1>6 DEF Archive

LEMMA PersistDoes ==
  ASSUME TypeOK, Shape, NEW w \in Workers, Persist(w)
  PROVE  /\ TypeOK'
         /\ UNCHANGED <<messages, row, enq, task, stream, acked, faults, raced, lost, overlap>>
         /\ Giving(w) /\ worker[w].pc = "persist" /\ Going(w, "done")
         /\ worker'[w].version = worker[w].version /\ worker'[w].found = worker[w].found
         /\ settled \subseteq settled' /\ left \subseteq left'
         /\ worker[w].found \subseteq settled' \cup left'
<1>1. /\ WorkType' /\ Giving(w) /\ Going(w, "done")
      /\ worker'[w].version = worker[w].version /\ worker'[w].found = worker[w].found
  BY GoesWork DEF Persist, WorkPc
<1>2. PICK N \in Newest(worker[w].found, TextMax) :
        /\ settled' = settled \cup N
        /\ left' = left \cup (worker[w].found \ N)
  BY DEF Persist
<1>3. N \subseteq worker[w].found /\ worker[w].found \subseteq said
  BY NewestOf DEF Shape
<1>4. settled' \subseteq said /\ left' \subseteq said
  BY <1>2, <1>3 DEF TypeOK
<1>5. TypeOK'
  BY <1>1, <1>4 DEF Persist, TypeOK, WorkType, messages, said
<1> QED
  BY <1>1, <1>2, <1>3, <1>5 DEF Persist

LEMMA CompleteDoes ==
  ASSUME TypeOK, Versions, NEW w \in Workers, Complete(w)
  PROVE  /\ TypeOK' /\ UNCHANGED <<messages, row, enq, stream, acked, faults, ghosts>>
         /\ Giving(w) /\ worker[w].pc = "done" /\ Going(w, "ack")
         /\ worker'[w].found = worker[w].found
         /\ task'[Current(w)].status = "COMPLETED"
         /\ task'[Current(w)].of = task[Current(w)].of
         /\ task'[Current(w)].seen = task[Current(w)].seen
         /\ \A u \in Tasks \ {Current(w)} : task'[u] = task[u]
<1>0. /\ worker[w].pc = "done" /\ Current(w) \in Tasks
      /\ worker[w].version = 1 /\ task[Current(w)].version = 2
  BY CurrentOf DEF Complete, Versions, VersionOf
<1>1. WorkType' /\ Giving(w) /\ Going(w, "ack") /\ worker'[w].found = worker[w].found
  BY <1>0, GoesWork DEF Complete, WorkPc
<1>2. task' = Occ(Current(w), 2, "COMPLETED")
  BY <1>0 DEF Complete, NextVersion
<1>3. /\ task' \in [Tasks -> [of : Sessions \cup {NoSession}, status : TaskStatus,
                              version : 0..3, seen : SUBSET Msgs]]
      /\ task'[Current(w)].status = "COMPLETED"
      /\ task'[Current(w)].of = task[Current(w)].of
      /\ task'[Current(w)].seen = task[Current(w)].seen
      /\ \A u \in Tasks \ {Current(w)} : task'[u] = task[u]
  BY <1>0, <1>2, OccDoes DEF TaskStatus
<1>4. TypeOK'
  BY <1>1, <1>3 DEF Complete, TypeOK, WorkType, messages, ghosts, said
<1> QED
  BY <1>0, <1>1, <1>3, <1>4 DEF Complete

LEMMA AckDoes ==
  ASSUME TypeOK, NEW w \in Workers, Ack(w)
  PROVE  /\ TypeOK' /\ UNCHANGED <<messages, row, enq, task, stream, faults, ghosts>>
         /\ Giving(w) /\ worker[w].pc = "ack" /\ acked' = acked \cup {Current(w)}
         /\ worker'[w].found = {}
         /\ \A u : In(worker'[w].batch, u) <=> Before(w, u)
         /\ Distinct(worker[w].batch) => Distinct(worker'[w].batch)
         /\ \/ worker'[w].pc = "fetch" /\ worker'[w].batch # <<>>
            \/ Free(w)
<1> DEFINE b == Tail(worker[w].batch)
<1>0. /\ worker[w].pc = "ack" /\ Current(w) \in Tasks /\ worker[w].batch \in Seq(Tasks)
      /\ worker[w].batch # <<>> /\ \A u : Before(w, u) <=> In(b, u)
  BY CurrentOf DEF Ack
<1>1. /\ b \in Seq(Tasks) /\ (Len(worker[w].batch) # 1 => b # <<>>)
      /\ Len(worker[w].batch) = 1 => \A u : ~ In(b, u)
      /\ Distinct(worker[w].batch) => Distinct(b)
  BY <1>0, Dropping
<1>2. /\ WorkType' /\ Giving(w) /\ worker'[w].found = {}
      /\ \A u : In(worker'[w].batch, u) <=> In(b, u)
      /\ Distinct(worker[w].batch) => Distinct(worker'[w].batch)
      /\ \/ worker'[w].pc = "fetch" /\ worker'[w].batch # <<>>
         \/ Free(w)
  <2>1. CASE Len(worker[w].batch) = 1
    <3>1. worker' = [worker EXCEPT ![w] = Ready]
      BY <2>1 DEF Ack, Forward
    <3>2. WorkType' /\ Giving(w) /\ worker'[w] = Ready
      BY <3>1, Typed, PutsWork
    <3> QED
      BY <1>1, <2>1, <3>2, Typed, NoneIn DEF Free
  <2>2. CASE Len(worker[w].batch) # 1
    <3> DEFINE c == [pc |-> "fetch", batch |-> b, version |-> 0, found |-> {}]
    <3>1. worker' = [worker EXCEPT ![w] = c]
      BY <2>2 DEF Ack, Forward
    <3> HIDE DEF b
    <3>2. c \in WorkFull /\ c.pc = "fetch" /\ c.batch = b /\ c.found = {}
      BY <1>1 DEF WorkFull, WorkPc
    <3> HIDE DEF c
    <3>3. WorkType' /\ Giving(w) /\ worker'[w] = c
      BY <1>1, <2>2, <3>1, <3>2, PutsWork
    <3> QED
      BY <1>1, <2>2, <3>2, <3>3
  <2> QED
    BY <2>1, <2>2
<1>3. acked' = acked \cup {Current(w)} /\ acked' \subseteq Tasks
  BY <1>0 DEF Ack, TypeOK
<1>4. TypeOK'
  BY <1>2, <1>3 DEF Ack, TypeOK, WorkType, messages, ghosts, said
<1> QED
  BY <1>0, <1>2, <1>3, <1>4 DEF Ack

\* What is given up belongs to messages that were sent.
LEMMA UnreadOf ==
  ASSUME TypeOK, Shape, Pointers, NEW w \in Workers, worker[w].pc # "read"
  PROVE  /\ Unread(w, 1) \subseteq said
         /\ Unread(w, Len(worker[w].batch)) \subseteq said
         /\ (known \cap Of(task[Current(w)].of)) \ settled \subseteq Unread(w, 1)
         /\ \A t \in Tasks : Holds(w, t) =>
              (known \cap Of(task[t].of)) \ settled \subseteq Unread(w, Len(worker[w].batch))
<1> DEFINE q == worker[w].batch
           l == Len(q)
<1>1. q \in Seq(Tasks) /\ q # <<>> /\ Current(w) \in Tasks
  BY CurrentOf
<1>2. l \in Nat /\ l # 0 /\ q[1] = Current(w)
  BY <1>1, EmptySeq, HeadTailProperties DEF Current
<1>3. \A i \in 1..l : /\ q[i] \in Tasks /\ task[q[i]].of \in Sessions
  <2>1. ASSUME NEW i \in 1..l PROVE q[i] \in Tasks /\ task[q[i]].of \in Sessions
    <3>1. q[i] \in Tasks /\ Holds(w, q[i])
      BY <1>1, ElementOfSeq DEF Holds, In
    <3>2. task[q[i]].status # "none"
      BY <3>1 DEF Pointers
    <3> QED
      BY <3>1, <3>2 DEF Shape, TaskOf
  <2> QED
    BY <2>1
<1>4. \A s \in Sessions : Of(s) \subseteq said
  BY DnaSessionsAssumption DEF Of, said
<1> HIDE DEF q
<1>5. 1..1 \subseteq 1..l /\ 1 \in 1..1
  BY <1>2
<1>6. \A n : Unread(w, n) = UNION {(known \cap Of(task[q[i]].of)) \ settled : i \in 1..n}
  BY DEF Unread, q
<1>7. Unread(w, 1) \subseteq said /\ Unread(w, l) \subseteq said
  BY <1>3, <1>4, <1>5, <1>6
<1>8. (known \cap Of(task[Current(w)].of)) \ settled \subseteq Unread(w, 1)
  BY <1>2, <1>5, <1>6
<1>9. \A t \in Tasks : Holds(w, t) =>
        (known \cap Of(task[t].of)) \ settled \subseteq Unread(w, l)
  BY <1>6 DEF Holds, In, q
<1> QED
  BY <1>7, <1>8, <1>9 DEF q

\* An exception fails the task, whether it comes from the time of a memory or not.
Raises(w) == ProcessFails(w) \/ ArchiveRaises(w)

LEMMA RaisesDoes ==
  ASSUME TypeOK, Shape, Pointers, Versions, NEW w \in Workers, Raises(w)
  PROVE  /\ TypeOK'
         /\ UNCHANGED <<messages, row, enq, stream, acked, settled, raced, overlap>>
         /\ Giving(w) /\ Going(w, "ack") /\ worker'[w].found = worker[w].found
         /\ worker[w].pc \in {"search", "archive", "persist", "done"}
         /\ faults > 0 => faults' > 0
         /\ task'[Current(w)].status = "FAILED"
         /\ task'[Current(w)].of = task[Current(w)].of
         /\ task'[Current(w)].seen = task[Current(w)].seen
         /\ \A u \in Tasks \ {Current(w)} : task'[u] = task[u]
         /\ lost \subseteq lost' /\ left \subseteq left'
         /\ (known \cap Of(task[Current(w)].of)) \ settled \subseteq lost' \cup left'
<1>0. /\ worker[w].pc \in {"search", "archive", "persist", "done"} /\ Fail(w)
      /\ UNCHANGED <<messages, row, timer, enq, stream, acked, settled, raced, overlap>>
  BY DEF Raises, ProcessFails, ArchiveRaises
<1>1. Current(w) \in Tasks /\ worker[w].version = 1 /\ task[Current(w)].version = 2
  BY <1>0, CurrentOf DEF Versions, VersionOf
<1>2. WorkType' /\ Giving(w) /\ Going(w, "ack") /\ worker'[w].found = worker[w].found
  BY <1>0, GoesWork DEF Fail, WorkPc
<1>3. task' = Occ(Current(w), 2, "FAILED")
  BY <1>0, <1>1 DEF Fail, NextVersion
<1>4. /\ task' \in [Tasks -> [of : Sessions \cup {NoSession}, status : TaskStatus,
                              version : 0..3, seen : SUBSET Msgs]]
      /\ task'[Current(w)].status = "FAILED"
      /\ task'[Current(w)].of = task[Current(w)].of
      /\ task'[Current(w)].seen = task[Current(w)].seen
      /\ \A u \in Tasks \ {Current(w)} : task'[u] = task[u]
  BY <1>1, <1>3, OccDoes DEF TaskStatus
<1>5. /\ lost \subseteq lost' /\ lost' \subseteq said
      /\ left \subseteq left' /\ left' \subseteq said
      /\ (known \cap Of(task[Current(w)].of)) \ settled \subseteq lost' \cup left'
      /\ faults' \in 0..MaxFaults /\ (faults > 0 => faults' > 0)
  <2>1. /\ Unread(w, 1) \subseteq said
        /\ (known \cap Of(task[Current(w)].of)) \ settled \subseteq Unread(w, 1)
    BY <1>0, UnreadOf
  <2>2. lost \subseteq said /\ left \subseteq said /\ faults \in 0..MaxFaults
    BY DEF TypeOK
  <2>3. CASE ProcessFails(w)
    <3>1. lost' = lost \cup Unread(w, 1) /\ left' = left
      BY <2>3 DEF ProcessFails
    <3>2. faults' \in 0..MaxFaults /\ faults' > 0
      BY <2>2, <2>3, DnaSessionsAssumption DEF ProcessFails, Fault
    <3> QED
      BY <2>1, <2>2, <3>1, <3>2
  <2>4. CASE ArchiveRaises(w)
    <3>1. left' = left \cup Unread(w, 1) /\ lost' = lost /\ faults' = faults
      BY <2>4 DEF ArchiveRaises
    <3> QED
      BY <2>1, <2>2, <3>1
  <2> QED
    BY <2>3, <2>4 DEF Raises
<1>6. TypeOK'
  BY <1>0, <1>2, <1>4, <1>5 DEF TypeOK, WorkType, messages, said
<1> QED
  BY <1>0, <1>2, <1>4, <1>5, <1>6

\* A batch is given up by an exception on a payload, or by the end of the process.
GivesUp(w) == WorkerFails(w) \/ FetchRaises(w)

LEMMA GivesUpDoes ==
  ASSUME TypeOK, Shape, Pointers, NEW w \in Workers, GivesUp(w)
  PROVE  /\ TypeOK'
         /\ UNCHANGED <<messages, row, enq, task, stream, acked, settled, raced, overlap>>
         /\ Giving(w) /\ Free(w) /\ worker[w].pc # "read"
         /\ faults > 0 => faults' > 0
         /\ lost \subseteq lost' /\ left \subseteq left'
         /\ \A t \in Tasks : Holds(w, t) =>
              (known \cap Of(task[t].of)) \ settled \subseteq lost' \cup left'
<1>0. /\ worker[w].pc # "read" /\ GiveUp(w)
      /\ UNCHANGED <<messages, row, timer, enq, task, stream, acked, settled, raced,
                     overlap>>
  <2>1. CASE WorkerFails(w)
    BY <2>1, Typed DEF WorkerFails
  <2>2. CASE FetchRaises(w)
    BY <2>2 DEF FetchRaises
  <2> QED
    BY <2>1, <2>2 DEF GivesUp
<1>1. WorkType' /\ Giving(w) /\ Free(w)
  <2>1. WorkType' /\ Giving(w) /\ worker'[w] = Ready
    BY <1>0, Typed, PutsWork DEF GiveUp
  <2> QED
    BY <2>1, Typed DEF Free
<1>2. /\ lost \subseteq lost' /\ lost' \subseteq said
      /\ left \subseteq left' /\ left' \subseteq said
      /\ \A t \in Tasks : Holds(w, t) =>
           (known \cap Of(task[t].of)) \ settled \subseteq lost' \cup left'
      /\ faults' \in 0..MaxFaults /\ (faults > 0 => faults' > 0)
  <2> DEFINE U == Unread(w, Len(worker[w].batch))
  <2>1. /\ U \subseteq said
        /\ \A t \in Tasks : Holds(w, t) => (known \cap Of(task[t].of)) \ settled \subseteq U
    BY <1>0, UnreadOf
  <2>2. lost \subseteq said /\ left \subseteq said /\ faults \in 0..MaxFaults
    BY DEF TypeOK
  <2>3. CASE WorkerFails(w)
    <3>1. lost' = lost \cup U /\ left' = left
      BY <2>3 DEF WorkerFails
    <3>2. faults' \in 0..MaxFaults /\ faults' > 0
      BY <2>2, <2>3, DnaSessionsAssumption DEF WorkerFails, Fault
    <3> HIDE DEF U
    <3> QED
      BY <2>1, <2>2, <3>1, <3>2
  <2>4. CASE FetchRaises(w)
    <3>1. left' = left \cup U /\ lost' = lost /\ faults' = faults
      BY <2>4 DEF FetchRaises
    <3> HIDE DEF U
    <3> QED
      BY <2>1, <2>2, <3>1
  <2> QED
    BY <2>3, <2>4 DEF GivesUp
<1>3. TypeOK'
  BY <1>0, <1>1, <1>2 DEF TypeOK, WorkType, messages, said
<1> QED
  BY <1>0, <1>1, <1>2, <1>3

-----------------------------------------------------------------------------
\* Facts the proofs below use.

LEMMA AtWork ==
  ASSUME TypeOK, Pointers
  PROVE  \A w \in Workers :
           /\ worker[w].pc # "read" => /\ Current(w) \in Used /\ Current(w) \in Tasks
                                       /\ Holds(w, Current(w)) /\ ~ Before(w, Current(w))
                                       /\ \A t : Holds(w, t) <=> t = Current(w) \/ Before(w, t)
           /\ worker[w].pc = "read" => \A t : ~ Holds(w, t)
           /\ \A t : Before(w, t) => Holds(w, t)
<1>1. ASSUME NEW w \in Workers, worker[w].pc # "read"
      PROVE  /\ Current(w) \in Used /\ Current(w) \in Tasks
             /\ Holds(w, Current(w)) /\ ~ Before(w, Current(w))
             /\ \A t : Holds(w, t) <=> t = Current(w) \/ Before(w, t)
  <2>1. /\ Current(w) \in Tasks /\ ~ Before(w, Current(w))
        /\ \A t : Holds(w, t) <=> t = Current(w) \/ Before(w, t)
    BY <1>1, CurrentOf DEF Pointers
  <2>2. Current(w) \in Used
    BY <2>1 DEF Pointers, Used
  <2> QED
    BY <2>1, <2>2
<1>2. ASSUME NEW w \in Workers, worker[w].pc = "read"
      PROVE  \A t : ~ Holds(w, t) /\ ~ Before(w, t)
  BY <1>2, Typed DEF Holds, In, Before
<1> QED
  BY <1>1, <1>2

LEMMA Sent ==
  ASSUME TypeOK
  PROVE  /\ known \subseteq said /\ kept \subseteq said /\ settled \subseteq said
         /\ \A m \in said : m \in Msgs /\ home[m] \in Sessions
         /\ \A s \in Sessions : \A m \in Of(s) : m \in said /\ home[m] = s
  BY DnaSessionsAssumption DEF TypeOK, said, Of

\* The new current pointer of a worker.
LEMMA NextCurrent ==
  ASSUME NEW w \in Workers, worker'[w] \in WorkFull, worker'[w].batch # <<>>
  PROVE  /\ Current(w)' \in Tasks
         /\ \A t : Holds(w, t)' <=> t = Current(w)' \/ Before(w, t)'
<1>1. worker'[w].batch \in Seq(Tasks)
  BY DEF WorkFull
<1> QED
  BY <1>1, Dropping DEF Current, Before, Holds

LEMMA SameBatch ==
  ASSUME NEW w \in Workers, worker'[w].batch = worker[w].batch
  PROVE  /\ Current(w)' = Current(w) /\ \A t : Before(w, t)' <=> Before(w, t)
         /\ \A t : Holds(w, t)' <=> Holds(w, t)
  BY DEF Current, Before, Holds


\* A step of a worker keeps what its task is for.
LEMMA Reworked ==
  ASSUME TypeOK, Pointers, NEW w \in Workers, worker[w].pc # "read",
         task'[Current(w)].of = task[Current(w)].of,
         task'[Current(w)].seen = task[Current(w)].seen,
         task'[Current(w)].status # "none",
         \A u \in Tasks \ {Current(w)} : task'[u] = task[u]
  PROVE  /\ Used' = Used
         /\ \A u \in Tasks : /\ task'[u].of = task[u].of /\ task'[u].seen = task[u].seen
                             /\ task'[u].status = "none" <=> task[u].status = "none"
<1>1. Current(w) \in Used /\ Current(w) \in Tasks
  BY AtWork
<1>2. \A u \in Tasks : /\ task'[u].of = task[u].of /\ task'[u].seen = task[u].seen
                       /\ task'[u].status = "none" <=> task[u].status = "none"
  <2>1. ASSUME NEW u \in Tasks, u # Current(w)
        PROVE  /\ task'[u].of = task[u].of /\ task'[u].seen = task[u].seen
               /\ task'[u].status = "none" <=> task[u].status = "none"
    BY <2>1
  <2>2. task[Current(w)].status # "none"
    BY <1>1 DEF Used
  <2> QED
    BY <2>1, <2>2
<1> QED
  BY <1>2 DEF Used

\* What an acknowledgement does to the pointers.
LEMMA AckPointers ==
  ASSUME TypeOK, Pointers, NEW w \in Workers, Ack(w)
  PROVE  /\ \A v \in Workers, t \in Tasks : Holds(v, t)' => Holds(v, t)
         /\ Holds(w, Current(w)) /\ \A t : t = Current(w) => ~ Holds(w, t)'
         /\ Current(w) \in Used /\ Current(w) \in Tasks
         /\ acked' = acked \cup {Current(w)}
<1>1. /\ Giving(w) /\ worker[w].pc # "read" /\ acked' = acked \cup {Current(w)}
      /\ \A u : In(worker'[w].batch, u) <=> Before(w, u)
  BY AckDoes
<1>2. /\ Current(w) \in Used /\ Current(w) \in Tasks /\ Holds(w, Current(w))
      /\ ~ Before(w, Current(w)) /\ \A t : Before(w, t) => Holds(w, t)
  BY <1>1, AtWork
<1>3. \A t : Holds(w, t)' <=> Before(w, t)
  BY <1>1 DEF Holds
<1>4. \A v \in Workers \ {w} : worker'[v] = worker[v]
  BY <1>1 DEF Giving
<1>5. ASSUME NEW v \in Workers, v # w, NEW t
      PROVE  Holds(v, t)' <=> Holds(v, t)
  BY <1>4, <1>5 DEF Holds
<1>6. \A v \in Workers, t \in Tasks : Holds(v, t)' => Holds(v, t)
  BY <1>2, <1>3, <1>5
<1>7. \A t : t = Current(w) => ~ Holds(w, t)'
  BY <1>2, <1>3
<1> QED
  BY <1>1, <1>2, <1>6, <1>7

-----------------------------------------------------------------------------
\* Versions.

LEMMA OtherVersion ==
  ASSUME TypeOK, Pointers, NEW w \in Workers, NEW v \in Workers, v # w, Giving(w),
         VersionOf(v),
         \A t \in Tasks : (Holds(w, t) /\ t = Current(w)) \/ task'[t] = task[t]
  PROVE  VersionOf(v)'
<1>1. worker'[v] = worker[v]
  BY DEF Giving
<1>2. Current(v)' = Current(v) /\ \A t : Before(v, t)' <=> Before(v, t)
  BY <1>1 DEF Current, Before
<1>3. \A t \in Tasks : Holds(v, t) => task'[t] = task[t]
  BY DEF Pointers
<1>4. \A t \in Tasks : Before(v, t) => task'[t] = task[t]
  BY <1>3, AtWork
<1>5. CASE worker[v].pc = "read"
  BY <1>1, <1>2, <1>4, <1>5 DEF VersionOf
<1>6. CASE worker[v].pc # "read"
  <2>1. task'[Current(v)] = task[Current(v)]
    BY <1>3, <1>6, AtWork
  <2> QED
    BY <1>1, <1>2, <1>4, <2>1 DEF VersionOf
<1> QED
  BY <1>5, <1>6

\* A worker whose batch is given up, or has just been read, or moves on.
LEMMA FreeVersion ==
  ASSUME NEW w \in Workers, Free(w)
  PROVE  VersionOf(w)'
<1>1. \A t : ~ Before(w, t)'
  BY DEF Free, Before
<1> QED
  BY <1>1 DEF Free, VersionOf

LEMMA FetchVersion ==
  ASSUME NEW w \in Workers, worker'[w] \in WorkFull, worker'[w].batch # <<>>,
         worker'[w].pc = "fetch",
         \A t \in Tasks : In(worker'[w].batch, t) => task'[t].version = 1
  PROVE  VersionOf(w)'
<1>1. Current(w)' \in Tasks /\ \A t : Holds(w, t)' <=> t = Current(w)' \/ Before(w, t)'
  BY NextCurrent
<1>2. \A t : Holds(w, t)' <=> In(worker'[w].batch, t)
  BY DEF Holds
<1>3. task'[Current(w)'].version = 1 /\ \A t \in Tasks : Before(w, t)' => task'[t].version = 1
  BY <1>1, <1>2
<1> QED
  BY <1>3 DEF VersionOf

-----------------------------------------------------------------------------
\* A message on its way to a worker, or found by one.

Finding(w, t, m) ==
  \/ Before(w, t)
  \/ /\ worker[w].pc # "read" /\ Current(w) = t
     /\ \/ worker[w].pc \in {"fetch", "start", "search"}
        \/ worker[w].pc \in {"archive", "persist"} /\ m \in worker[w].found
Bears(t, m) == In(stream, t) \/ \E w \in Workers : Finding(w, t, m)

LEMMA BearsWay ==
  ASSUME TypeOK, NEW m
  PROVE  OnItsWay(m) <=> \E t \in Tasks : task[t].of = home[m] /\ Bears(t, m)
<1>1. \A t : (\E i \in DOMAIN stream : stream[i] = t) <=> In(stream, t)
  BY DEF TypeOK, In
<1>2. \A w \in Workers : worker[w] # Ready <=> worker[w].pc # "read"
  BY Typed
<1> QED
  BY <1>1, <1>2, Zenon DEF OnItsWay, Bears, Finding

LEMMA BearsWayNext ==
  ASSUME TypeOK', NEW m
  PROVE  OnItsWay(m)' <=> \E t \in Tasks : task'[t].of = home'[m] /\ Bears(t, m)'
<1>1. \A t : (\E i \in DOMAIN stream' : stream'[i] = t) <=> In(stream', t)
  BY DEF TypeOK, In
<1>2. \A w \in Workers : worker'[w] # Ready <=> worker'[w].pc # "read"
  <2>1. ASSUME NEW w \in Workers PROVE worker'[w] # Ready <=> worker'[w].pc # "read"
    <3>1. CASE worker'[w] = Ready
      BY <3>1 DEF Ready
    <3>2. CASE worker'[w] # Ready
      BY <3>2 DEF TypeOK, WorkPc
    <3> QED
      BY <3>1, <3>2
  <2> QED
    BY <2>1
<1> QED
  BY <1>1, <1>2, Zenon DEF OnItsWay, Bears, Finding

\* What a worker that did not move finds.
LEMMA OtherFinding ==
  ASSUME NEW w \in Workers, NEW v \in Workers, v # w, Giving(w), NEW t, NEW m
  PROVE  Finding(v, t, m)' <=> Finding(v, t, m)
<1>1. worker'[v] = worker[v]
  BY DEF Giving
<1> QED
  BY <1>1 DEF Finding, Current, Before

\* A batch that is to be fetched.
LEMMA FetchFinding ==
  ASSUME NEW w \in Workers, worker'[w] \in WorkFull, worker'[w].batch # <<>>,
         worker'[w].pc = "fetch", NEW t, In(worker'[w].batch, t), NEW m
  PROVE  Finding(w, t, m)'
<1>1. t = Current(w)' \/ Before(w, t)'
  BY NextCurrent DEF Holds
<1> QED
  BY <1>1 DEF Finding

\* Sessions in hand: a step that takes one, and a step that adds its task.
Takes(f, s) ==
  /\ Due(s) /\ ~ Past(f) /\ Past(f)' /\ ~ Inserted(f, s)'
  /\ enq'[f].seen \cap Of(s) = known \cap Of(s)
  /\ \A g \in Enqueuers \ {f} : enq'[g] = enq[g] /\ (InHandOf(g, s) => s \in overlap')
  /\ UNCHANGED <<home, known, row, task, faults>>
Adds(x, i) ==
  /\ enq[x].pc = "insert" /\ enq'[x].pc = "push" /\ Moved(x)
  /\ enq'[x].task = i /\ task'[i].of = enq[x].at /\ enq[x].at \in Sessions
  /\ task'[i].seen = enq[x].seen \cap Of(enq[x].at)
  /\ Used' = Used \cup {i} /\ UNCHANGED <<home, known, row, faults, overlap>>

LEMMA SeenKnown ==
  ASSUME Shape
  PROVE  \A e \in Enqueuers : enq[e].seen \subseteq known
  BY DEF Shape, EnqOf

LEMMA BearsIn ==
  ASSUME NEW t, NEW m, In(stream', t)
  PROVE  Bears(t, m)'
  BY DEF Bears

-----------------------------------------------------------------------------
\* The parts of the invariant are kept.

LEMMA TypeStep ==
  ASSUME IInv, [Next]_vars
  PROVE  TypeOK'
<1> USE DEF IInv
<1>1. CASE UNCHANGED vars
  BY <1>1 DEF vars, TypeOK, said
<1>2. \A m \in Msgs, s \in Sessions : Send(m, s) => TypeOK'
  BY SendDoes
<1>3. \A m \in Msgs : Store(m) => TypeOK'
  BY StoreDoes
<1>4. \A m \in Msgs : Register(m) => TypeOK'
  BY RegisterDoes
<1>5. \A m \in Msgs : RegisterFails(m) => TypeOK'
  BY RegisterFailsDoes
<1>6. \A s \in Sessions : Age(s) => TypeOK'
  BY AgeDoes
<1>7. \A s \in Sessions : Fire(s) => TypeOK'
  BY FireDoes
<1>8. \A s \in Sessions : Check(s) => TypeOK'
  BY CheckDoes
<1>9. \A k \in Sweeps : List(k) => TypeOK'
  BY ListDoes
<1>10. \A e \in Enqueuers : Turn(e) => TypeOK'
  BY TurnDoes
<1>11. \A e \in Enqueuers : Insert(e) => TypeOK'
  BY InsertDoes
<1>12. \A e \in Enqueuers : Push(e) => TypeOK'
  BY PushDoes
<1>13. \A e \in Enqueuers : Note(e) => TypeOK'
  BY NoteDoes
<1>14. \A e \in Enqueuers : Mark(e) => TypeOK'
  BY MarkDoes
<1>15. \A e \in Enqueuers : PushFails(e) => TypeOK'
  BY PushFailsDoes
<1>16. \A e \in Enqueuers : EnqueueFails(e) => TypeOK'
  BY EnqueueFailsDoes
<1>17. Restart => TypeOK'
  BY RestartDoes
<1>18. \A w \in Workers : ReadGroup(w) => TypeOK'
  BY ReadGroupDoes
<1>19. \A w \in Workers : Fetch(w) => TypeOK'
  BY FetchDoes
<1>20. \A w \in Workers : Start(w) => TypeOK'
  BY StartDoes
<1>21. \A w \in Workers : Search(w) => TypeOK'
  BY SearchDoes
<1>22. \A w \in Workers : Archive(w) => TypeOK'
  BY ArchiveDoes
<1>23. \A w \in Workers : Persist(w) => TypeOK'
  BY PersistDoes
<1>24. \A w \in Workers : Complete(w) => TypeOK'
  BY CompleteDoes
<1>25. \A w \in Workers : Ack(w) => TypeOK'
  BY AckDoes
<1>26. \A w \in Workers : Raises(w) => TypeOK'
  BY RaisesDoes
<1>27. \A w \in Workers : GivesUp(w) => TypeOK'
  BY GivesUpDoes
<1> QED
  BY <1>1, <1>2, <1>3, <1>4, <1>5, <1>6, <1>7, <1>8, <1>9, <1>10, <1>11, <1>12, <1>13,
     <1>14, <1>15, <1>16, <1>17, <1>18, <1>19, <1>20, <1>21, <1>22, <1>23, <1>24, <1>25,
     <1>26, <1>27 DEF Next, Enqueue, Work, Faults, Raises, GivesUp

LEMMA SameSaid == home' = home => said' = said
  BY DEF said

LEMMA SameUsed == task' = task => Used' = Used
  BY DEF Used

\* Messages stay numbered
LEMMA SaidStep ==
  ASSUME IInv, [Next]_vars
  PROVE  Prefix(said)' /\ said \subseteq said'
<1> DEFINE Goal == Prefix(said)' /\ said \subseteq said'
<1> USE DEF IInv, Numbered
<1>1. CASE UNCHANGED vars
  BY <1>1, SameSaid DEF vars
<1>2. ASSUME NEW m \in Msgs, NEW s \in Sessions, Send(m, s)
      PROVE  Goal
  <2> HIDE DEF Numbered
  <2> QED
    BY <1>2, SendDoes
<1>3. \A m \in Msgs : Store(m) => Goal
  BY StoreDoes, SameSaid DEF queue, ghosts
<1>4. \A m \in Msgs : Register(m) => Goal
  BY RegisterDoes, SameSaid DEF queue
<1>5. \A m \in Msgs : RegisterFails(m) => Goal
  BY RegisterFailsDoes, SameSaid DEF queue
<1>6. \A s \in Sessions : Age(s) => Goal
  BY AgeDoes, SameSaid DEF messages, queue, ghosts
<1>7. \A s \in Sessions : Fire(s) => Goal
  BY FireDoes, SameSaid DEF messages, queue, ghosts, Putting
<1>8. \A s \in Sessions : Check(s) => Goal
  BY CheckDoes, SameSaid DEF messages, queue, Putting, Gone, Due
<1>9. \A k \in Sweeps : List(k) => Goal
  BY ListDoes, SameSaid DEF messages, queue, Putting, Due
<1>10. \A e \in Enqueuers : Turn(e) => Goal
  BY TurnDoes, SameSaid DEF messages, queue, ghosts, Putting, Gone
<1>11. ASSUME NEW e \in Enqueuers, Insert(e)
      PROVE  Goal
  <2> HIDE DEF Numbered
  <2>1. home' = home
    BY <1>11, InsertDoes DEF messages
  <2>2. said' = said
    BY <2>1 DEF said
  <2> QED
    BY <2>2 DEF Numbered, Prefix
<1>12. \A e \in Enqueuers : Push(e) => Goal
  BY PushDoes, SameSaid DEF messages, ghosts, Putting, Moved
<1>13. \A e \in Enqueuers : Note(e) => Goal
  BY NoteDoes, SameSaid DEF messages, queue, ghosts, Putting, Moved
<1>14. \A e \in Enqueuers : Mark(e) => Goal
  BY MarkDoes, SameSaid DEF messages, queue, Putting, Gone
<1>15. \A e \in Enqueuers : PushFails(e) => Goal
  BY PushFailsDoes, SameSaid DEF messages, queue, ghosts, Putting, Moved
<1>16. \A e \in Enqueuers : EnqueueFails(e) => Goal
  BY EnqueueFailsDoes, SameSaid DEF messages, queue, ghosts, Putting, Gone
<1>17. Restart => Goal
  BY RestartDoes, SameSaid DEF messages, queue, ghosts, Gone
<1>18. \A w \in Workers : ReadGroup(w) => Goal
  BY ReadGroupDoes, SameSaid DEF messages, ghosts, Giving
<1>19. \A w \in Workers : Fetch(w) => Goal
  BY FetchDoes, SameSaid DEF messages, ghosts, Giving, Going
<1>20. \A w \in Workers : Start(w) => Goal
  BY StartDoes, SameSaid DEF messages, ghosts, Giving, Going
<1>21. \A w \in Workers : Search(w) => Goal
  BY SearchDoes, SameSaid DEF messages, Giving, Going
<1>22. \A w \in Workers : Archive(w) => Goal
  BY ArchiveDoes, SameSaid DEF Giving, Going
<1>23. \A w \in Workers : Persist(w) => Goal
  BY PersistDoes, SameSaid DEF messages, Giving, Going
<1>24. \A w \in Workers : Complete(w) => Goal
  BY CompleteDoes, SameSaid DEF messages, ghosts, Giving, Going
<1>25. \A w \in Workers : Ack(w) => Goal
  BY AckDoes, SameSaid DEF messages, ghosts, Giving, Free
<1>26. \A w \in Workers : Raises(w) => Goal
  BY RaisesDoes, SameSaid DEF messages, Giving, Going
<1>27. \A w \in Workers : GivesUp(w) => Goal
  BY GivesUpDoes, SameSaid DEF messages, Giving, Free
<1> QED
  BY <1>1, <1>2, <1>3, <1>4, <1>5, <1>6, <1>7, <1>8, <1>9, <1>10, <1>11, <1>12, <1>13,
     <1>14, <1>15, <1>16, <1>17, <1>18, <1>19, <1>20, <1>21, <1>22, <1>23, <1>24, <1>25,
     <1>26, <1>27 DEF Next, Enqueue, Work, Faults, Raises, GivesUp

\* and tasks.
LEMMA UsedStep ==
  ASSUME IInv, [Next]_vars
  PROVE  Prefix(Used)'
<1> USE DEF IInv, Numbered
<1>1. CASE UNCHANGED vars
  BY <1>1, SameUsed DEF vars
<1>2. \A m \in Msgs, s \in Sessions : Send(m, s) => Prefix(Used)'
  BY SendDoes, SameUsed DEF queue, ghosts
<1>3. \A m \in Msgs : Store(m) => Prefix(Used)'
  BY StoreDoes, SameUsed DEF queue, ghosts
<1>4. \A m \in Msgs : Register(m) => Prefix(Used)'
  BY RegisterDoes, SameUsed DEF queue
<1>5. \A m \in Msgs : RegisterFails(m) => Prefix(Used)'
  BY RegisterFailsDoes, SameUsed DEF queue
<1>6. \A s \in Sessions : Age(s) => Prefix(Used)'
  BY AgeDoes, SameUsed DEF messages, queue, ghosts
<1>7. ASSUME NEW s \in Sessions, Fire(s)
      PROVE  Prefix(Used)'
  <2> HIDE DEF Numbered
  <2>1. task' = task
    BY <1>7, FireDoes DEF queue
  <2>2. Used' = Used
    BY <2>1 DEF Used
  <2> QED
    BY <2>2 DEF Numbered, Prefix
<1>8. \A s \in Sessions : Check(s) => Prefix(Used)'
  BY CheckDoes, SameUsed DEF messages, queue, Putting, Gone, Due
<1>9. \A k \in Sweeps : List(k) => Prefix(Used)'
  BY ListDoes, SameUsed DEF messages, queue, Putting, Due
<1>10. \A e \in Enqueuers : Turn(e) => Prefix(Used)'
  BY TurnDoes, SameUsed DEF messages, queue, ghosts, Putting, Gone
<1>11. ASSUME NEW e \in Enqueuers, Insert(e)
      PROVE  Prefix(Used)'
  <2> HIDE DEF Numbered
  <2> QED
    BY <1>11, InsertDoes
<1>12. \A e \in Enqueuers : Push(e) => Prefix(Used)'
  BY PushDoes, SameUsed DEF messages, ghosts, Putting, Moved
<1>13. \A e \in Enqueuers : Note(e) => Prefix(Used)'
  BY NoteDoes, SameUsed DEF messages, queue, ghosts, Putting, Moved
<1>14. \A e \in Enqueuers : Mark(e) => Prefix(Used)'
  BY MarkDoes, SameUsed DEF messages, queue, Putting, Gone
<1>15. \A e \in Enqueuers : PushFails(e) => Prefix(Used)'
  BY PushFailsDoes, SameUsed DEF messages, queue, ghosts, Putting, Moved
<1>16. \A e \in Enqueuers : EnqueueFails(e) => Prefix(Used)'
  BY EnqueueFailsDoes, SameUsed DEF messages, queue, ghosts, Putting, Gone
<1>17. Restart => Prefix(Used)'
  BY RestartDoes, SameUsed DEF messages, queue, ghosts, Gone
<1>18. \A w \in Workers : ReadGroup(w) => Prefix(Used)'
  BY ReadGroupDoes, SameUsed DEF messages, ghosts, Giving
<1>19. \A w \in Workers : Fetch(w) => Prefix(Used)'
  BY FetchDoes, SameUsed DEF messages, ghosts, Giving, Going
<1>20. ASSUME NEW w \in Workers, Start(w)
      PROVE  Prefix(Used)'
  <2> HIDE DEF Numbered
  <2>1. Used' = Used
    BY <1>20, StartDoes, Reworked
  <2> QED
    BY <2>1 DEF Numbered, Prefix
<1>21. \A w \in Workers : Search(w) => Prefix(Used)'
  BY SearchDoes, SameUsed DEF messages, Giving, Going
<1>22. \A w \in Workers : Archive(w) => Prefix(Used)'
  BY ArchiveDoes, SameUsed DEF Giving, Going
<1>23. \A w \in Workers : Persist(w) => Prefix(Used)'
  BY PersistDoes, SameUsed DEF messages, Giving, Going
<1>24. ASSUME NEW w \in Workers, Complete(w)
      PROVE  Prefix(Used)'
  <2> HIDE DEF Numbered
  <2>1. Used' = Used
    BY <1>24, CompleteDoes, Reworked
  <2> QED
    BY <2>1 DEF Numbered, Prefix
<1>25. \A w \in Workers : Ack(w) => Prefix(Used)'
  BY AckDoes, SameUsed DEF messages, ghosts, Giving, Free
<1>26. ASSUME NEW w \in Workers, Raises(w)
      PROVE  Prefix(Used)'
  <2> HIDE DEF Numbered
  <2>1. Used' = Used
    BY <1>26, RaisesDoes, Reworked
  <2> QED
    BY <2>1 DEF Numbered, Prefix
<1>27. \A w \in Workers : GivesUp(w) => Prefix(Used)'
  BY GivesUpDoes, SameUsed DEF messages, Giving, Free
<1> QED
  BY <1>1, <1>2, <1>3, <1>4, <1>5, <1>6, <1>7, <1>8, <1>9, <1>10, <1>11, <1>12, <1>13,
     <1>14, <1>15, <1>16, <1>17, <1>18, <1>19, <1>20, <1>21, <1>22, <1>23, <1>24, <1>25,
     <1>26, <1>27 DEF Next, Enqueue, Work, Faults, Raises, GivesUp

\* A task is one of a session.
LEMMA TaskStep ==
  ASSUME IInv, [Next]_vars, NEW i \in Tasks
  PROVE  TaskOf(i)'
<1> USE DEF IInv, Shape, TaskOf, EnqOf, Of
<1>1. CASE UNCHANGED vars
  BY <1>1, Sent DEF vars
<1>2. \A m \in Msgs, s \in Sessions : Send(m, s) => TaskOf(i)'
  BY SendDoes, Sent DEF queue, ghosts
<1>3. \A m \in Msgs : Store(m) => TaskOf(i)'
  BY StoreDoes, Sent DEF queue, ghosts
<1>4. \A m \in Msgs : Register(m) => TaskOf(i)'
  BY RegisterDoes, Sent DEF queue
<1>5. \A m \in Msgs : RegisterFails(m) => TaskOf(i)'
  BY RegisterFailsDoes, Sent DEF queue
<1>6. \A s \in Sessions : Age(s) => TaskOf(i)'
  BY AgeDoes, Sent DEF messages, queue, ghosts
<1>7. \A s \in Sessions : Fire(s) => TaskOf(i)'
  BY FireDoes, Sent DEF messages, queue, ghosts, Putting
<1>8. \A s \in Sessions : Check(s) => TaskOf(i)'
  BY CheckDoes, Sent DEF messages, queue, Putting, Gone, Due
<1>9. \A k \in Sweeps : List(k) => TaskOf(i)'
  BY ListDoes, Sent DEF messages, queue, Putting, Due
<1>10. \A e \in Enqueuers : Turn(e) => TaskOf(i)'
  BY TurnDoes, Sent DEF messages, queue, ghosts, Putting, Gone
<1>11. \A e \in Enqueuers : Insert(e) => TaskOf(i)'
  BY InsertDoes, Sent DEF messages, ghosts, Putting, Moved
<1>12. \A e \in Enqueuers : Push(e) => TaskOf(i)'
  BY PushDoes, Sent DEF messages, ghosts, Putting, Moved
<1>13. \A e \in Enqueuers : Note(e) => TaskOf(i)'
  BY NoteDoes, Sent DEF messages, queue, ghosts, Putting, Moved
<1>14. \A e \in Enqueuers : Mark(e) => TaskOf(i)'
  BY MarkDoes, Sent DEF messages, queue, Putting, Gone
<1>15. \A e \in Enqueuers : PushFails(e) => TaskOf(i)'
  BY PushFailsDoes, Sent DEF messages, queue, ghosts, Putting, Moved
<1>16. \A e \in Enqueuers : EnqueueFails(e) => TaskOf(i)'
  BY EnqueueFailsDoes, Sent DEF messages, queue, ghosts, Putting, Gone
<1>17. Restart => TaskOf(i)'
  BY RestartDoes, Sent DEF messages, queue, ghosts, Gone
<1>18. \A w \in Workers : ReadGroup(w) => TaskOf(i)'
  BY ReadGroupDoes, Sent, AtWork DEF messages, ghosts, Giving
<1>19. \A w \in Workers : Fetch(w) => TaskOf(i)'
  BY FetchDoes, Sent, AtWork DEF messages, ghosts, Giving, Going
<1>20. ASSUME NEW w \in Workers, Start(w)
      PROVE  TaskOf(i)'
  <2> HIDE DEF Shape, TaskOf, EnqOf, Of
  <2>1. /\ task'[i].of = task[i].of /\ task'[i].seen = task[i].seen
        /\ task'[i].status = "none" <=> task[i].status = "none"
    BY <1>20, StartDoes, Reworked
  <2>2. known' = known /\ home' = home
    BY <1>20, StartDoes DEF messages
  <2> QED
    BY <2>1, <2>2 DEF Shape, TaskOf, Of
<1>21. \A w \in Workers : Search(w) => TaskOf(i)'
  BY SearchDoes, Sent, AtWork DEF messages, Giving, Going
<1>22. \A w \in Workers : Archive(w) => TaskOf(i)'
  BY ArchiveDoes, Sent, AtWork DEF Giving, Going
<1>23. \A w \in Workers : Persist(w) => TaskOf(i)'
  BY PersistDoes, Sent, AtWork DEF messages, Giving, Going
<1>24. ASSUME NEW w \in Workers, Complete(w)
      PROVE  TaskOf(i)'
  <2> HIDE DEF Shape, TaskOf, EnqOf, Of
  <2>1. /\ task'[i].of = task[i].of /\ task'[i].seen = task[i].seen
        /\ task'[i].status = "none" <=> task[i].status = "none"
    BY <1>24, CompleteDoes, Reworked
  <2>2. known' = known /\ home' = home
    BY <1>24, CompleteDoes DEF messages
  <2> QED
    BY <2>1, <2>2 DEF Shape, TaskOf, Of
<1>25. \A w \in Workers : Ack(w) => TaskOf(i)'
  BY AckDoes, Sent, AtWork DEF messages, ghosts, Giving, Free
<1>26. ASSUME NEW w \in Workers, Raises(w)
      PROVE  TaskOf(i)'
  <2> HIDE DEF Shape, TaskOf, EnqOf, Of
  <2>1. /\ task'[i].of = task[i].of /\ task'[i].seen = task[i].seen
        /\ task'[i].status = "none" <=> task[i].status = "none"
    BY <1>26, RaisesDoes, Reworked
  <2>2. known' = known /\ home' = home
    BY <1>26, RaisesDoes DEF messages
  <2> QED
    BY <2>1, <2>2 DEF Shape, TaskOf, Of
<1>27. \A w \in Workers : GivesUp(w) => TaskOf(i)'
  BY GivesUpDoes, Sent, AtWork DEF messages, Giving, Free
<1> QED
  BY <1>1, <1>2, <1>3, <1>4, <1>5, <1>6, <1>7, <1>8, <1>9, <1>10, <1>11, <1>12, <1>13,
     <1>14, <1>15, <1>16, <1>17, <1>18, <1>19, <1>20, <1>21, <1>22, <1>23, <1>24, <1>25,
     <1>26, <1>27 DEF Next, Enqueue, Work, Faults, Raises, GivesUp

\* An enqueuer stays in shape.
LEMMA EnqStep ==
  ASSUME IInv, [Next]_vars, NEW f \in Enqueuers
  PROVE  EnqOf(f)'
<1> USE DEF IInv, Shape, EnqOf
<1>1. CASE UNCHANGED vars
  BY <1>1, Typed DEF vars
<1>2. \A m \in Msgs, s \in Sessions : Send(m, s) => EnqOf(f)'
  BY SendDoes, Typed DEF queue, ghosts
<1>3. \A m \in Msgs : Store(m) => EnqOf(f)'
  BY StoreDoes, Typed DEF queue, ghosts
<1>4. \A m \in Msgs : Register(m) => EnqOf(f)'
  BY RegisterDoes, Typed DEF queue
<1>5. \A m \in Msgs : RegisterFails(m) => EnqOf(f)'
  BY RegisterFailsDoes, Typed DEF queue
<1>6. \A s \in Sessions : Age(s) => EnqOf(f)'
  BY AgeDoes, Typed DEF messages, queue, ghosts
<1>7. \A s \in Sessions : Fire(s) => EnqOf(f)'
  BY FireDoes, Typed DEF messages, queue, ghosts, Putting
<1>8. \A s \in Sessions : Check(s) => EnqOf(f)'
  BY CheckDoes, Typed DEF messages, queue, Putting, Gone, Due
<1>9. \A k \in Sweeps : List(k) => EnqOf(f)'
  BY ListDoes, Typed DEF messages, queue, Putting, Due
<1>10. \A e \in Enqueuers : Turn(e) => EnqOf(f)'
  BY TurnDoes, Typed DEF messages, queue, ghosts, Putting, Gone
<1>11. ASSUME NEW e \in Enqueuers, Insert(e)
      PROVE  EnqOf(f)'
  <2> HIDE DEF Shape, EnqOf
  <2>1. /\ Putting(e) /\ enq[e].pc = "insert" /\ enq'[e].pc = "push" /\ Moved(e)
        /\ enq'[e].task \in Tasks /\ enq'[e].task \notin Used /\ known' = known
        /\ task'[enq'[e].task].status = "QUEUED" /\ task'[enq'[e].task].of = enq[e].at
        /\ \A u \in Tasks \ {enq'[e].task} : task'[u] = task[u]
    BY <1>11, InsertDoes DEF messages
  <2>2. EnqOf(e) /\ EnqOf(f)
    BY DEF Shape
  <2>3. CASE f = e
    BY <2>1, <2>2, <2>3 DEF EnqOf, Moved
  <2>4. CASE f # e
    BY <2>1, <2>2, <2>4 DEF EnqOf, Putting, Used
  <2> QED
    BY <2>3, <2>4
<1>12. \A e \in Enqueuers : Push(e) => EnqOf(f)'
  BY PushDoes, Typed DEF messages, ghosts, Putting, Moved
<1>13. \A e \in Enqueuers : Note(e) => EnqOf(f)'
  BY NoteDoes, Typed DEF messages, queue, ghosts, Putting, Moved
<1>14. \A e \in Enqueuers : Mark(e) => EnqOf(f)'
  BY MarkDoes, Typed DEF messages, queue, Putting, Gone
<1>15. \A e \in Enqueuers : PushFails(e) => EnqOf(f)'
  BY PushFailsDoes, Typed DEF messages, queue, ghosts, Putting, Moved
<1>16. \A e \in Enqueuers : EnqueueFails(e) => EnqOf(f)'
  BY EnqueueFailsDoes, Typed DEF messages, queue, ghosts, Putting, Gone
<1>17. Restart => EnqOf(f)'
  BY RestartDoes, Typed DEF messages, queue, ghosts, Gone
<1>18. \A w \in Workers : ReadGroup(w) => EnqOf(f)'
  BY ReadGroupDoes, Typed, AtWork DEF messages, ghosts, Giving
<1>19. \A w \in Workers : Fetch(w) => EnqOf(f)'
  BY FetchDoes, Typed, AtWork DEF messages, ghosts, Giving, Going
<1>20. \A w \in Workers : Start(w) => EnqOf(f)'
  BY StartDoes, Typed, AtWork DEF messages, ghosts, Giving, Going
<1>21. \A w \in Workers : Search(w) => EnqOf(f)'
  BY SearchDoes, Typed, AtWork DEF messages, Giving, Going
<1>22. \A w \in Workers : Archive(w) => EnqOf(f)'
  BY ArchiveDoes, Typed, AtWork DEF Giving, Going
<1>23. \A w \in Workers : Persist(w) => EnqOf(f)'
  BY PersistDoes, Typed, AtWork DEF messages, Giving, Going
<1>24. \A w \in Workers : Complete(w) => EnqOf(f)'
  BY CompleteDoes, Typed, AtWork DEF messages, ghosts, Giving, Going
<1>25. \A w \in Workers : Ack(w) => EnqOf(f)'
  BY AckDoes, Typed, AtWork DEF messages, ghosts, Giving, Free
<1>26. \A w \in Workers : Raises(w) => EnqOf(f)'
  BY RaisesDoes, Typed, AtWork DEF messages, Giving, Going
<1>27. \A w \in Workers : GivesUp(w) => EnqOf(f)'
  BY GivesUpDoes, Typed, AtWork DEF messages, Giving, Free
<1> QED
  BY <1>1, <1>2, <1>3, <1>4, <1>5, <1>6, <1>7, <1>8, <1>9, <1>10, <1>11, <1>12, <1>13,
     <1>14, <1>15, <1>16, <1>17, <1>18, <1>19, <1>20, <1>21, <1>22, <1>23, <1>24, <1>25,
     <1>26, <1>27 DEF Next, Enqueue, Work, Faults, Raises, GivesUp

\* What a worker has found was sent.
LEMMA FoundStep ==
  ASSUME IInv, [Next]_vars, NEW v \in Workers
  PROVE  worker'[v].found \subseteq said'
<1> DEFINE Goal == worker'[v].found \subseteq said'
<1> USE DEF IInv, Shape
<1>1. CASE UNCHANGED vars
  BY <1>1, Sent, SaidStep DEF vars
<1>2. \A m \in Msgs, s \in Sessions : Send(m, s) => Goal
  BY SendDoes, Sent, SaidStep DEF queue, ghosts
<1>3. \A m \in Msgs : Store(m) => Goal
  BY StoreDoes, Sent, SaidStep DEF queue, ghosts
<1>4. \A m \in Msgs : Register(m) => Goal
  BY RegisterDoes, Sent, SaidStep DEF queue
<1>5. \A m \in Msgs : RegisterFails(m) => Goal
  BY RegisterFailsDoes, Sent, SaidStep DEF queue
<1>6. \A s \in Sessions : Age(s) => Goal
  BY AgeDoes, Sent, SaidStep DEF messages, queue, ghosts
<1>7. \A s \in Sessions : Fire(s) => Goal
  BY FireDoes, Sent, SaidStep DEF messages, queue, ghosts, Putting
<1>8. \A s \in Sessions : Check(s) => Goal
  BY CheckDoes, Sent, SaidStep DEF messages, queue, Putting, Gone, Due
<1>9. \A k \in Sweeps : List(k) => Goal
  BY ListDoes, Sent, SaidStep DEF messages, queue, Putting, Due
<1>10. \A e \in Enqueuers : Turn(e) => Goal
  BY TurnDoes, Sent, SaidStep DEF messages, queue, ghosts, Putting, Gone
<1>11. \A e \in Enqueuers : Insert(e) => Goal
  BY InsertDoes, Sent, SaidStep DEF messages, ghosts, Putting, Moved
<1>12. \A e \in Enqueuers : Push(e) => Goal
  BY PushDoes, Sent, SaidStep DEF messages, ghosts, Putting, Moved
<1>13. \A e \in Enqueuers : Note(e) => Goal
  BY NoteDoes, Sent, SaidStep DEF messages, queue, ghosts, Putting, Moved
<1>14. \A e \in Enqueuers : Mark(e) => Goal
  BY MarkDoes, Sent, SaidStep DEF messages, queue, Putting, Gone
<1>15. \A e \in Enqueuers : PushFails(e) => Goal
  BY PushFailsDoes, Sent, SaidStep DEF messages, queue, ghosts, Putting, Moved
<1>16. \A e \in Enqueuers : EnqueueFails(e) => Goal
  BY EnqueueFailsDoes, Sent, SaidStep DEF messages, queue, ghosts, Putting, Gone
<1>17. Restart => Goal
  BY RestartDoes, Sent, SaidStep DEF messages, queue, ghosts, Gone
<1>18. \A w \in Workers : ReadGroup(w) => Goal
  BY ReadGroupDoes, Sent, SaidStep DEF messages, ghosts, Giving
<1>19. \A w \in Workers : Fetch(w) => Goal
  BY FetchDoes, Sent, SaidStep DEF messages, ghosts, Giving, Going
<1>20. \A w \in Workers : Start(w) => Goal
  BY StartDoes, Sent, SaidStep DEF messages, ghosts, Giving, Going
<1>21. \A w \in Workers : Search(w) => Goal
  BY SearchDoes, Sent, SaidStep DEF messages, Giving, Going
<1>22. \A w \in Workers : Archive(w) => Goal
  BY ArchiveDoes, Sent, SaidStep DEF Giving, Going
<1>23. \A w \in Workers : Persist(w) => Goal
  BY PersistDoes, Sent, SaidStep DEF messages, Giving, Going
<1>24. \A w \in Workers : Complete(w) => Goal
  BY CompleteDoes, Sent, SaidStep DEF messages, ghosts, Giving, Going
<1>25. \A w \in Workers : Ack(w) => Goal
  BY AckDoes, Sent, SaidStep DEF messages, ghosts, Giving, Free
<1>26. \A w \in Workers : Raises(w) => Goal
  BY RaisesDoes, Sent, SaidStep DEF messages, Giving, Going
<1>27. \A w \in Workers : GivesUp(w) => Goal
  BY GivesUpDoes, Sent, SaidStep DEF messages, Giving, Free
<1> QED
  BY <1>1, <1>2, <1>3, <1>4, <1>5, <1>6, <1>7, <1>8, <1>9, <1>10, <1>11, <1>12, <1>13,
     <1>14, <1>15, <1>16, <1>17, <1>18, <1>19, <1>20, <1>21, <1>22, <1>23, <1>24, <1>25,
     <1>26, <1>27 DEF Next, Enqueue, Work, Faults, Raises, GivesUp

\* A task that is not inserted has no pointer.
LEMMA NewStep ==
  ASSUME IInv, [Next]_vars, NEW i \in Tasks, task'[i].status = "none"
  PROVE  /\ ~ In(stream', i) /\ i \notin acked'
         /\ \A v \in Workers : ~ Holds(v, i)'
<1> DEFINE Goal == /\ ~ In(stream', i) /\ i \notin acked'
                   /\ \A v \in Workers : ~ Holds(v, i)'
<1> USE DEF IInv, Pointers, Pushing, Used, Holds, Shape, EnqOf
<1>1. CASE UNCHANGED vars
  BY <1>1, NoneIn DEF vars
<1>2. \A m \in Msgs, s \in Sessions : Send(m, s) => Goal
  BY SendDoes, NoneIn DEF queue, ghosts
<1>3. \A m \in Msgs : Store(m) => Goal
  BY StoreDoes, NoneIn DEF queue, ghosts
<1>4. \A m \in Msgs : Register(m) => Goal
  BY RegisterDoes, NoneIn DEF queue
<1>5. \A m \in Msgs : RegisterFails(m) => Goal
  BY RegisterFailsDoes, NoneIn DEF queue
<1>6. \A s \in Sessions : Age(s) => Goal
  BY AgeDoes, NoneIn DEF messages, queue, ghosts
<1>7. \A s \in Sessions : Fire(s) => Goal
  BY FireDoes, NoneIn DEF messages, queue, ghosts, Putting
<1>8. \A s \in Sessions : Check(s) => Goal
  BY CheckDoes, NoneIn DEF messages, queue, Putting, Gone, Due
<1>9. \A k \in Sweeps : List(k) => Goal
  BY ListDoes, NoneIn DEF messages, queue, Putting, Due
<1>10. \A e \in Enqueuers : Turn(e) => Goal
  BY TurnDoes, NoneIn DEF messages, queue, ghosts, Putting, Gone
<1>11. ASSUME NEW e \in Enqueuers, Insert(e)
      PROVE  Goal
  <2> HIDE DEF Pointers, Pushing, Used, Holds, Shape, EnqOf
  <2>1. /\ Putting(e) /\ enq[e].pc = "insert" /\ enq'[e].pc = "push"
        /\ enq'[e].task \in Tasks /\ enq'[e].task \notin Used
        /\ task'[enq'[e].task].status = "QUEUED"
        /\ stream' = stream /\ acked' = acked /\ worker' = worker
        /\ \A u \in Tasks \ {enq'[e].task} : task'[u] = task[u]
    BY <1>11, InsertDoes
  <2>2. i # enq'[e].task /\ task[i].status = "none"
    BY <2>1
  <2> QED
    BY <2>1, <2>2 DEF Pointers, Holds
<1>12. \A e \in Enqueuers : Push(e) => Goal
  BY PushDoes, NoneIn DEF messages, ghosts, Putting, Moved
<1>13. \A e \in Enqueuers : Note(e) => Goal
  BY NoteDoes, NoneIn DEF messages, queue, ghosts, Putting, Moved
<1>14. \A e \in Enqueuers : Mark(e) => Goal
  BY MarkDoes, NoneIn DEF messages, queue, Putting, Gone
<1>15. \A e \in Enqueuers : PushFails(e) => Goal
  BY PushFailsDoes, NoneIn DEF messages, queue, ghosts, Putting, Moved
<1>16. \A e \in Enqueuers : EnqueueFails(e) => Goal
  BY EnqueueFailsDoes, NoneIn DEF messages, queue, ghosts, Putting, Gone
<1>17. Restart => Goal
  BY RestartDoes, NoneIn DEF messages, queue, ghosts, Gone
<1>18. \A w \in Workers : ReadGroup(w) => Goal
  BY ReadGroupDoes, NoneIn, AtWork DEF messages, ghosts, Giving
<1>19. \A w \in Workers : Fetch(w) => Goal
  BY FetchDoes, NoneIn, AtWork DEF messages, ghosts, Giving, Going
<1>20. \A w \in Workers : Start(w) => Goal
  BY StartDoes, NoneIn, AtWork DEF messages, ghosts, Giving, Going
<1>21. \A w \in Workers : Search(w) => Goal
  BY SearchDoes, NoneIn, AtWork DEF messages, Giving, Going
<1>22. \A w \in Workers : Archive(w) => Goal
  BY ArchiveDoes, NoneIn, AtWork DEF Giving, Going
<1>23. \A w \in Workers : Persist(w) => Goal
  BY PersistDoes, NoneIn, AtWork DEF messages, Giving, Going
<1>24. \A w \in Workers : Complete(w) => Goal
  BY CompleteDoes, NoneIn, AtWork DEF messages, ghosts, Giving, Going
<1>25. ASSUME NEW w \in Workers, Ack(w)
      PROVE  Goal
  <2> HIDE DEF Pointers, Pushing, Used, Holds, Shape, EnqOf
  <2>1. /\ \A x \in Workers, t \in Tasks : Holds(x, t)' => Holds(x, t)
        /\ Holds(w, Current(w)) /\ \A t : t = Current(w) => ~ Holds(w, t)'
        /\ Current(w) \in Used /\ Current(w) \in Tasks
        /\ acked' = acked \cup {Current(w)}
    BY <1>25, AckPointers
  <2>2. stream' = stream /\ task' = task /\ enq' = enq
    BY <1>25, AckDoes
  <2>3. i # Current(w) /\ task[i].status = "none"
    BY <2>1, <2>2 DEF Used
  <2> QED
    BY <2>1, <2>2, <2>3 DEF Pointers
<1>26. \A w \in Workers : Raises(w) => Goal
  BY RaisesDoes, NoneIn, AtWork DEF messages, Giving, Going
<1>27. \A w \in Workers : GivesUp(w) => Goal
  BY GivesUpDoes, NoneIn, AtWork DEF messages, Giving, Free
<1> QED
  BY <1>1, <1>2, <1>3, <1>4, <1>5, <1>6, <1>7, <1>8, <1>9, <1>10, <1>11, <1>12, <1>13,
     <1>14, <1>15, <1>16, <1>17, <1>18, <1>19, <1>20, <1>21, <1>22, <1>23, <1>24, <1>25,
     <1>26, <1>27 DEF Next, Enqueue, Work, Faults, Raises, GivesUp

\* The stream has a pointer once,
LEMMA StreamStep ==
  ASSUME IInv, [Next]_vars
  PROVE  Distinct(stream)'
<1> USE DEF IInv, Pointers, Pushing, Used, Holds
<1>1. CASE UNCHANGED vars
  BY <1>1 DEF vars
<1>2. \A m \in Msgs, s \in Sessions : Send(m, s) => Distinct(stream)'
  BY SendDoes DEF queue, ghosts
<1>3. \A m \in Msgs : Store(m) => Distinct(stream)'
  BY StoreDoes DEF queue, ghosts
<1>4. \A m \in Msgs : Register(m) => Distinct(stream)'
  BY RegisterDoes DEF queue
<1>5. \A m \in Msgs : RegisterFails(m) => Distinct(stream)'
  BY RegisterFailsDoes DEF queue
<1>6. \A s \in Sessions : Age(s) => Distinct(stream)'
  BY AgeDoes DEF messages, queue, ghosts
<1>7. \A s \in Sessions : Fire(s) => Distinct(stream)'
  BY FireDoes DEF messages, queue, ghosts, Putting
<1>8. \A s \in Sessions : Check(s) => Distinct(stream)'
  BY CheckDoes DEF messages, queue, Putting, Gone, Due
<1>9. \A k \in Sweeps : List(k) => Distinct(stream)'
  BY ListDoes DEF messages, queue, Putting, Due
<1>10. \A e \in Enqueuers : Turn(e) => Distinct(stream)'
  BY TurnDoes DEF messages, queue, ghosts, Putting, Gone
<1>11. \A e \in Enqueuers : Insert(e) => Distinct(stream)'
  BY InsertDoes DEF messages, ghosts, Putting, Moved
<1>12. \A e \in Enqueuers : Push(e) => Distinct(stream)'
  BY PushDoes DEF messages, ghosts, Putting, Moved
<1>13. \A e \in Enqueuers : Note(e) => Distinct(stream)'
  BY NoteDoes DEF messages, queue, ghosts, Putting, Moved
<1>14. \A e \in Enqueuers : Mark(e) => Distinct(stream)'
  BY MarkDoes DEF messages, queue, Putting, Gone
<1>15. \A e \in Enqueuers : PushFails(e) => Distinct(stream)'
  BY PushFailsDoes DEF messages, queue, ghosts, Putting, Moved
<1>16. \A e \in Enqueuers : EnqueueFails(e) => Distinct(stream)'
  BY EnqueueFailsDoes DEF messages, queue, ghosts, Putting, Gone
<1>17. Restart => Distinct(stream)'
  BY RestartDoes DEF messages, queue, ghosts, Gone
<1>18. \A w \in Workers : ReadGroup(w) => Distinct(stream)'
  BY ReadGroupDoes DEF messages, ghosts, Giving
<1>19. \A w \in Workers : Fetch(w) => Distinct(stream)'
  BY FetchDoes DEF messages, ghosts, Giving, Going
<1>20. \A w \in Workers : Start(w) => Distinct(stream)'
  BY StartDoes DEF messages, ghosts, Giving, Going
<1>21. \A w \in Workers : Search(w) => Distinct(stream)'
  BY SearchDoes DEF messages, Giving, Going
<1>22. \A w \in Workers : Archive(w) => Distinct(stream)'
  BY ArchiveDoes DEF Giving, Going
<1>23. \A w \in Workers : Persist(w) => Distinct(stream)'
  BY PersistDoes DEF messages, Giving, Going
<1>24. \A w \in Workers : Complete(w) => Distinct(stream)'
  BY CompleteDoes DEF messages, ghosts, Giving, Going
<1>25. \A w \in Workers : Ack(w) => Distinct(stream)'
  BY AckDoes DEF messages, ghosts, Giving, Free
<1>26. \A w \in Workers : Raises(w) => Distinct(stream)'
  BY RaisesDoes DEF messages, Giving, Going
<1>27. \A w \in Workers : GivesUp(w) => Distinct(stream)'
  BY GivesUpDoes DEF messages, Giving, Free
<1> QED
  BY <1>1, <1>2, <1>3, <1>4, <1>5, <1>6, <1>7, <1>8, <1>9, <1>10, <1>11, <1>12, <1>13,
     <1>14, <1>15, <1>16, <1>17, <1>18, <1>19, <1>20, <1>21, <1>22, <1>23, <1>24, <1>25,
     <1>26, <1>27 DEF Next, Enqueue, Work, Faults, Raises, GivesUp

\* and a worker.
LEMMA BatchStep ==
  ASSUME IInv, [Next]_vars, NEW v \in Workers
  PROVE  Distinct(worker'[v].batch)
<1> USE DEF IInv, Pointers, Pushing, Used, Holds
<1>1. CASE UNCHANGED vars
  BY <1>1, NoneIn DEF vars
<1>2. \A m \in Msgs, s \in Sessions : Send(m, s) => Distinct(worker'[v].batch)
  BY SendDoes, NoneIn DEF queue, ghosts
<1>3. \A m \in Msgs : Store(m) => Distinct(worker'[v].batch)
  BY StoreDoes, NoneIn DEF queue, ghosts
<1>4. \A m \in Msgs : Register(m) => Distinct(worker'[v].batch)
  BY RegisterDoes, NoneIn DEF queue
<1>5. \A m \in Msgs : RegisterFails(m) => Distinct(worker'[v].batch)
  BY RegisterFailsDoes, NoneIn DEF queue
<1>6. \A s \in Sessions : Age(s) => Distinct(worker'[v].batch)
  BY AgeDoes, NoneIn DEF messages, queue, ghosts
<1>7. \A s \in Sessions : Fire(s) => Distinct(worker'[v].batch)
  BY FireDoes, NoneIn DEF messages, queue, ghosts, Putting
<1>8. \A s \in Sessions : Check(s) => Distinct(worker'[v].batch)
  BY CheckDoes, NoneIn DEF messages, queue, Putting, Gone, Due
<1>9. \A k \in Sweeps : List(k) => Distinct(worker'[v].batch)
  BY ListDoes, NoneIn DEF messages, queue, Putting, Due
<1>10. \A e \in Enqueuers : Turn(e) => Distinct(worker'[v].batch)
  BY TurnDoes, NoneIn DEF messages, queue, ghosts, Putting, Gone
<1>11. \A e \in Enqueuers : Insert(e) => Distinct(worker'[v].batch)
  BY InsertDoes, NoneIn DEF messages, ghosts, Putting, Moved
<1>12. \A e \in Enqueuers : Push(e) => Distinct(worker'[v].batch)
  BY PushDoes, NoneIn DEF messages, ghosts, Putting, Moved
<1>13. \A e \in Enqueuers : Note(e) => Distinct(worker'[v].batch)
  BY NoteDoes, NoneIn DEF messages, queue, ghosts, Putting, Moved
<1>14. \A e \in Enqueuers : Mark(e) => Distinct(worker'[v].batch)
  BY MarkDoes, NoneIn DEF messages, queue, Putting, Gone
<1>15. \A e \in Enqueuers : PushFails(e) => Distinct(worker'[v].batch)
  BY PushFailsDoes, NoneIn DEF messages, queue, ghosts, Putting, Moved
<1>16. \A e \in Enqueuers : EnqueueFails(e) => Distinct(worker'[v].batch)
  BY EnqueueFailsDoes, NoneIn DEF messages, queue, ghosts, Putting, Gone
<1>17. Restart => Distinct(worker'[v].batch)
  BY RestartDoes, NoneIn DEF messages, queue, ghosts, Gone
<1>18. \A w \in Workers : ReadGroup(w) => Distinct(worker'[v].batch)
  BY ReadGroupDoes, NoneIn, AtWork DEF messages, ghosts, Giving
<1>19. \A w \in Workers : Fetch(w) => Distinct(worker'[v].batch)
  BY FetchDoes, NoneIn, AtWork DEF messages, ghosts, Giving, Going
<1>20. \A w \in Workers : Start(w) => Distinct(worker'[v].batch)
  BY StartDoes, NoneIn, AtWork DEF messages, ghosts, Giving, Going
<1>21. \A w \in Workers : Search(w) => Distinct(worker'[v].batch)
  BY SearchDoes, NoneIn, AtWork DEF messages, Giving, Going
<1>22. \A w \in Workers : Archive(w) => Distinct(worker'[v].batch)
  BY ArchiveDoes, NoneIn, AtWork DEF Giving, Going
<1>23. \A w \in Workers : Persist(w) => Distinct(worker'[v].batch)
  BY PersistDoes, NoneIn, AtWork DEF messages, Giving, Going
<1>24. \A w \in Workers : Complete(w) => Distinct(worker'[v].batch)
  BY CompleteDoes, NoneIn, AtWork DEF messages, ghosts, Giving, Going
<1>25. \A w \in Workers : Ack(w) => Distinct(worker'[v].batch)
  BY AckDoes, NoneIn, AtWork DEF messages, ghosts, Giving, Free
<1>26. \A w \in Workers : Raises(w) => Distinct(worker'[v].batch)
  BY RaisesDoes, NoneIn, AtWork DEF messages, Giving, Going
<1>27. \A w \in Workers : GivesUp(w) => Distinct(worker'[v].batch)
  BY GivesUpDoes, NoneIn, AtWork DEF messages, Giving, Free
<1> QED
  BY <1>1, <1>2, <1>3, <1>4, <1>5, <1>6, <1>7, <1>8, <1>9, <1>10, <1>11, <1>12, <1>13,
     <1>14, <1>15, <1>16, <1>17, <1>18, <1>19, <1>20, <1>21, <1>22, <1>23, <1>24, <1>25,
     <1>26, <1>27 DEF Next, Enqueue, Work, Faults, Raises, GivesUp

\* What is in the stream is not acknowledged,
LEMMA UnackedStep ==
  ASSUME IInv, [Next]_vars, NEW i \in Tasks, In(stream', i)
  PROVE  i \notin acked'
<1> USE DEF IInv, Pointers, Pushing, Used, Holds
<1>1. CASE UNCHANGED vars
  BY <1>1, NoneIn DEF vars
<1>2. \A m \in Msgs, s \in Sessions : Send(m, s) => i \notin acked'
  BY SendDoes, NoneIn DEF queue, ghosts
<1>3. \A m \in Msgs : Store(m) => i \notin acked'
  BY StoreDoes, NoneIn DEF queue, ghosts
<1>4. \A m \in Msgs : Register(m) => i \notin acked'
  BY RegisterDoes, NoneIn DEF queue
<1>5. \A m \in Msgs : RegisterFails(m) => i \notin acked'
  BY RegisterFailsDoes, NoneIn DEF queue
<1>6. \A s \in Sessions : Age(s) => i \notin acked'
  BY AgeDoes, NoneIn DEF messages, queue, ghosts
<1>7. \A s \in Sessions : Fire(s) => i \notin acked'
  BY FireDoes, NoneIn DEF messages, queue, ghosts, Putting
<1>8. \A s \in Sessions : Check(s) => i \notin acked'
  BY CheckDoes, NoneIn DEF messages, queue, Putting, Gone, Due
<1>9. \A k \in Sweeps : List(k) => i \notin acked'
  BY ListDoes, NoneIn DEF messages, queue, Putting, Due
<1>10. \A e \in Enqueuers : Turn(e) => i \notin acked'
  BY TurnDoes, NoneIn DEF messages, queue, ghosts, Putting, Gone
<1>11. \A e \in Enqueuers : Insert(e) => i \notin acked'
  BY InsertDoes, NoneIn DEF messages, ghosts, Putting, Moved
<1>12. \A e \in Enqueuers : Push(e) => i \notin acked'
  BY PushDoes, NoneIn DEF messages, ghosts, Putting, Moved
<1>13. \A e \in Enqueuers : Note(e) => i \notin acked'
  BY NoteDoes, NoneIn DEF messages, queue, ghosts, Putting, Moved
<1>14. \A e \in Enqueuers : Mark(e) => i \notin acked'
  BY MarkDoes, NoneIn DEF messages, queue, Putting, Gone
<1>15. \A e \in Enqueuers : PushFails(e) => i \notin acked'
  BY PushFailsDoes, NoneIn DEF messages, queue, ghosts, Putting, Moved
<1>16. \A e \in Enqueuers : EnqueueFails(e) => i \notin acked'
  BY EnqueueFailsDoes, NoneIn DEF messages, queue, ghosts, Putting, Gone
<1>17. Restart => i \notin acked'
  BY RestartDoes, NoneIn DEF messages, queue, ghosts, Gone
<1>18. \A w \in Workers : ReadGroup(w) => i \notin acked'
  BY ReadGroupDoes, NoneIn, AtWork DEF messages, ghosts, Giving
<1>19. \A w \in Workers : Fetch(w) => i \notin acked'
  BY FetchDoes, NoneIn, AtWork DEF messages, ghosts, Giving, Going
<1>20. \A w \in Workers : Start(w) => i \notin acked'
  BY StartDoes, NoneIn, AtWork DEF messages, ghosts, Giving, Going
<1>21. \A w \in Workers : Search(w) => i \notin acked'
  BY SearchDoes, NoneIn, AtWork DEF messages, Giving, Going
<1>22. \A w \in Workers : Archive(w) => i \notin acked'
  BY ArchiveDoes, NoneIn, AtWork DEF Giving, Going
<1>23. \A w \in Workers : Persist(w) => i \notin acked'
  BY PersistDoes, NoneIn, AtWork DEF messages, Giving, Going
<1>24. \A w \in Workers : Complete(w) => i \notin acked'
  BY CompleteDoes, NoneIn, AtWork DEF messages, ghosts, Giving, Going
<1>25. ASSUME NEW w \in Workers, Ack(w)
      PROVE  i \notin acked'
  <2> HIDE DEF Pointers, Pushing, Used, Holds
  <2>1. /\ \A x \in Workers, t \in Tasks : Holds(x, t)' => Holds(x, t)
        /\ Holds(w, Current(w)) /\ \A t : t = Current(w) => ~ Holds(w, t)'
        /\ Current(w) \in Used /\ Current(w) \in Tasks
        /\ acked' = acked \cup {Current(w)}
    BY <1>25, AckPointers
  <2>2. stream' = stream /\ task' = task /\ enq' = enq
    BY <1>25, AckDoes
  <2> QED
    BY <2>1, <2>2 DEF Pointers
<1>26. \A w \in Workers : Raises(w) => i \notin acked'
  BY RaisesDoes, NoneIn, AtWork DEF messages, Giving, Going
<1>27. \A w \in Workers : GivesUp(w) => i \notin acked'
  BY GivesUpDoes, NoneIn, AtWork DEF messages, Giving, Free
<1> QED
  BY <1>1, <1>2, <1>3, <1>4, <1>5, <1>6, <1>7, <1>8, <1>9, <1>10, <1>11, <1>12, <1>13,
     <1>14, <1>15, <1>16, <1>17, <1>18, <1>19, <1>20, <1>21, <1>22, <1>23, <1>24, <1>25,
     <1>26, <1>27 DEF Next, Enqueue, Work, Faults, Raises, GivesUp

\* nor with a worker.
LEMMA InStreamStep ==
  ASSUME IInv, [Next]_vars, NEW i \in Tasks, In(stream', i), NEW v \in Workers
  PROVE  ~ Holds(v, i)'
<1> USE DEF IInv, Pointers, Pushing, Used, Holds
<1>1. CASE UNCHANGED vars
  BY <1>1, NoneIn DEF vars
<1>2. \A m \in Msgs, s \in Sessions : Send(m, s) => ~ Holds(v, i)'
  BY SendDoes, NoneIn DEF queue, ghosts
<1>3. \A m \in Msgs : Store(m) => ~ Holds(v, i)'
  BY StoreDoes, NoneIn DEF queue, ghosts
<1>4. \A m \in Msgs : Register(m) => ~ Holds(v, i)'
  BY RegisterDoes, NoneIn DEF queue
<1>5. \A m \in Msgs : RegisterFails(m) => ~ Holds(v, i)'
  BY RegisterFailsDoes, NoneIn DEF queue
<1>6. \A s \in Sessions : Age(s) => ~ Holds(v, i)'
  BY AgeDoes, NoneIn DEF messages, queue, ghosts
<1>7. \A s \in Sessions : Fire(s) => ~ Holds(v, i)'
  BY FireDoes, NoneIn DEF messages, queue, ghosts, Putting
<1>8. \A s \in Sessions : Check(s) => ~ Holds(v, i)'
  BY CheckDoes, NoneIn DEF messages, queue, Putting, Gone, Due
<1>9. \A k \in Sweeps : List(k) => ~ Holds(v, i)'
  BY ListDoes, NoneIn DEF messages, queue, Putting, Due
<1>10. \A e \in Enqueuers : Turn(e) => ~ Holds(v, i)'
  BY TurnDoes, NoneIn DEF messages, queue, ghosts, Putting, Gone
<1>11. \A e \in Enqueuers : Insert(e) => ~ Holds(v, i)'
  BY InsertDoes, NoneIn DEF messages, ghosts, Putting, Moved
<1>12. \A e \in Enqueuers : Push(e) => ~ Holds(v, i)'
  BY PushDoes, NoneIn DEF messages, ghosts, Putting, Moved
<1>13. \A e \in Enqueuers : Note(e) => ~ Holds(v, i)'
  BY NoteDoes, NoneIn DEF messages, queue, ghosts, Putting, Moved
<1>14. \A e \in Enqueuers : Mark(e) => ~ Holds(v, i)'
  BY MarkDoes, NoneIn DEF messages, queue, Putting, Gone
<1>15. \A e \in Enqueuers : PushFails(e) => ~ Holds(v, i)'
  BY PushFailsDoes, NoneIn DEF messages, queue, ghosts, Putting, Moved
<1>16. \A e \in Enqueuers : EnqueueFails(e) => ~ Holds(v, i)'
  BY EnqueueFailsDoes, NoneIn DEF messages, queue, ghosts, Putting, Gone
<1>17. Restart => ~ Holds(v, i)'
  BY RestartDoes, NoneIn DEF messages, queue, ghosts, Gone
<1>18. \A w \in Workers : ReadGroup(w) => ~ Holds(v, i)'
  BY ReadGroupDoes, NoneIn, AtWork DEF messages, ghosts, Giving
<1>19. \A w \in Workers : Fetch(w) => ~ Holds(v, i)'
  BY FetchDoes, NoneIn, AtWork DEF messages, ghosts, Giving, Going
<1>20. \A w \in Workers : Start(w) => ~ Holds(v, i)'
  BY StartDoes, NoneIn, AtWork DEF messages, ghosts, Giving, Going
<1>21. \A w \in Workers : Search(w) => ~ Holds(v, i)'
  BY SearchDoes, NoneIn, AtWork DEF messages, Giving, Going
<1>22. \A w \in Workers : Archive(w) => ~ Holds(v, i)'
  BY ArchiveDoes, NoneIn, AtWork DEF Giving, Going
<1>23. \A w \in Workers : Persist(w) => ~ Holds(v, i)'
  BY PersistDoes, NoneIn, AtWork DEF messages, Giving, Going
<1>24. \A w \in Workers : Complete(w) => ~ Holds(v, i)'
  BY CompleteDoes, NoneIn, AtWork DEF messages, ghosts, Giving, Going
<1>25. ASSUME NEW w \in Workers, Ack(w)
      PROVE  ~ Holds(v, i)'
  <2> HIDE DEF Pointers, Pushing, Used, Holds
  <2>1. /\ \A x \in Workers, t \in Tasks : Holds(x, t)' => Holds(x, t)
        /\ Holds(w, Current(w)) /\ \A t : t = Current(w) => ~ Holds(w, t)'
        /\ Current(w) \in Used /\ Current(w) \in Tasks
        /\ acked' = acked \cup {Current(w)}
    BY <1>25, AckPointers
  <2>2. stream' = stream /\ task' = task /\ enq' = enq
    BY <1>25, AckDoes
  <2> QED
    BY <2>1, <2>2 DEF Pointers
<1>26. \A w \in Workers : Raises(w) => ~ Holds(v, i)'
  BY RaisesDoes, NoneIn, AtWork DEF messages, Giving, Going
<1>27. \A w \in Workers : GivesUp(w) => ~ Holds(v, i)'
  BY GivesUpDoes, NoneIn, AtWork DEF messages, Giving, Free
<1> QED
  BY <1>1, <1>2, <1>3, <1>4, <1>5, <1>6, <1>7, <1>8, <1>9, <1>10, <1>11, <1>12, <1>13,
     <1>14, <1>15, <1>16, <1>17, <1>18, <1>19, <1>20, <1>21, <1>22, <1>23, <1>24, <1>25,
     <1>26, <1>27 DEF Next, Enqueue, Work, Faults, Raises, GivesUp

\* Nor what a worker holds.
LEMMA HeldStep ==
  ASSUME IInv, [Next]_vars, NEW i \in Tasks, NEW v \in Workers, NEW u \in Workers,
         Holds(v, i)'
  PROVE  i \notin acked' /\ (u # v => ~ Holds(u, i)')
<1> DEFINE Goal == i \notin acked' /\ (u # v => ~ Holds(u, i)')
<1> USE DEF IInv, Pointers, Pushing, Used, Holds
<1>1. CASE UNCHANGED vars
  BY <1>1, NoneIn DEF vars
<1>2. \A m \in Msgs, s \in Sessions : Send(m, s) => Goal
  BY SendDoes, NoneIn DEF queue, ghosts
<1>3. \A m \in Msgs : Store(m) => Goal
  BY StoreDoes, NoneIn DEF queue, ghosts
<1>4. \A m \in Msgs : Register(m) => Goal
  BY RegisterDoes, NoneIn DEF queue
<1>5. \A m \in Msgs : RegisterFails(m) => Goal
  BY RegisterFailsDoes, NoneIn DEF queue
<1>6. \A s \in Sessions : Age(s) => Goal
  BY AgeDoes, NoneIn DEF messages, queue, ghosts
<1>7. \A s \in Sessions : Fire(s) => Goal
  BY FireDoes, NoneIn DEF messages, queue, ghosts, Putting
<1>8. \A s \in Sessions : Check(s) => Goal
  BY CheckDoes, NoneIn DEF messages, queue, Putting, Gone, Due
<1>9. \A k \in Sweeps : List(k) => Goal
  BY ListDoes, NoneIn DEF messages, queue, Putting, Due
<1>10. \A e \in Enqueuers : Turn(e) => Goal
  BY TurnDoes, NoneIn DEF messages, queue, ghosts, Putting, Gone
<1>11. \A e \in Enqueuers : Insert(e) => Goal
  BY InsertDoes, NoneIn DEF messages, ghosts, Putting, Moved
<1>12. \A e \in Enqueuers : Push(e) => Goal
  BY PushDoes, NoneIn DEF messages, ghosts, Putting, Moved
<1>13. \A e \in Enqueuers : Note(e) => Goal
  BY NoteDoes, NoneIn DEF messages, queue, ghosts, Putting, Moved
<1>14. \A e \in Enqueuers : Mark(e) => Goal
  BY MarkDoes, NoneIn DEF messages, queue, Putting, Gone
<1>15. \A e \in Enqueuers : PushFails(e) => Goal
  BY PushFailsDoes, NoneIn DEF messages, queue, ghosts, Putting, Moved
<1>16. \A e \in Enqueuers : EnqueueFails(e) => Goal
  BY EnqueueFailsDoes, NoneIn DEF messages, queue, ghosts, Putting, Gone
<1>17. Restart => Goal
  BY RestartDoes, NoneIn DEF messages, queue, ghosts, Gone
<1>18. \A w \in Workers : ReadGroup(w) => Goal
  BY ReadGroupDoes, NoneIn, AtWork DEF messages, ghosts, Giving
<1>19. \A w \in Workers : Fetch(w) => Goal
  BY FetchDoes, NoneIn, AtWork DEF messages, ghosts, Giving, Going
<1>20. \A w \in Workers : Start(w) => Goal
  BY StartDoes, NoneIn, AtWork DEF messages, ghosts, Giving, Going
<1>21. \A w \in Workers : Search(w) => Goal
  BY SearchDoes, NoneIn, AtWork DEF messages, Giving, Going
<1>22. \A w \in Workers : Archive(w) => Goal
  BY ArchiveDoes, NoneIn, AtWork DEF Giving, Going
<1>23. \A w \in Workers : Persist(w) => Goal
  BY PersistDoes, NoneIn, AtWork DEF messages, Giving, Going
<1>24. \A w \in Workers : Complete(w) => Goal
  BY CompleteDoes, NoneIn, AtWork DEF messages, ghosts, Giving, Going
<1>25. ASSUME NEW w \in Workers, Ack(w)
      PROVE  Goal
  <2> HIDE DEF Pointers, Pushing, Used, Holds
  <2>1. /\ \A x \in Workers, t \in Tasks : Holds(x, t)' => Holds(x, t)
        /\ Holds(w, Current(w)) /\ \A t : t = Current(w) => ~ Holds(w, t)'
        /\ Current(w) \in Used /\ Current(w) \in Tasks
        /\ acked' = acked \cup {Current(w)}
    BY <1>25, AckPointers
  <2>2. stream' = stream /\ task' = task /\ enq' = enq
    BY <1>25, AckDoes
  <2>3. Holds(v, i) /\ (Holds(u, i)' => Holds(u, i))
    BY <2>1
  <2>4. i # Current(w)
    BY <2>1, <2>3 DEF Pointers
  <2> QED
    BY <2>1, <2>3, <2>4 DEF Pointers
<1>26. \A w \in Workers : Raises(w) => Goal
  BY RaisesDoes, NoneIn, AtWork DEF messages, Giving, Going
<1>27. \A w \in Workers : GivesUp(w) => Goal
  BY GivesUpDoes, NoneIn, AtWork DEF messages, Giving, Free
<1> QED
  BY <1>1, <1>2, <1>3, <1>4, <1>5, <1>6, <1>7, <1>8, <1>9, <1>10, <1>11, <1>12, <1>13,
     <1>14, <1>15, <1>16, <1>17, <1>18, <1>19, <1>20, <1>21, <1>22, <1>23, <1>24, <1>25,
     <1>26, <1>27 DEF Next, Enqueue, Work, Faults, Raises, GivesUp

\* What is to be pushed is neither in the stream nor acknowledged,
LEMMA UnpushedStep ==
  ASSUME IInv, [Next]_vars, NEW i \in Tasks, NEW f \in Enqueuers, Pushing(f, i)'
  PROVE  ~ In(stream', i) /\ i \notin acked'
<1> DEFINE Goal == ~ In(stream', i) /\ i \notin acked'
<1> USE DEF IInv, Pointers, Pushing, Used, Holds, Shape, EnqOf
<1>1. CASE UNCHANGED vars
  BY <1>1, NoneIn DEF vars
<1>2. \A m \in Msgs, s \in Sessions : Send(m, s) => Goal
  BY SendDoes, NoneIn DEF queue, ghosts
<1>3. \A m \in Msgs : Store(m) => Goal
  BY StoreDoes, NoneIn DEF queue, ghosts
<1>4. \A m \in Msgs : Register(m) => Goal
  BY RegisterDoes, NoneIn DEF queue
<1>5. \A m \in Msgs : RegisterFails(m) => Goal
  BY RegisterFailsDoes, NoneIn DEF queue
<1>6. \A s \in Sessions : Age(s) => Goal
  BY AgeDoes, NoneIn DEF messages, queue, ghosts
<1>7. \A s \in Sessions : Fire(s) => Goal
  BY FireDoes, NoneIn DEF messages, queue, ghosts, Putting
<1>8. \A s \in Sessions : Check(s) => Goal
  BY CheckDoes, NoneIn DEF messages, queue, Putting, Gone, Due
<1>9. \A k \in Sweeps : List(k) => Goal
  BY ListDoes, NoneIn DEF messages, queue, Putting, Due
<1>10. \A e \in Enqueuers : Turn(e) => Goal
  BY TurnDoes, NoneIn DEF messages, queue, ghosts, Putting, Gone
<1>11. ASSUME NEW e \in Enqueuers, Insert(e)
      PROVE  Goal
  <2> HIDE DEF Pointers, Pushing, Used, Holds, Shape, EnqOf
  <2>1. /\ Putting(e) /\ enq[e].pc = "insert" /\ enq'[e].pc = "push"
        /\ enq'[e].task \in Tasks /\ enq'[e].task \notin Used
        /\ task'[enq'[e].task].status = "QUEUED"
        /\ stream' = stream /\ acked' = acked /\ worker' = worker
        /\ \A u \in Tasks \ {enq'[e].task} : task'[u] = task[u]
    BY <1>11, InsertDoes
  <2>2. CASE f = e
    <3>1. i = enq'[e].task
      BY <2>2 DEF Pushing
    <3>2. task[i].status = "none"
      BY <2>1, <3>1 DEF Used
    <3> QED
      BY <2>1, <3>2 DEF Pointers, Holds
  <2>3. CASE f # e
    <3>1. Pushing(f, i)
      BY <2>1, <2>3 DEF Pushing, Putting
    <3> QED
      BY <2>1, <3>1 DEF Pointers, Holds
  <2> QED
    BY <2>2, <2>3
<1>12. \A e \in Enqueuers : Push(e) => Goal
  BY PushDoes, NoneIn DEF messages, ghosts, Putting, Moved
<1>13. \A e \in Enqueuers : Note(e) => Goal
  BY NoteDoes, NoneIn DEF messages, queue, ghosts, Putting, Moved
<1>14. \A e \in Enqueuers : Mark(e) => Goal
  BY MarkDoes, NoneIn DEF messages, queue, Putting, Gone
<1>15. \A e \in Enqueuers : PushFails(e) => Goal
  BY PushFailsDoes, NoneIn DEF messages, queue, ghosts, Putting, Moved
<1>16. \A e \in Enqueuers : EnqueueFails(e) => Goal
  BY EnqueueFailsDoes, NoneIn DEF messages, queue, ghosts, Putting, Gone
<1>17. Restart => Goal
  BY RestartDoes, NoneIn DEF messages, queue, ghosts, Gone
<1>18. \A w \in Workers : ReadGroup(w) => Goal
  BY ReadGroupDoes, NoneIn, AtWork DEF messages, ghosts, Giving
<1>19. \A w \in Workers : Fetch(w) => Goal
  BY FetchDoes, NoneIn, AtWork DEF messages, ghosts, Giving, Going
<1>20. \A w \in Workers : Start(w) => Goal
  BY StartDoes, NoneIn, AtWork DEF messages, ghosts, Giving, Going
<1>21. \A w \in Workers : Search(w) => Goal
  BY SearchDoes, NoneIn, AtWork DEF messages, Giving, Going
<1>22. \A w \in Workers : Archive(w) => Goal
  BY ArchiveDoes, NoneIn, AtWork DEF Giving, Going
<1>23. \A w \in Workers : Persist(w) => Goal
  BY PersistDoes, NoneIn, AtWork DEF messages, Giving, Going
<1>24. \A w \in Workers : Complete(w) => Goal
  BY CompleteDoes, NoneIn, AtWork DEF messages, ghosts, Giving, Going
<1>25. ASSUME NEW w \in Workers, Ack(w)
      PROVE  Goal
  <2> HIDE DEF Pointers, Pushing, Used, Holds, Shape, EnqOf
  <2>1. /\ \A x \in Workers, t \in Tasks : Holds(x, t)' => Holds(x, t)
        /\ Holds(w, Current(w)) /\ \A t : t = Current(w) => ~ Holds(w, t)'
        /\ Current(w) \in Used /\ Current(w) \in Tasks
        /\ acked' = acked \cup {Current(w)}
    BY <1>25, AckPointers
  <2>2. stream' = stream /\ task' = task /\ enq' = enq
    BY <1>25, AckDoes
  <2>3. Pushing(f, i)
    BY <2>2 DEF Pushing
  <2> QED
    BY <2>1, <2>2, <2>3 DEF Pointers
<1>26. \A w \in Workers : Raises(w) => Goal
  BY RaisesDoes, NoneIn, AtWork DEF messages, Giving, Going
<1>27. \A w \in Workers : GivesUp(w) => Goal
  BY GivesUpDoes, NoneIn, AtWork DEF messages, Giving, Free
<1> QED
  BY <1>1, <1>2, <1>3, <1>4, <1>5, <1>6, <1>7, <1>8, <1>9, <1>10, <1>11, <1>12, <1>13,
     <1>14, <1>15, <1>16, <1>17, <1>18, <1>19, <1>20, <1>21, <1>22, <1>23, <1>24, <1>25,
     <1>26, <1>27 DEF Next, Enqueue, Work, Faults, Raises, GivesUp

\* nor with a worker.
LEMMA PushingStep ==
  ASSUME IInv, [Next]_vars, NEW i \in Tasks, NEW f \in Enqueuers, Pushing(f, i)', NEW v
         \in Workers
  PROVE  ~ Holds(v, i)'
<1> USE DEF IInv, Pointers, Pushing, Used, Holds, Shape, EnqOf
<1>1. CASE UNCHANGED vars
  BY <1>1, NoneIn DEF vars
<1>2. \A m \in Msgs, s \in Sessions : Send(m, s) => ~ Holds(v, i)'
  BY SendDoes, NoneIn DEF queue, ghosts
<1>3. \A m \in Msgs : Store(m) => ~ Holds(v, i)'
  BY StoreDoes, NoneIn DEF queue, ghosts
<1>4. \A m \in Msgs : Register(m) => ~ Holds(v, i)'
  BY RegisterDoes, NoneIn DEF queue
<1>5. \A m \in Msgs : RegisterFails(m) => ~ Holds(v, i)'
  BY RegisterFailsDoes, NoneIn DEF queue
<1>6. \A s \in Sessions : Age(s) => ~ Holds(v, i)'
  BY AgeDoes, NoneIn DEF messages, queue, ghosts
<1>7. \A s \in Sessions : Fire(s) => ~ Holds(v, i)'
  BY FireDoes, NoneIn DEF messages, queue, ghosts, Putting
<1>8. \A s \in Sessions : Check(s) => ~ Holds(v, i)'
  BY CheckDoes, NoneIn DEF messages, queue, Putting, Gone, Due
<1>9. \A k \in Sweeps : List(k) => ~ Holds(v, i)'
  BY ListDoes, NoneIn DEF messages, queue, Putting, Due
<1>10. \A e \in Enqueuers : Turn(e) => ~ Holds(v, i)'
  BY TurnDoes, NoneIn DEF messages, queue, ghosts, Putting, Gone
<1>11. ASSUME NEW e \in Enqueuers, Insert(e)
      PROVE  ~ Holds(v, i)'
  <2> HIDE DEF Pointers, Pushing, Used, Holds, Shape, EnqOf
  <2>1. /\ Putting(e) /\ enq[e].pc = "insert" /\ enq'[e].pc = "push"
        /\ enq'[e].task \in Tasks /\ enq'[e].task \notin Used
        /\ task'[enq'[e].task].status = "QUEUED"
        /\ stream' = stream /\ acked' = acked /\ worker' = worker
        /\ \A u \in Tasks \ {enq'[e].task} : task'[u] = task[u]
    BY <1>11, InsertDoes
  <2>2. CASE f = e
    <3>1. i = enq'[e].task
      BY <2>2 DEF Pushing
    <3>2. task[i].status = "none"
      BY <2>1, <3>1 DEF Used
    <3> QED
      BY <2>1, <3>2 DEF Pointers, Holds
  <2>3. CASE f # e
    <3>1. Pushing(f, i)
      BY <2>1, <2>3 DEF Pushing, Putting
    <3> QED
      BY <2>1, <3>1 DEF Pointers, Holds
  <2> QED
    BY <2>2, <2>3
<1>12. \A e \in Enqueuers : Push(e) => ~ Holds(v, i)'
  BY PushDoes, NoneIn DEF messages, ghosts, Putting, Moved
<1>13. \A e \in Enqueuers : Note(e) => ~ Holds(v, i)'
  BY NoteDoes, NoneIn DEF messages, queue, ghosts, Putting, Moved
<1>14. \A e \in Enqueuers : Mark(e) => ~ Holds(v, i)'
  BY MarkDoes, NoneIn DEF messages, queue, Putting, Gone
<1>15. \A e \in Enqueuers : PushFails(e) => ~ Holds(v, i)'
  BY PushFailsDoes, NoneIn DEF messages, queue, ghosts, Putting, Moved
<1>16. \A e \in Enqueuers : EnqueueFails(e) => ~ Holds(v, i)'
  BY EnqueueFailsDoes, NoneIn DEF messages, queue, ghosts, Putting, Gone
<1>17. Restart => ~ Holds(v, i)'
  BY RestartDoes, NoneIn DEF messages, queue, ghosts, Gone
<1>18. \A w \in Workers : ReadGroup(w) => ~ Holds(v, i)'
  BY ReadGroupDoes, NoneIn, AtWork DEF messages, ghosts, Giving
<1>19. \A w \in Workers : Fetch(w) => ~ Holds(v, i)'
  BY FetchDoes, NoneIn, AtWork DEF messages, ghosts, Giving, Going
<1>20. \A w \in Workers : Start(w) => ~ Holds(v, i)'
  BY StartDoes, NoneIn, AtWork DEF messages, ghosts, Giving, Going
<1>21. \A w \in Workers : Search(w) => ~ Holds(v, i)'
  BY SearchDoes, NoneIn, AtWork DEF messages, Giving, Going
<1>22. \A w \in Workers : Archive(w) => ~ Holds(v, i)'
  BY ArchiveDoes, NoneIn, AtWork DEF Giving, Going
<1>23. \A w \in Workers : Persist(w) => ~ Holds(v, i)'
  BY PersistDoes, NoneIn, AtWork DEF messages, Giving, Going
<1>24. \A w \in Workers : Complete(w) => ~ Holds(v, i)'
  BY CompleteDoes, NoneIn, AtWork DEF messages, ghosts, Giving, Going
<1>25. ASSUME NEW w \in Workers, Ack(w)
      PROVE  ~ Holds(v, i)'
  <2> HIDE DEF Pointers, Pushing, Used, Holds, Shape, EnqOf
  <2>1. /\ \A x \in Workers, t \in Tasks : Holds(x, t)' => Holds(x, t)
        /\ Holds(w, Current(w)) /\ \A t : t = Current(w) => ~ Holds(w, t)'
        /\ Current(w) \in Used /\ Current(w) \in Tasks
        /\ acked' = acked \cup {Current(w)}
    BY <1>25, AckPointers
  <2>2. stream' = stream /\ task' = task /\ enq' = enq
    BY <1>25, AckDoes
  <2>3. Pushing(f, i)
    BY <2>2 DEF Pushing
  <2> QED
    BY <2>1, <2>2, <2>3 DEF Pointers
<1>26. \A w \in Workers : Raises(w) => ~ Holds(v, i)'
  BY RaisesDoes, NoneIn, AtWork DEF messages, Giving, Going
<1>27. \A w \in Workers : GivesUp(w) => ~ Holds(v, i)'
  BY GivesUpDoes, NoneIn, AtWork DEF messages, Giving, Free
<1> QED
  BY <1>1, <1>2, <1>3, <1>4, <1>5, <1>6, <1>7, <1>8, <1>9, <1>10, <1>11, <1>12, <1>13,
     <1>14, <1>15, <1>16, <1>17, <1>18, <1>19, <1>20, <1>21, <1>22, <1>23, <1>24, <1>25,
     <1>26, <1>27 DEF Next, Enqueue, Work, Faults, Raises, GivesUp

\* One enqueuer pushes it.
LEMMA PusherStep ==
  ASSUME IInv, [Next]_vars, NEW i \in Tasks, NEW f \in Enqueuers, NEW g \in Enqueuers,
         Pushing(f, i)', Pushing(g, i)'
  PROVE  f = g
<1> USE DEF IInv, Pointers, Pushing, Used, Holds, Shape, EnqOf
<1>1. CASE UNCHANGED vars
  BY <1>1 DEF vars
<1>2. \A m \in Msgs, s \in Sessions : Send(m, s) => f = g
  BY SendDoes DEF queue, ghosts
<1>3. \A m \in Msgs : Store(m) => f = g
  BY StoreDoes DEF queue, ghosts
<1>4. \A m \in Msgs : Register(m) => f = g
  BY RegisterDoes DEF queue
<1>5. \A m \in Msgs : RegisterFails(m) => f = g
  BY RegisterFailsDoes DEF queue
<1>6. \A s \in Sessions : Age(s) => f = g
  BY AgeDoes DEF messages, queue, ghosts
<1>7. \A s \in Sessions : Fire(s) => f = g
  BY FireDoes DEF messages, queue, ghosts, Putting
<1>8. \A s \in Sessions : Check(s) => f = g
  BY CheckDoes DEF messages, queue, Putting, Gone, Due
<1>9. \A k \in Sweeps : List(k) => f = g
  BY ListDoes DEF messages, queue, Putting, Due
<1>10. \A e \in Enqueuers : Turn(e) => f = g
  BY TurnDoes DEF messages, queue, ghosts, Putting, Gone
<1>11. ASSUME NEW e \in Enqueuers, Insert(e)
      PROVE  f = g
  <2> HIDE DEF Pointers, Pushing, Used, Holds, Shape, EnqOf
  <2>1. /\ Putting(e) /\ enq[e].pc = "insert" /\ enq'[e].pc = "push"
        /\ enq'[e].task \in Tasks /\ enq'[e].task \notin Used
        /\ task'[enq'[e].task].status = "QUEUED"
        /\ stream' = stream /\ acked' = acked /\ worker' = worker
        /\ \A u \in Tasks \ {enq'[e].task} : task'[u] = task[u]
    BY <1>11, InsertDoes
  <2>2. \A h \in Enqueuers \ {e} : Pushing(h, i)' => Pushing(h, i) /\ i \in Used
    BY <2>1 DEF Pushing, Putting, Shape, EnqOf, Used
  <2>3. Pushing(e, i)' => i \notin Used
    BY <2>1 DEF Pushing
  <2> QED
    BY <2>2, <2>3 DEF Pointers
<1>12. \A e \in Enqueuers : Push(e) => f = g
  BY PushDoes DEF messages, ghosts, Putting, Moved
<1>13. \A e \in Enqueuers : Note(e) => f = g
  BY NoteDoes DEF messages, queue, ghosts, Putting, Moved
<1>14. \A e \in Enqueuers : Mark(e) => f = g
  BY MarkDoes DEF messages, queue, Putting, Gone
<1>15. \A e \in Enqueuers : PushFails(e) => f = g
  BY PushFailsDoes DEF messages, queue, ghosts, Putting, Moved
<1>16. \A e \in Enqueuers : EnqueueFails(e) => f = g
  BY EnqueueFailsDoes DEF messages, queue, ghosts, Putting, Gone
<1>17. Restart => f = g
  BY RestartDoes DEF messages, queue, ghosts, Gone
<1>18. \A w \in Workers : ReadGroup(w) => f = g
  BY ReadGroupDoes DEF messages, ghosts, Giving
<1>19. \A w \in Workers : Fetch(w) => f = g
  BY FetchDoes DEF messages, ghosts, Giving, Going
<1>20. \A w \in Workers : Start(w) => f = g
  BY StartDoes DEF messages, ghosts, Giving, Going
<1>21. \A w \in Workers : Search(w) => f = g
  BY SearchDoes DEF messages, Giving, Going
<1>22. \A w \in Workers : Archive(w) => f = g
  BY ArchiveDoes DEF Giving, Going
<1>23. \A w \in Workers : Persist(w) => f = g
  BY PersistDoes DEF messages, Giving, Going
<1>24. \A w \in Workers : Complete(w) => f = g
  BY CompleteDoes DEF messages, ghosts, Giving, Going
<1>25. \A w \in Workers : Ack(w) => f = g
  BY AckDoes DEF messages, ghosts, Giving, Free
<1>26. \A w \in Workers : Raises(w) => f = g
  BY RaisesDoes DEF messages, Giving, Going
<1>27. \A w \in Workers : GivesUp(w) => f = g
  BY GivesUpDoes DEF messages, Giving, Free
<1> QED
  BY <1>1, <1>2, <1>3, <1>4, <1>5, <1>6, <1>7, <1>8, <1>9, <1>10, <1>11, <1>12, <1>13,
     <1>14, <1>15, <1>16, <1>17, <1>18, <1>19, <1>20, <1>21, <1>22, <1>23, <1>24, <1>25,
     <1>26, <1>27 DEF Next, Enqueue, Work, Faults, Raises, GivesUp

\* What is in the stream has version 1.
LEMMA StreamVersionStep ==
  ASSUME IInv, [Next]_vars, NEW i \in Tasks, In(stream', i)
  PROVE  task'[i].version = 1
<1> USE DEF IInv, Versions, Pointers, Used, Pushing
<1>1. CASE UNCHANGED vars
  BY <1>1 DEF vars
<1>2. \A m \in Msgs, s \in Sessions : Send(m, s) => task'[i].version = 1
  BY SendDoes DEF queue, ghosts
<1>3. \A m \in Msgs : Store(m) => task'[i].version = 1
  BY StoreDoes DEF queue, ghosts
<1>4. \A m \in Msgs : Register(m) => task'[i].version = 1
  BY RegisterDoes DEF queue
<1>5. \A m \in Msgs : RegisterFails(m) => task'[i].version = 1
  BY RegisterFailsDoes DEF queue
<1>6. \A s \in Sessions : Age(s) => task'[i].version = 1
  BY AgeDoes DEF messages, queue, ghosts
<1>7. \A s \in Sessions : Fire(s) => task'[i].version = 1
  BY FireDoes DEF messages, queue, ghosts, Putting
<1>8. \A s \in Sessions : Check(s) => task'[i].version = 1
  BY CheckDoes DEF messages, queue, Putting, Gone, Due
<1>9. \A k \in Sweeps : List(k) => task'[i].version = 1
  BY ListDoes DEF messages, queue, Putting, Due
<1>10. \A e \in Enqueuers : Turn(e) => task'[i].version = 1
  BY TurnDoes DEF messages, queue, ghosts, Putting, Gone
<1>11. ASSUME NEW e \in Enqueuers, Insert(e)
      PROVE  task'[i].version = 1
  <2> HIDE DEF Versions, Pointers, Used, Pushing
  <2>1. /\ Putting(e) /\ enq[e].pc = "insert" /\ enq'[e].pc = "push"
        /\ enq'[e].task \in Tasks /\ enq'[e].task \notin Used
        /\ task'[enq'[e].task].status = "QUEUED"
        /\ stream' = stream /\ acked' = acked /\ worker' = worker
        /\ \A u \in Tasks \ {enq'[e].task} : task'[u] = task[u]
    BY <1>11, InsertDoes
  <2>2. i # enq'[e].task
    BY <2>1 DEF Pointers, Used
  <2> QED
    BY <2>1, <2>2 DEF Versions
<1>12. \A e \in Enqueuers : Push(e) => task'[i].version = 1
  BY PushDoes DEF messages, ghosts, Putting, Moved
<1>13. \A e \in Enqueuers : Note(e) => task'[i].version = 1
  BY NoteDoes DEF messages, queue, ghosts, Putting, Moved
<1>14. \A e \in Enqueuers : Mark(e) => task'[i].version = 1
  BY MarkDoes DEF messages, queue, Putting, Gone
<1>15. \A e \in Enqueuers : PushFails(e) => task'[i].version = 1
  BY PushFailsDoes DEF messages, queue, ghosts, Putting, Moved
<1>16. \A e \in Enqueuers : EnqueueFails(e) => task'[i].version = 1
  BY EnqueueFailsDoes DEF messages, queue, ghosts, Putting, Gone
<1>17. Restart => task'[i].version = 1
  BY RestartDoes DEF messages, queue, ghosts, Gone
<1>18. \A w \in Workers : ReadGroup(w) => task'[i].version = 1
  BY ReadGroupDoes, AtWork DEF messages, ghosts, Giving
<1>19. \A w \in Workers : Fetch(w) => task'[i].version = 1
  BY FetchDoes, AtWork DEF messages, ghosts, Giving, Going
<1>20. ASSUME NEW w \in Workers, Start(w)
      PROVE  task'[i].version = 1
  <2> HIDE DEF Versions, Pointers, Used, Pushing
  <2>1. /\ worker[w].pc # "read" /\ Current(w) \in Tasks /\ Holds(w, Current(w))
        /\ ~ Before(w, Current(w)) /\ (\A t : Before(w, t) => Holds(w, t))
        /\ Giving(w) /\ \A u \in Tasks \ {Current(w)} : task'[u] = task[u]
    BY <1>20, StartDoes, AtWork
  <2>2. In(stream, i)
    BY <1>20, StartDoes
  <2>3. i # Current(w)
    BY <2>1, <2>2 DEF Pointers
  <2> QED
    BY <2>1, <2>2, <2>3 DEF Versions
<1>21. \A w \in Workers : Search(w) => task'[i].version = 1
  BY SearchDoes, AtWork DEF messages, Giving, Going
<1>22. \A w \in Workers : Archive(w) => task'[i].version = 1
  BY ArchiveDoes, AtWork DEF Giving, Going
<1>23. \A w \in Workers : Persist(w) => task'[i].version = 1
  BY PersistDoes, AtWork DEF messages, Giving, Going
<1>24. ASSUME NEW w \in Workers, Complete(w)
      PROVE  task'[i].version = 1
  <2> HIDE DEF Versions, Pointers, Used, Pushing
  <2>1. /\ worker[w].pc # "read" /\ Current(w) \in Tasks /\ Holds(w, Current(w))
        /\ ~ Before(w, Current(w)) /\ (\A t : Before(w, t) => Holds(w, t))
        /\ Giving(w) /\ \A u \in Tasks \ {Current(w)} : task'[u] = task[u]
    BY <1>24, CompleteDoes, AtWork
  <2>2. In(stream, i)
    BY <1>24, CompleteDoes
  <2>3. i # Current(w)
    BY <2>1, <2>2 DEF Pointers
  <2> QED
    BY <2>1, <2>2, <2>3 DEF Versions
<1>25. \A w \in Workers : Ack(w) => task'[i].version = 1
  BY AckDoes, AtWork DEF messages, ghosts, Giving, Free
<1>26. ASSUME NEW w \in Workers, Raises(w)
      PROVE  task'[i].version = 1
  <2> HIDE DEF Versions, Pointers, Used, Pushing
  <2>1. /\ worker[w].pc # "read" /\ Current(w) \in Tasks /\ Holds(w, Current(w))
        /\ ~ Before(w, Current(w)) /\ (\A t : Before(w, t) => Holds(w, t))
        /\ Giving(w) /\ \A u \in Tasks \ {Current(w)} : task'[u] = task[u]
    BY <1>26, RaisesDoes, AtWork
  <2>2. In(stream, i)
    BY <1>26, RaisesDoes
  <2>3. i # Current(w)
    BY <2>1, <2>2 DEF Pointers
  <2> QED
    BY <2>1, <2>2, <2>3 DEF Versions
<1>27. \A w \in Workers : GivesUp(w) => task'[i].version = 1
  BY GivesUpDoes, AtWork DEF messages, Giving, Free
<1> QED
  BY <1>1, <1>2, <1>3, <1>4, <1>5, <1>6, <1>7, <1>8, <1>9, <1>10, <1>11, <1>12, <1>13,
     <1>14, <1>15, <1>16, <1>17, <1>18, <1>19, <1>20, <1>21, <1>22, <1>23, <1>24, <1>25,
     <1>26, <1>27 DEF Next, Enqueue, Work, Faults, Raises, GivesUp

\* What is to be pushed has.
LEMMA PushingVersionStep ==
  ASSUME IInv, [Next]_vars, NEW i \in Tasks, NEW f \in Enqueuers, Pushing(f, i)'
  PROVE  task'[i].version = 1
<1> USE DEF IInv, Versions, Pointers, Pushing
<1>1. CASE UNCHANGED vars
  BY <1>1 DEF vars
<1>2. \A m \in Msgs, s \in Sessions : Send(m, s) => task'[i].version = 1
  BY SendDoes DEF queue, ghosts
<1>3. \A m \in Msgs : Store(m) => task'[i].version = 1
  BY StoreDoes DEF queue, ghosts
<1>4. \A m \in Msgs : Register(m) => task'[i].version = 1
  BY RegisterDoes DEF queue
<1>5. \A m \in Msgs : RegisterFails(m) => task'[i].version = 1
  BY RegisterFailsDoes DEF queue
<1>6. \A s \in Sessions : Age(s) => task'[i].version = 1
  BY AgeDoes DEF messages, queue, ghosts
<1>7. \A s \in Sessions : Fire(s) => task'[i].version = 1
  BY FireDoes DEF messages, queue, ghosts, Putting
<1>8. \A s \in Sessions : Check(s) => task'[i].version = 1
  BY CheckDoes DEF messages, queue, Putting, Gone, Due
<1>9. \A k \in Sweeps : List(k) => task'[i].version = 1
  BY ListDoes DEF messages, queue, Putting, Due
<1>10. \A e \in Enqueuers : Turn(e) => task'[i].version = 1
  BY TurnDoes DEF messages, queue, ghosts, Putting, Gone
<1>11. ASSUME NEW e \in Enqueuers, Insert(e)
      PROVE  task'[i].version = 1
  <2> HIDE DEF Versions, Pointers, Pushing
  <2>1. /\ Putting(e) /\ enq[e].pc = "insert" /\ enq'[e].pc = "push"
        /\ enq'[e].task \in Tasks /\ enq'[e].task \notin Used
        /\ task'[enq'[e].task].status = "QUEUED"
        /\ stream' = stream /\ acked' = acked /\ worker' = worker
        /\ \A u \in Tasks \ {enq'[e].task} : task'[u] = task[u]
    BY <1>11, InsertDoes
  <2>2. CASE f = e
    BY <1>11, <2>2, InsertDoes DEF Pushing
  <2>3. CASE f # e
    <3>1. Pushing(f, i) /\ i # enq'[e].task
      BY <2>1, <2>3 DEF Pushing, Putting, Shape, EnqOf, Used
    <3> QED
      BY <2>1, <3>1 DEF Versions
  <2> QED
    BY <2>2, <2>3
<1>12. \A e \in Enqueuers : Push(e) => task'[i].version = 1
  BY PushDoes DEF messages, ghosts, Putting, Moved
<1>13. \A e \in Enqueuers : Note(e) => task'[i].version = 1
  BY NoteDoes DEF messages, queue, ghosts, Putting, Moved
<1>14. \A e \in Enqueuers : Mark(e) => task'[i].version = 1
  BY MarkDoes DEF messages, queue, Putting, Gone
<1>15. \A e \in Enqueuers : PushFails(e) => task'[i].version = 1
  BY PushFailsDoes DEF messages, queue, ghosts, Putting, Moved
<1>16. \A e \in Enqueuers : EnqueueFails(e) => task'[i].version = 1
  BY EnqueueFailsDoes DEF messages, queue, ghosts, Putting, Gone
<1>17. Restart => task'[i].version = 1
  BY RestartDoes DEF messages, queue, ghosts, Gone
<1>18. \A w \in Workers : ReadGroup(w) => task'[i].version = 1
  BY ReadGroupDoes, AtWork DEF messages, ghosts, Giving
<1>19. \A w \in Workers : Fetch(w) => task'[i].version = 1
  BY FetchDoes, AtWork DEF messages, ghosts, Giving, Going
<1>20. ASSUME NEW w \in Workers, Start(w)
      PROVE  task'[i].version = 1
  <2> HIDE DEF Versions, Pointers, Pushing
  <2>1. /\ worker[w].pc # "read" /\ Current(w) \in Tasks /\ Holds(w, Current(w))
        /\ ~ Before(w, Current(w)) /\ (\A t : Before(w, t) => Holds(w, t))
        /\ Giving(w) /\ \A u \in Tasks \ {Current(w)} : task'[u] = task[u]
    BY <1>20, StartDoes, AtWork
  <2>2. Pushing(f, i)
    BY <1>20, StartDoes DEF Pushing
  <2>3. i # Current(w)
    BY <2>1, <2>2 DEF Pointers
  <2> QED
    BY <2>1, <2>2, <2>3 DEF Versions
<1>21. \A w \in Workers : Search(w) => task'[i].version = 1
  BY SearchDoes, AtWork DEF messages, Giving, Going
<1>22. \A w \in Workers : Archive(w) => task'[i].version = 1
  BY ArchiveDoes, AtWork DEF Giving, Going
<1>23. \A w \in Workers : Persist(w) => task'[i].version = 1
  BY PersistDoes, AtWork DEF messages, Giving, Going
<1>24. ASSUME NEW w \in Workers, Complete(w)
      PROVE  task'[i].version = 1
  <2> HIDE DEF Versions, Pointers, Pushing
  <2>1. /\ worker[w].pc # "read" /\ Current(w) \in Tasks /\ Holds(w, Current(w))
        /\ ~ Before(w, Current(w)) /\ (\A t : Before(w, t) => Holds(w, t))
        /\ Giving(w) /\ \A u \in Tasks \ {Current(w)} : task'[u] = task[u]
    BY <1>24, CompleteDoes, AtWork
  <2>2. Pushing(f, i)
    BY <1>24, CompleteDoes DEF Pushing
  <2>3. i # Current(w)
    BY <2>1, <2>2 DEF Pointers
  <2> QED
    BY <2>1, <2>2, <2>3 DEF Versions
<1>25. \A w \in Workers : Ack(w) => task'[i].version = 1
  BY AckDoes, AtWork DEF messages, ghosts, Giving, Free
<1>26. ASSUME NEW w \in Workers, Raises(w)
      PROVE  task'[i].version = 1
  <2> HIDE DEF Versions, Pointers, Pushing
  <2>1. /\ worker[w].pc # "read" /\ Current(w) \in Tasks /\ Holds(w, Current(w))
        /\ ~ Before(w, Current(w)) /\ (\A t : Before(w, t) => Holds(w, t))
        /\ Giving(w) /\ \A u \in Tasks \ {Current(w)} : task'[u] = task[u]
    BY <1>26, RaisesDoes, AtWork
  <2>2. Pushing(f, i)
    BY <1>26, RaisesDoes DEF Pushing
  <2>3. i # Current(w)
    BY <2>1, <2>2 DEF Pointers
  <2> QED
    BY <2>1, <2>2, <2>3 DEF Versions
<1>27. \A w \in Workers : GivesUp(w) => task'[i].version = 1
  BY GivesUpDoes, AtWork DEF messages, Giving, Free
<1> QED
  BY <1>1, <1>2, <1>3, <1>4, <1>5, <1>6, <1>7, <1>8, <1>9, <1>10, <1>11, <1>12, <1>13,
     <1>14, <1>15, <1>16, <1>17, <1>18, <1>19, <1>20, <1>21, <1>22, <1>23, <1>24, <1>25,
     <1>26, <1>27 DEF Next, Enqueue, Work, Faults, Raises, GivesUp

\* Workers find the version they expect.
LEMMA VersionStep ==
  ASSUME IInv, [Next]_vars, NEW v \in Workers
  PROVE  VersionOf(v)'
<1> USE DEF IInv, Versions, VersionOf, Current, Before, Pointers
<1>1. CASE UNCHANGED vars
  BY <1>1 DEF vars
<1>2. \A m \in Msgs, s \in Sessions : Send(m, s) => VersionOf(v)'
  BY SendDoes DEF queue, ghosts
<1>3. \A m \in Msgs : Store(m) => VersionOf(v)'
  BY StoreDoes DEF queue, ghosts
<1>4. \A m \in Msgs : Register(m) => VersionOf(v)'
  BY RegisterDoes DEF queue
<1>5. \A m \in Msgs : RegisterFails(m) => VersionOf(v)'
  BY RegisterFailsDoes DEF queue
<1>6. \A s \in Sessions : Age(s) => VersionOf(v)'
  BY AgeDoes DEF messages, queue, ghosts
<1>7. \A s \in Sessions : Fire(s) => VersionOf(v)'
  BY FireDoes DEF messages, queue, ghosts, Putting
<1>8. \A s \in Sessions : Check(s) => VersionOf(v)'
  BY CheckDoes DEF messages, queue, Putting, Gone, Due
<1>9. \A k \in Sweeps : List(k) => VersionOf(v)'
  BY ListDoes DEF messages, queue, Putting, Due
<1>10. \A e \in Enqueuers : Turn(e) => VersionOf(v)'
  BY TurnDoes DEF messages, queue, ghosts, Putting, Gone
<1>11. ASSUME NEW e \in Enqueuers, Insert(e)
      PROVE  VersionOf(v)'
  <2> HIDE DEF Versions, VersionOf, Current, Before, Pointers
  <2>1. /\ Putting(e) /\ enq[e].pc = "insert" /\ enq'[e].pc = "push"
        /\ enq'[e].task \in Tasks /\ enq'[e].task \notin Used
        /\ task'[enq'[e].task].status = "QUEUED"
        /\ stream' = stream /\ acked' = acked /\ worker' = worker
        /\ \A u \in Tasks \ {enq'[e].task} : task'[u] = task[u]
    BY <1>11, InsertDoes
  <2>2. VersionOf(v)
    BY DEF Versions
  <2>3. Current(v)' = Current(v) /\ \A t : Before(v, t)' <=> Before(v, t)
    BY <2>1 DEF Current, Before
  <2>4. \A t \in Tasks : Before(v, t) => t \in Used
    BY AtWork DEF Pointers, Used
  <2>5. worker[v].pc # "read" => Current(v) \in Used /\ Current(v) \in Tasks
    BY AtWork
  <2> QED
    BY <2>1, <2>2, <2>3, <2>4, <2>5 DEF VersionOf
<1>12. \A e \in Enqueuers : Push(e) => VersionOf(v)'
  BY PushDoes DEF messages, ghosts, Putting, Moved
<1>13. \A e \in Enqueuers : Note(e) => VersionOf(v)'
  BY NoteDoes DEF messages, queue, ghosts, Putting, Moved
<1>14. \A e \in Enqueuers : Mark(e) => VersionOf(v)'
  BY MarkDoes DEF messages, queue, Putting, Gone
<1>15. \A e \in Enqueuers : PushFails(e) => VersionOf(v)'
  BY PushFailsDoes DEF messages, queue, ghosts, Putting, Moved
<1>16. \A e \in Enqueuers : EnqueueFails(e) => VersionOf(v)'
  BY EnqueueFailsDoes DEF messages, queue, ghosts, Putting, Gone
<1>17. Restart => VersionOf(v)'
  BY RestartDoes DEF messages, queue, ghosts, Gone
<1>18. ASSUME NEW w \in Workers, ReadGroup(w)
      PROVE  VersionOf(v)'
  <2> HIDE DEF Versions, VersionOf, Current, Before, Pointers
  <2>1. CASE v # w
    <3>1. Giving(w) /\ VersionOf(v)
      BY <1>18, ReadGroupDoes DEF Versions
    <3>2. \A t \in Tasks : (Holds(w, t) /\ t = Current(w)) \/ task'[t] = task[t]
      BY <1>18, ReadGroupDoes
    <3> QED
      BY <2>1, <3>1, <3>2, OtherVersion
  <2>2. CASE v = w
    <3>1. VersionOf(w)
      BY DEF Versions
    <3>2. \A t \in Tasks : In(worker'[w].batch, t) => task'[t].version = 1
      BY <1>18, ReadGroupDoes DEF Versions
    <3>9. VersionOf(w)'
      BY <1>18, <3>2, ReadGroupDoes, FetchVersion DEF Giving
    <3> QED
      BY <2>2, <3>9
  <2> QED
    BY <2>1, <2>2
<1>19. ASSUME NEW w \in Workers, Fetch(w)
      PROVE  VersionOf(v)'
  <2> HIDE DEF Versions, VersionOf, Current, Before, Pointers
  <2>1. CASE v # w
    <3>1. Giving(w) /\ VersionOf(v)
      BY <1>19, FetchDoes DEF Versions
    <3>2. \A t \in Tasks : (Holds(w, t) /\ t = Current(w)) \/ task'[t] = task[t]
      BY <1>19, FetchDoes
    <3> QED
      BY <2>1, <3>1, <3>2, OtherVersion
  <2>2. CASE v = w
    <3>1. VersionOf(w)
      BY DEF Versions
    <3>2. Current(w)' = Current(w) /\ \A t : Before(w, t)' <=> Before(w, t)
      BY <1>19, FetchDoes, SameBatch DEF Going
    <3>3. \A t \in Tasks : Before(w, t) => t # Current(w)
      BY <1>19, FetchDoes, AtWork
    <3>4. \A t \in Tasks : Before(w, t) => task'[t] = task[t]
      BY <1>19, FetchDoes, <3>3
    <3>9. VersionOf(w)'
      BY <1>19, FetchDoes, <3>1, <3>2, <3>4 DEF VersionOf, Going
    <3> QED
      BY <2>2, <3>9
  <2> QED
    BY <2>1, <2>2
<1>20. ASSUME NEW w \in Workers, Start(w)
      PROVE  VersionOf(v)'
  <2> HIDE DEF Versions, VersionOf, Current, Before, Pointers
  <2>1. CASE v # w
    <3>1. Giving(w) /\ VersionOf(v)
      BY <1>20, StartDoes DEF Versions
    <3>2. \A t \in Tasks : (Holds(w, t) /\ t = Current(w)) \/ task'[t] = task[t]
      BY <1>20, StartDoes, AtWork
    <3> QED
      BY <2>1, <3>1, <3>2, OtherVersion
  <2>2. CASE v = w
    <3>1. VersionOf(w)
      BY DEF Versions
    <3>2. Current(w)' = Current(w) /\ \A t : Before(w, t)' <=> Before(w, t)
      BY <1>20, StartDoes, SameBatch DEF Going
    <3>3. \A t \in Tasks : Before(w, t) => t # Current(w)
      BY <1>20, StartDoes, AtWork
    <3>4. \A t \in Tasks : Before(w, t) => task'[t] = task[t]
      BY <1>20, StartDoes, <3>3
    <3>9. VersionOf(w)'
      BY <1>20, StartDoes, <3>1, <3>2, <3>4 DEF VersionOf, Going
    <3> QED
      BY <2>2, <3>9
  <2> QED
    BY <2>1, <2>2
<1>21. ASSUME NEW w \in Workers, Search(w)
      PROVE  VersionOf(v)'
  <2> HIDE DEF Versions, VersionOf, Current, Before, Pointers
  <2>1. CASE v # w
    <3>1. Giving(w) /\ VersionOf(v)
      BY <1>21, SearchDoes DEF Versions
    <3>2. \A t \in Tasks : (Holds(w, t) /\ t = Current(w)) \/ task'[t] = task[t]
      BY <1>21, SearchDoes
    <3> QED
      BY <2>1, <3>1, <3>2, OtherVersion
  <2>2. CASE v = w
    <3>1. VersionOf(w)
      BY DEF Versions
    <3>2. Current(w)' = Current(w) /\ \A t : Before(w, t)' <=> Before(w, t)
      BY <1>21, SearchDoes, SameBatch DEF Going
    <3>3. \A t \in Tasks : Before(w, t) => t # Current(w)
      BY <1>21, SearchDoes, AtWork
    <3>4. \A t \in Tasks : Before(w, t) => task'[t] = task[t]
      BY <1>21, SearchDoes, <3>3
    <3>9. VersionOf(w)'
      BY <1>21, SearchDoes, <3>1, <3>2, <3>4 DEF VersionOf, Going
    <3> QED
      BY <2>2, <3>9
  <2> QED
    BY <2>1, <2>2
<1>22. ASSUME NEW w \in Workers, Archive(w)
      PROVE  VersionOf(v)'
  <2> HIDE DEF Versions, VersionOf, Current, Before, Pointers
  <2>1. CASE v # w
    <3>1. Giving(w) /\ VersionOf(v)
      BY <1>22, ArchiveDoes DEF Versions
    <3>2. \A t \in Tasks : (Holds(w, t) /\ t = Current(w)) \/ task'[t] = task[t]
      BY <1>22, ArchiveDoes
    <3> QED
      BY <2>1, <3>1, <3>2, OtherVersion
  <2>2. CASE v = w
    <3>1. VersionOf(w)
      BY DEF Versions
    <3>2. Current(w)' = Current(w) /\ \A t : Before(w, t)' <=> Before(w, t)
      BY <1>22, ArchiveDoes, SameBatch DEF Going
    <3>3. \A t \in Tasks : Before(w, t) => t # Current(w)
      BY <1>22, ArchiveDoes, AtWork
    <3>4. \A t \in Tasks : Before(w, t) => task'[t] = task[t]
      BY <1>22, ArchiveDoes, <3>3
    <3>9. VersionOf(w)'
      BY <1>22, ArchiveDoes, <3>1, <3>2, <3>4 DEF VersionOf, Going
    <3> QED
      BY <2>2, <3>9
  <2> QED
    BY <2>1, <2>2
<1>23. ASSUME NEW w \in Workers, Persist(w)
      PROVE  VersionOf(v)'
  <2> HIDE DEF Versions, VersionOf, Current, Before, Pointers
  <2>1. CASE v # w
    <3>1. Giving(w) /\ VersionOf(v)
      BY <1>23, PersistDoes DEF Versions
    <3>2. \A t \in Tasks : (Holds(w, t) /\ t = Current(w)) \/ task'[t] = task[t]
      BY <1>23, PersistDoes
    <3> QED
      BY <2>1, <3>1, <3>2, OtherVersion
  <2>2. CASE v = w
    <3>1. VersionOf(w)
      BY DEF Versions
    <3>2. Current(w)' = Current(w) /\ \A t : Before(w, t)' <=> Before(w, t)
      BY <1>23, PersistDoes, SameBatch DEF Going
    <3>3. \A t \in Tasks : Before(w, t) => t # Current(w)
      BY <1>23, PersistDoes, AtWork
    <3>4. \A t \in Tasks : Before(w, t) => task'[t] = task[t]
      BY <1>23, PersistDoes, <3>3
    <3>9. VersionOf(w)'
      BY <1>23, PersistDoes, <3>1, <3>2, <3>4 DEF VersionOf, Going
    <3> QED
      BY <2>2, <3>9
  <2> QED
    BY <2>1, <2>2
<1>24. ASSUME NEW w \in Workers, Complete(w)
      PROVE  VersionOf(v)'
  <2> HIDE DEF Versions, VersionOf, Current, Before, Pointers
  <2>1. CASE v # w
    <3>1. Giving(w) /\ VersionOf(v)
      BY <1>24, CompleteDoes DEF Versions
    <3>2. \A t \in Tasks : (Holds(w, t) /\ t = Current(w)) \/ task'[t] = task[t]
      BY <1>24, CompleteDoes, AtWork
    <3> QED
      BY <2>1, <3>1, <3>2, OtherVersion
  <2>2. CASE v = w
    <3>1. VersionOf(w)
      BY DEF Versions
    <3>2. Current(w)' = Current(w) /\ \A t : Before(w, t)' <=> Before(w, t)
      BY <1>24, CompleteDoes, SameBatch DEF Going
    <3>3. \A t \in Tasks : Before(w, t) => t # Current(w)
      BY <1>24, CompleteDoes, AtWork
    <3>4. \A t \in Tasks : Before(w, t) => task'[t] = task[t]
      BY <1>24, CompleteDoes, <3>3
    <3>9. VersionOf(w)'
      BY <1>24, CompleteDoes, <3>1, <3>2, <3>4 DEF VersionOf, Going
    <3> QED
      BY <2>2, <3>9
  <2> QED
    BY <2>1, <2>2
<1>25. ASSUME NEW w \in Workers, Ack(w)
      PROVE  VersionOf(v)'
  <2> HIDE DEF Versions, VersionOf, Current, Before, Pointers
  <2>1. CASE v # w
    <3>1. Giving(w) /\ VersionOf(v)
      BY <1>25, AckDoes DEF Versions
    <3>2. \A t \in Tasks : (Holds(w, t) /\ t = Current(w)) \/ task'[t] = task[t]
      BY <1>25, AckDoes
    <3> QED
      BY <2>1, <3>1, <3>2, OtherVersion
  <2>2. CASE v = w
    <3>1. VersionOf(w)
      BY DEF Versions
    <3>2. \A t \in Tasks : In(worker'[w].batch, t) => task'[t].version = 1
      BY <1>25, AckDoes, <3>1 DEF VersionOf
    <3>9. VersionOf(w)'
      BY <1>25, <3>2, AckDoes, FetchVersion, FreeVersion DEF Giving
    <3> QED
      BY <2>2, <3>9
  <2> QED
    BY <2>1, <2>2
<1>26. ASSUME NEW w \in Workers, Raises(w)
      PROVE  VersionOf(v)'
  <2> HIDE DEF Versions, VersionOf, Current, Before, Pointers
  <2>1. CASE v # w
    <3>1. Giving(w) /\ VersionOf(v)
      BY <1>26, RaisesDoes DEF Versions
    <3>2. \A t \in Tasks : (Holds(w, t) /\ t = Current(w)) \/ task'[t] = task[t]
      BY <1>26, RaisesDoes, AtWork
    <3> QED
      BY <2>1, <3>1, <3>2, OtherVersion
  <2>2. CASE v = w
    <3>1. VersionOf(w)
      BY DEF Versions
    <3>2. Current(w)' = Current(w) /\ \A t : Before(w, t)' <=> Before(w, t)
      BY <1>26, RaisesDoes, SameBatch DEF Going
    <3>3. \A t \in Tasks : Before(w, t) => t # Current(w)
      BY <1>26, RaisesDoes, AtWork
    <3>4. \A t \in Tasks : Before(w, t) => task'[t] = task[t]
      BY <1>26, RaisesDoes, <3>3
    <3>9. VersionOf(w)'
      BY <1>26, RaisesDoes, <3>1, <3>2, <3>4 DEF VersionOf, Going
    <3> QED
      BY <2>2, <3>9
  <2> QED
    BY <2>1, <2>2
<1>27. ASSUME NEW w \in Workers, GivesUp(w)
      PROVE  VersionOf(v)'
  <2> HIDE DEF Versions, VersionOf, Current, Before, Pointers
  <2>1. CASE v # w
    <3>1. Giving(w) /\ VersionOf(v)
      BY <1>27, GivesUpDoes DEF Versions
    <3>2. \A t \in Tasks : (Holds(w, t) /\ t = Current(w)) \/ task'[t] = task[t]
      BY <1>27, GivesUpDoes
    <3> QED
      BY <2>1, <3>1, <3>2, OtherVersion
  <2>2. CASE v = w
    <3>1. VersionOf(w)
      BY DEF Versions
    <3>9. VersionOf(w)'
      BY <1>27, GivesUpDoes, FreeVersion
    <3> QED
      BY <2>2, <3>9
  <2> QED
    BY <2>1, <2>2
<1> QED
  BY <1>1, <1>2, <1>3, <1>4, <1>5, <1>6, <1>7, <1>8, <1>9, <1>10, <1>11, <1>12, <1>13,
     <1>14, <1>15, <1>16, <1>17, <1>18, <1>19, <1>20, <1>21, <1>22, <1>23, <1>24, <1>25,
     <1>26, <1>27 DEF Next, Enqueue, Work, Faults, Raises, GivesUp

\* What is acknowledged is settled.
LEMMA AckedStep ==
  ASSUME IInv, [Next]_vars, NEW i \in Tasks, i \in acked'
  PROVE  task'[i].status \in {"COMPLETED", "FAILED"}
<1> DEFINE Goal == task'[i].status \in {"COMPLETED", "FAILED"}
<1> USE DEF IInv, AckedIsSettled, Pointers, Used
<1>1. CASE UNCHANGED vars
  BY <1>1 DEF vars
<1>2. \A m \in Msgs, s \in Sessions : Send(m, s) => Goal
  BY SendDoes DEF queue, ghosts
<1>3. \A m \in Msgs : Store(m) => Goal
  BY StoreDoes DEF queue, ghosts
<1>4. \A m \in Msgs : Register(m) => Goal
  BY RegisterDoes DEF queue
<1>5. \A m \in Msgs : RegisterFails(m) => Goal
  BY RegisterFailsDoes DEF queue
<1>6. \A s \in Sessions : Age(s) => Goal
  BY AgeDoes DEF messages, queue, ghosts
<1>7. \A s \in Sessions : Fire(s) => Goal
  BY FireDoes DEF messages, queue, ghosts, Putting
<1>8. \A s \in Sessions : Check(s) => Goal
  BY CheckDoes DEF messages, queue, Putting, Gone, Due
<1>9. \A k \in Sweeps : List(k) => Goal
  BY ListDoes DEF messages, queue, Putting, Due
<1>10. \A e \in Enqueuers : Turn(e) => Goal
  BY TurnDoes DEF messages, queue, ghosts, Putting, Gone
<1>11. ASSUME NEW e \in Enqueuers, Insert(e)
      PROVE  Goal
  <2> HIDE DEF AckedIsSettled, Pointers, Used
  <2>1. /\ Putting(e) /\ enq[e].pc = "insert" /\ enq'[e].pc = "push"
        /\ enq'[e].task \in Tasks /\ enq'[e].task \notin Used
        /\ task'[enq'[e].task].status = "QUEUED"
        /\ stream' = stream /\ acked' = acked /\ worker' = worker
        /\ \A u \in Tasks \ {enq'[e].task} : task'[u] = task[u]
    BY <1>11, InsertDoes
  <2>2. i # enq'[e].task
    BY <2>1 DEF Pointers, Used
  <2> QED
    BY <2>1, <2>2 DEF AckedIsSettled
<1>12. \A e \in Enqueuers : Push(e) => Goal
  BY PushDoes DEF messages, ghosts, Putting, Moved
<1>13. \A e \in Enqueuers : Note(e) => Goal
  BY NoteDoes DEF messages, queue, ghosts, Putting, Moved
<1>14. \A e \in Enqueuers : Mark(e) => Goal
  BY MarkDoes DEF messages, queue, Putting, Gone
<1>15. \A e \in Enqueuers : PushFails(e) => Goal
  BY PushFailsDoes DEF messages, queue, ghosts, Putting, Moved
<1>16. \A e \in Enqueuers : EnqueueFails(e) => Goal
  BY EnqueueFailsDoes DEF messages, queue, ghosts, Putting, Gone
<1>17. Restart => Goal
  BY RestartDoes DEF messages, queue, ghosts, Gone
<1>18. \A w \in Workers : ReadGroup(w) => Goal
  BY ReadGroupDoes, AtWork DEF messages, ghosts, Giving
<1>19. \A w \in Workers : Fetch(w) => Goal
  BY FetchDoes, AtWork DEF messages, ghosts, Giving, Going
<1>20. ASSUME NEW w \in Workers, Start(w)
      PROVE  Goal
  <2> HIDE DEF AckedIsSettled, Pointers, Used
  <2>1. /\ worker[w].pc # "read" /\ Current(w) \in Tasks /\ Holds(w, Current(w))
        /\ ~ Before(w, Current(w)) /\ (\A t : Before(w, t) => Holds(w, t))
        /\ Giving(w) /\ \A u \in Tasks \ {Current(w)} : task'[u] = task[u]
    BY <1>20, StartDoes, AtWork
  <2>2. i \in acked
    BY <1>20, StartDoes
  <2>3. i # Current(w)
    BY <2>1, <2>2 DEF Pointers
  <2> QED
    BY <2>1, <2>2, <2>3 DEF AckedIsSettled
<1>21. \A w \in Workers : Search(w) => Goal
  BY SearchDoes, AtWork DEF messages, Giving, Going
<1>22. \A w \in Workers : Archive(w) => Goal
  BY ArchiveDoes, AtWork DEF Giving, Going
<1>23. \A w \in Workers : Persist(w) => Goal
  BY PersistDoes, AtWork DEF messages, Giving, Going
<1>24. ASSUME NEW w \in Workers, Complete(w)
      PROVE  Goal
  <2> HIDE DEF AckedIsSettled, Pointers, Used
  <2>1. /\ worker[w].pc # "read" /\ Current(w) \in Tasks /\ Holds(w, Current(w))
        /\ ~ Before(w, Current(w)) /\ (\A t : Before(w, t) => Holds(w, t))
        /\ Giving(w) /\ \A u \in Tasks \ {Current(w)} : task'[u] = task[u]
    BY <1>24, CompleteDoes, AtWork
  <2>2. i \in acked
    BY <1>24, CompleteDoes
  <2>3. i # Current(w)
    BY <2>1, <2>2 DEF Pointers
  <2> QED
    BY <2>1, <2>2, <2>3 DEF AckedIsSettled
<1>25. ASSUME NEW w \in Workers, Ack(w)
      PROVE  Goal
  <2> HIDE DEF AckedIsSettled, Pointers, Used
  <2>1. task[Current(w)].status \in {"COMPLETED", "FAILED"}
    BY <1>25, AckDoes DEF Versions, VersionOf
  <2>2. task' = task /\ acked' = acked \cup {Current(w)}
    BY <1>25, AckDoes
  <2> QED
    BY <2>1, <2>2 DEF AckedIsSettled
<1>26. ASSUME NEW w \in Workers, Raises(w)
      PROVE  Goal
  <2> HIDE DEF AckedIsSettled, Pointers, Used
  <2>1. /\ worker[w].pc # "read" /\ Current(w) \in Tasks /\ Holds(w, Current(w))
        /\ ~ Before(w, Current(w)) /\ (\A t : Before(w, t) => Holds(w, t))
        /\ Giving(w) /\ \A u \in Tasks \ {Current(w)} : task'[u] = task[u]
    BY <1>26, RaisesDoes, AtWork
  <2>2. i \in acked
    BY <1>26, RaisesDoes
  <2>3. i # Current(w)
    BY <2>1, <2>2 DEF Pointers
  <2> QED
    BY <2>1, <2>2, <2>3 DEF AckedIsSettled
<1>27. \A w \in Workers : GivesUp(w) => Goal
  BY GivesUpDoes, AtWork DEF messages, Giving, Free
<1> QED
  BY <1>1, <1>2, <1>3, <1>4, <1>5, <1>6, <1>7, <1>8, <1>9, <1>10, <1>11, <1>12, <1>13,
     <1>14, <1>15, <1>16, <1>17, <1>18, <1>19, <1>20, <1>21, <1>22, <1>23, <1>24, <1>25,
     <1>26, <1>27 DEF Next, Enqueue, Work, Faults, Raises, GivesUp

\* What is excused stays so.
LEMMA ExcusedStep ==
  ASSUME IInv, [Next]_vars
  PROVE  /\ lost \subseteq lost' /\ left \subseteq left' /\ raced \subseteq raced'
         /\ overlap \subseteq overlap' /\ (faults > 0 => faults' > 0)
<1> DEFINE Goal == /\ lost \subseteq lost' /\ left \subseteq left' /\ raced \subseteq raced'
                   /\ overlap \subseteq overlap' /\ (faults > 0 => faults' > 0)
<1> USE DEF IInv
<1>1. CASE UNCHANGED vars
  BY <1>1 DEF vars
<1>2. \A m \in Msgs, s \in Sessions : Send(m, s) => Goal
  BY SendDoes DEF queue, ghosts
<1>3. \A m \in Msgs : Store(m) => Goal
  BY StoreDoes DEF queue, ghosts
<1>4. \A m \in Msgs : Register(m) => Goal
  BY RegisterDoes DEF queue
<1>5. \A m \in Msgs : RegisterFails(m) => Goal
  BY RegisterFailsDoes DEF queue
<1>6. \A s \in Sessions : Age(s) => Goal
  BY AgeDoes DEF messages, queue, ghosts
<1>7. \A s \in Sessions : Fire(s) => Goal
  BY FireDoes DEF messages, queue, ghosts, Putting
<1>8. \A s \in Sessions : Check(s) => Goal
  BY CheckDoes DEF messages, queue, Putting, Gone, Due
<1>9. \A k \in Sweeps : List(k) => Goal
  BY ListDoes DEF messages, queue, Putting, Due
<1>10. \A e \in Enqueuers : Turn(e) => Goal
  BY TurnDoes DEF messages, queue, ghosts, Putting, Gone
<1>11. \A e \in Enqueuers : Insert(e) => Goal
  BY InsertDoes DEF messages, ghosts, Putting, Moved
<1>12. \A e \in Enqueuers : Push(e) => Goal
  BY PushDoes DEF messages, ghosts, Putting, Moved
<1>13. \A e \in Enqueuers : Note(e) => Goal
  BY NoteDoes DEF messages, queue, ghosts, Putting, Moved
<1>14. \A e \in Enqueuers : Mark(e) => Goal
  BY MarkDoes DEF messages, queue, Putting, Gone
<1>15. \A e \in Enqueuers : PushFails(e) => Goal
  BY PushFailsDoes DEF messages, queue, ghosts, Putting, Moved
<1>16. \A e \in Enqueuers : EnqueueFails(e) => Goal
  BY EnqueueFailsDoes DEF messages, queue, ghosts, Putting, Gone
<1>17. Restart => Goal
  BY RestartDoes DEF messages, queue, ghosts, Gone
<1>18. \A w \in Workers : ReadGroup(w) => Goal
  BY ReadGroupDoes DEF messages, ghosts, Giving
<1>19. \A w \in Workers : Fetch(w) => Goal
  BY FetchDoes DEF messages, ghosts, Giving, Going
<1>20. \A w \in Workers : Start(w) => Goal
  BY StartDoes DEF messages, ghosts, Giving, Going
<1>21. \A w \in Workers : Search(w) => Goal
  BY SearchDoes DEF messages, Giving, Going
<1>22. \A w \in Workers : Archive(w) => Goal
  BY ArchiveDoes DEF Giving, Going
<1>23. \A w \in Workers : Persist(w) => Goal
  BY PersistDoes DEF messages, Giving, Going
<1>24. \A w \in Workers : Complete(w) => Goal
  BY CompleteDoes DEF messages, ghosts, Giving, Going
<1>25. \A w \in Workers : Ack(w) => Goal
  BY AckDoes DEF messages, ghosts, Giving, Free
<1>26. \A w \in Workers : Raises(w) => Goal
  BY RaisesDoes DEF messages, Giving, Going
<1>27. \A w \in Workers : GivesUp(w) => Goal
  BY GivesUpDoes DEF messages, Giving, Free
<1> QED
  BY <1>1, <1>2, <1>3, <1>4, <1>5, <1>6, <1>7, <1>8, <1>9, <1>10, <1>11, <1>12, <1>13,
     <1>14, <1>15, <1>16, <1>17, <1>18, <1>19, <1>20, <1>21, <1>22, <1>23, <1>24, <1>25,
     <1>26, <1>27 DEF Next, Enqueue, Work, Faults, Raises, GivesUp

\* What is stored or settled stays so.
LEMMA SettledStep ==
  ASSUME IInv, [Next]_vars
  PROVE  settled \subseteq settled' /\ kept \subseteq kept' \cup settled'
<1> DEFINE Goal == settled \subseteq settled' /\ kept \subseteq kept' \cup settled'
<1> USE DEF IInv
<1>1. CASE UNCHANGED vars
  BY <1>1 DEF vars
<1>2. \A m \in Msgs, s \in Sessions : Send(m, s) => Goal
  BY SendDoes DEF queue, ghosts
<1>3. \A m \in Msgs : Store(m) => Goal
  BY StoreDoes DEF queue, ghosts
<1>4. \A m \in Msgs : Register(m) => Goal
  BY RegisterDoes DEF queue
<1>5. \A m \in Msgs : RegisterFails(m) => Goal
  BY RegisterFailsDoes DEF queue
<1>6. \A s \in Sessions : Age(s) => Goal
  BY AgeDoes DEF messages, queue, ghosts
<1>7. \A s \in Sessions : Fire(s) => Goal
  BY FireDoes DEF messages, queue, ghosts, Putting
<1>8. \A s \in Sessions : Check(s) => Goal
  BY CheckDoes DEF messages, queue, Putting, Gone, Due
<1>9. \A k \in Sweeps : List(k) => Goal
  BY ListDoes DEF messages, queue, Putting, Due
<1>10. \A e \in Enqueuers : Turn(e) => Goal
  BY TurnDoes DEF messages, queue, ghosts, Putting, Gone
<1>11. \A e \in Enqueuers : Insert(e) => Goal
  BY InsertDoes DEF messages, ghosts, Putting, Moved
<1>12. \A e \in Enqueuers : Push(e) => Goal
  BY PushDoes DEF messages, ghosts, Putting, Moved
<1>13. \A e \in Enqueuers : Note(e) => Goal
  BY NoteDoes DEF messages, queue, ghosts, Putting, Moved
<1>14. \A e \in Enqueuers : Mark(e) => Goal
  BY MarkDoes DEF messages, queue, Putting, Gone
<1>15. \A e \in Enqueuers : PushFails(e) => Goal
  BY PushFailsDoes DEF messages, queue, ghosts, Putting, Moved
<1>16. \A e \in Enqueuers : EnqueueFails(e) => Goal
  BY EnqueueFailsDoes DEF messages, queue, ghosts, Putting, Gone
<1>17. Restart => Goal
  BY RestartDoes DEF messages, queue, ghosts, Gone
<1>18. \A w \in Workers : ReadGroup(w) => Goal
  BY ReadGroupDoes DEF messages, ghosts, Giving
<1>19. \A w \in Workers : Fetch(w) => Goal
  BY FetchDoes DEF messages, ghosts, Giving, Going
<1>20. \A w \in Workers : Start(w) => Goal
  BY StartDoes DEF messages, ghosts, Giving, Going
<1>21. \A w \in Workers : Search(w) => Goal
  BY SearchDoes DEF messages, Giving, Going
<1>22. \A w \in Workers : Archive(w) => Goal
  BY ArchiveDoes DEF Giving, Going
<1>23. \A w \in Workers : Persist(w) => Goal
  BY PersistDoes DEF messages, Giving, Going
<1>24. \A w \in Workers : Complete(w) => Goal
  BY CompleteDoes DEF messages, ghosts, Giving, Going
<1>25. \A w \in Workers : Ack(w) => Goal
  BY AckDoes DEF messages, ghosts, Giving, Free
<1>26. \A w \in Workers : Raises(w) => Goal
  BY RaisesDoes DEF messages, Giving, Going
<1>27. \A w \in Workers : GivesUp(w) => Goal
  BY GivesUpDoes DEF messages, Giving, Free
<1> QED
  BY <1>1, <1>2, <1>3, <1>4, <1>5, <1>6, <1>7, <1>8, <1>9, <1>10, <1>11, <1>12, <1>13,
     <1>14, <1>15, <1>16, <1>17, <1>18, <1>19, <1>20, <1>21, <1>22, <1>23, <1>24, <1>25,
     <1>26, <1>27 DEF Next, Enqueue, Work, Faults, Raises, GivesUp

\* What is sent stays so.
LEMMA SentStep ==
  ASSUME IInv, [Next]_vars
  PROVE  known \subseteq known' /\ \A n \in said : home'[n] = home[n]
<1> DEFINE Goal == known \subseteq known' /\ \A n \in said : home'[n] = home[n]
<1> USE DEF IInv
<1>1. CASE UNCHANGED vars
  BY <1>1, Sent DEF vars
<1>2. \A m \in Msgs, s \in Sessions : Send(m, s) => Goal
  BY SendDoes, Sent DEF queue, ghosts
<1>3. \A m \in Msgs : Store(m) => Goal
  BY StoreDoes, Sent DEF queue, ghosts
<1>4. \A m \in Msgs : Register(m) => Goal
  BY RegisterDoes, Sent DEF queue
<1>5. \A m \in Msgs : RegisterFails(m) => Goal
  BY RegisterFailsDoes, Sent DEF queue
<1>6. \A s \in Sessions : Age(s) => Goal
  BY AgeDoes, Sent DEF messages, queue, ghosts
<1>7. \A s \in Sessions : Fire(s) => Goal
  BY FireDoes, Sent DEF messages, queue, ghosts, Putting
<1>8. \A s \in Sessions : Check(s) => Goal
  BY CheckDoes, Sent DEF messages, queue, Putting, Gone, Due
<1>9. \A k \in Sweeps : List(k) => Goal
  BY ListDoes, Sent DEF messages, queue, Putting, Due
<1>10. \A e \in Enqueuers : Turn(e) => Goal
  BY TurnDoes, Sent DEF messages, queue, ghosts, Putting, Gone
<1>11. \A e \in Enqueuers : Insert(e) => Goal
  BY InsertDoes, Sent DEF messages, ghosts, Putting, Moved
<1>12. \A e \in Enqueuers : Push(e) => Goal
  BY PushDoes, Sent DEF messages, ghosts, Putting, Moved
<1>13. \A e \in Enqueuers : Note(e) => Goal
  BY NoteDoes, Sent DEF messages, queue, ghosts, Putting, Moved
<1>14. \A e \in Enqueuers : Mark(e) => Goal
  BY MarkDoes, Sent DEF messages, queue, Putting, Gone
<1>15. \A e \in Enqueuers : PushFails(e) => Goal
  BY PushFailsDoes, Sent DEF messages, queue, ghosts, Putting, Moved
<1>16. \A e \in Enqueuers : EnqueueFails(e) => Goal
  BY EnqueueFailsDoes, Sent DEF messages, queue, ghosts, Putting, Gone
<1>17. Restart => Goal
  BY RestartDoes, Sent DEF messages, queue, ghosts, Gone
<1>18. \A w \in Workers : ReadGroup(w) => Goal
  BY ReadGroupDoes, Sent DEF messages, ghosts, Giving
<1>19. \A w \in Workers : Fetch(w) => Goal
  BY FetchDoes, Sent DEF messages, ghosts, Giving, Going
<1>20. \A w \in Workers : Start(w) => Goal
  BY StartDoes, Sent DEF messages, ghosts, Giving, Going
<1>21. \A w \in Workers : Search(w) => Goal
  BY SearchDoes, Sent DEF messages, Giving, Going
<1>22. \A w \in Workers : Archive(w) => Goal
  BY ArchiveDoes, Sent DEF Giving, Going
<1>23. \A w \in Workers : Persist(w) => Goal
  BY PersistDoes, Sent DEF messages, Giving, Going
<1>24. \A w \in Workers : Complete(w) => Goal
  BY CompleteDoes, Sent DEF messages, ghosts, Giving, Going
<1>25. \A w \in Workers : Ack(w) => Goal
  BY AckDoes, Sent DEF messages, ghosts, Giving, Free
<1>26. \A w \in Workers : Raises(w) => Goal
  BY RaisesDoes, Sent DEF messages, Giving, Going
<1>27. \A w \in Workers : GivesUp(w) => Goal
  BY GivesUpDoes, Sent DEF messages, Giving, Free
<1> QED
  BY <1>1, <1>2, <1>3, <1>4, <1>5, <1>6, <1>7, <1>8, <1>9, <1>10, <1>11, <1>12, <1>13,
     <1>14, <1>15, <1>16, <1>17, <1>18, <1>19, <1>20, <1>21, <1>22, <1>23, <1>24, <1>25,
     <1>26, <1>27 DEF Next, Enqueue, Work, Faults, Raises, GivesUp

\* What a task is for stays.
LEMMA OfStep ==
  ASSUME IInv, [Next]_vars, NEW i \in Tasks, i \in Used
  PROVE  /\ i \in Used'
         /\ task'[i].of = task[i].of /\ task'[i].seen = task[i].seen
<1> DEFINE Goal == /\ i \in Used'
                   /\ task'[i].of = task[i].of /\ task'[i].seen = task[i].seen
<1> USE DEF IInv, Used
<1>1. CASE UNCHANGED vars
  BY <1>1 DEF vars
<1>2. \A m \in Msgs, s \in Sessions : Send(m, s) => Goal
  BY SendDoes DEF queue, ghosts
<1>3. \A m \in Msgs : Store(m) => Goal
  BY StoreDoes DEF queue, ghosts
<1>4. \A m \in Msgs : Register(m) => Goal
  BY RegisterDoes DEF queue
<1>5. \A m \in Msgs : RegisterFails(m) => Goal
  BY RegisterFailsDoes DEF queue
<1>6. \A s \in Sessions : Age(s) => Goal
  BY AgeDoes DEF messages, queue, ghosts
<1>7. \A s \in Sessions : Fire(s) => Goal
  BY FireDoes DEF messages, queue, ghosts, Putting
<1>8. \A s \in Sessions : Check(s) => Goal
  BY CheckDoes DEF messages, queue, Putting, Gone, Due
<1>9. \A k \in Sweeps : List(k) => Goal
  BY ListDoes DEF messages, queue, Putting, Due
<1>10. \A e \in Enqueuers : Turn(e) => Goal
  BY TurnDoes DEF messages, queue, ghosts, Putting, Gone
<1>11. \A e \in Enqueuers : Insert(e) => Goal
  BY InsertDoes DEF messages, ghosts, Putting, Moved
<1>12. \A e \in Enqueuers : Push(e) => Goal
  BY PushDoes DEF messages, ghosts, Putting, Moved
<1>13. \A e \in Enqueuers : Note(e) => Goal
  BY NoteDoes DEF messages, queue, ghosts, Putting, Moved
<1>14. \A e \in Enqueuers : Mark(e) => Goal
  BY MarkDoes DEF messages, queue, Putting, Gone
<1>15. \A e \in Enqueuers : PushFails(e) => Goal
  BY PushFailsDoes DEF messages, queue, ghosts, Putting, Moved
<1>16. \A e \in Enqueuers : EnqueueFails(e) => Goal
  BY EnqueueFailsDoes DEF messages, queue, ghosts, Putting, Gone
<1>17. Restart => Goal
  BY RestartDoes DEF messages, queue, ghosts, Gone
<1>18. \A w \in Workers : ReadGroup(w) => Goal
  BY ReadGroupDoes DEF messages, ghosts, Giving
<1>19. \A w \in Workers : Fetch(w) => Goal
  BY FetchDoes DEF messages, ghosts, Giving, Going
<1>20. ASSUME NEW w \in Workers, Start(w)
      PROVE  Goal
  <2> HIDE DEF Used
  <2> QED
    BY <1>20, StartDoes, Reworked
<1>21. \A w \in Workers : Search(w) => Goal
  BY SearchDoes DEF messages, Giving, Going
<1>22. \A w \in Workers : Archive(w) => Goal
  BY ArchiveDoes DEF Giving, Going
<1>23. \A w \in Workers : Persist(w) => Goal
  BY PersistDoes DEF messages, Giving, Going
<1>24. ASSUME NEW w \in Workers, Complete(w)
      PROVE  Goal
  <2> HIDE DEF Used
  <2> QED
    BY <1>24, CompleteDoes, Reworked
<1>25. \A w \in Workers : Ack(w) => Goal
  BY AckDoes DEF messages, ghosts, Giving, Free
<1>26. ASSUME NEW w \in Workers, Raises(w)
      PROVE  Goal
  <2> HIDE DEF Used
  <2> QED
    BY <1>26, RaisesDoes, Reworked
<1>27. \A w \in Workers : GivesUp(w) => Goal
  BY GivesUpDoes DEF messages, Giving, Free
<1> QED
  BY <1>1, <1>2, <1>3, <1>4, <1>5, <1>6, <1>7, <1>8, <1>9, <1>10, <1>11, <1>12, <1>13,
     <1>14, <1>15, <1>16, <1>17, <1>18, <1>19, <1>20, <1>21, <1>22, <1>23, <1>24, <1>25,
     <1>26, <1>27 DEF Next, Enqueue, Work, Faults, Raises, GivesUp

\* A session that is idle has its messages stored.
LEMMA RowStoredStep ==
  ASSUME IInv, [Next]_vars, NEW n \in Msgs, n \in known', row'[home'[n]].idle
  PROVE  n \in kept' \cup settled' \cup lost' \cup left'
<1> DEFINE Goal == n \in kept' \cup settled' \cup lost' \cup left'
<1> USE DEF IInv, Stored, Of
<1>1. CASE UNCHANGED vars
  BY <1>1, Sent, ExcusedStep, SettledStep, SentStep DEF vars
<1>2. \A m \in Msgs, s \in Sessions : Send(m, s) => Goal
  BY SendDoes, Sent, ExcusedStep, SettledStep, SentStep DEF queue, ghosts
<1>3. \A m \in Msgs : Store(m) => Goal
  BY StoreDoes, Sent, ExcusedStep, SettledStep, SentStep DEF queue, ghosts
<1>4. \A m \in Msgs : Register(m) => Goal
  BY RegisterDoes, Sent, ExcusedStep, SettledStep, SentStep DEF queue
<1>5. \A m \in Msgs : RegisterFails(m) => Goal
  BY RegisterFailsDoes, Sent, ExcusedStep, SettledStep, SentStep DEF queue
<1>6. \A s \in Sessions : Age(s) => Goal
  BY AgeDoes, Sent, ExcusedStep, SettledStep, SentStep DEF messages, queue, ghosts
<1>7. \A s \in Sessions : Fire(s) => Goal
  BY FireDoes, Sent, ExcusedStep, SettledStep, SentStep DEF messages, queue, ghosts,
     Putting
<1>8. \A s \in Sessions : Check(s) => Goal
  BY CheckDoes, Sent, ExcusedStep, SettledStep, SentStep DEF messages, queue, Putting,
     Gone, Due
<1>9. \A k \in Sweeps : List(k) => Goal
  BY ListDoes, Sent, ExcusedStep, SettledStep, SentStep DEF messages, queue, Putting,
     Due
<1>10. \A e \in Enqueuers : Turn(e) => Goal
  BY TurnDoes, Sent, ExcusedStep, SettledStep, SentStep DEF messages, queue, ghosts,
     Putting, Gone
<1>11. \A e \in Enqueuers : Insert(e) => Goal
  BY InsertDoes, Sent, ExcusedStep, SettledStep, SentStep DEF messages, ghosts, Putting,
     Moved
<1>12. \A e \in Enqueuers : Push(e) => Goal
  BY PushDoes, Sent, ExcusedStep, SettledStep, SentStep DEF messages, ghosts, Putting,
     Moved
<1>13. \A e \in Enqueuers : Note(e) => Goal
  BY NoteDoes, Sent, ExcusedStep, SettledStep, SentStep DEF messages, queue, ghosts,
     Putting, Moved
<1>14. \A e \in Enqueuers : Mark(e) => Goal
  BY MarkDoes, Sent, ExcusedStep, SettledStep, SentStep DEF messages, queue, Putting,
     Gone
<1>15. \A e \in Enqueuers : PushFails(e) => Goal
  BY PushFailsDoes, Sent, ExcusedStep, SettledStep, SentStep DEF messages, queue,
     ghosts, Putting, Moved
<1>16. \A e \in Enqueuers : EnqueueFails(e) => Goal
  BY EnqueueFailsDoes, Sent, ExcusedStep, SettledStep, SentStep DEF messages, queue,
     ghosts, Putting, Gone
<1>17. Restart => Goal
  BY RestartDoes, Sent, ExcusedStep, SettledStep, SentStep DEF messages, queue, ghosts,
     Gone
<1>18. \A w \in Workers : ReadGroup(w) => Goal
  BY ReadGroupDoes, Sent, ExcusedStep, SettledStep, SentStep DEF messages, ghosts,
     Giving
<1>19. \A w \in Workers : Fetch(w) => Goal
  BY FetchDoes, Sent, ExcusedStep, SettledStep, SentStep DEF messages, ghosts, Giving,
     Going
<1>20. \A w \in Workers : Start(w) => Goal
  BY StartDoes, Sent, ExcusedStep, SettledStep, SentStep DEF messages, ghosts, Giving,
     Going
<1>21. \A w \in Workers : Search(w) => Goal
  BY SearchDoes, Sent, ExcusedStep, SettledStep, SentStep DEF messages, Giving,
     Going
<1>22. \A w \in Workers : Archive(w) => Goal
  BY ArchiveDoes, Sent, ExcusedStep, SettledStep, SentStep DEF Giving, Going
<1>23. \A w \in Workers : Persist(w) => Goal
  BY PersistDoes, Sent, ExcusedStep, SettledStep, SentStep DEF messages, Giving, Going
<1>24. \A w \in Workers : Complete(w) => Goal
  BY CompleteDoes, Sent, ExcusedStep, SettledStep, SentStep DEF messages, ghosts,
     Giving, Going
<1>25. \A w \in Workers : Ack(w) => Goal
  BY AckDoes, Sent, ExcusedStep, SettledStep, SentStep DEF messages, ghosts, Giving,
     Free
<1>26. \A w \in Workers : Raises(w) => Goal
  BY RaisesDoes, Sent, ExcusedStep, SettledStep, SentStep DEF messages, Giving,
     Going
<1>27. \A w \in Workers : GivesUp(w) => Goal
  BY GivesUpDoes, Sent, ExcusedStep, SettledStep, SentStep DEF messages, Giving,
     Free
<1> QED
  BY <1>1, <1>2, <1>3, <1>4, <1>5, <1>6, <1>7, <1>8, <1>9, <1>10, <1>11, <1>12, <1>13,
     <1>14, <1>15, <1>16, <1>17, <1>18, <1>19, <1>20, <1>21, <1>22, <1>23, <1>24, <1>25,
     <1>26, <1>27 DEF Next, Enqueue, Work, Faults, Raises, GivesUp

\* And what an enqueuer queues.
LEMMA EnqStoredStep ==
  ASSUME IInv, [Next]_vars, NEW f \in Enqueuers, Past(f)', NEW n \in Msgs,
         n \in enq'[f].seen, home'[n] \in enq'[f].todo \cup {enq'[f].at}, home'[n] \in
         Sessions
  PROVE  n \in kept' \cup settled' \cup lost' \cup left'
<1> DEFINE Goal == n \in kept' \cup settled' \cup lost' \cup left'
<1> USE DEF IInv, Stored, Of, Past, Due
<1>1. CASE UNCHANGED vars
  BY <1>1, Sent, ExcusedStep, SettledStep, SentStep, Typed, SeenKnown DEF vars
<1>2. \A m \in Msgs, s \in Sessions : Send(m, s) => Goal
  BY SendDoes, Sent, ExcusedStep, SettledStep, SentStep, Typed, SeenKnown DEF queue,
     ghosts
<1>3. \A m \in Msgs : Store(m) => Goal
  BY StoreDoes, Sent, ExcusedStep, SettledStep, SentStep, Typed, SeenKnown DEF queue,
     ghosts
<1>4. \A m \in Msgs : Register(m) => Goal
  BY RegisterDoes, Sent, ExcusedStep, SettledStep, SentStep, Typed, SeenKnown DEF queue
<1>5. \A m \in Msgs : RegisterFails(m) => Goal
  BY RegisterFailsDoes, Sent, ExcusedStep, SettledStep, SentStep, Typed, SeenKnown DEF
     queue
<1>6. \A s \in Sessions : Age(s) => Goal
  BY AgeDoes, Sent, ExcusedStep, SettledStep, SentStep, Typed, SeenKnown DEF messages,
     queue, ghosts
<1>7. \A s \in Sessions : Fire(s) => Goal
  BY FireDoes, Sent, ExcusedStep, SettledStep, SentStep, Typed, SeenKnown DEF messages,
     queue, ghosts, Putting
<1>8. \A s \in Sessions : Check(s) => Goal
  BY CheckDoes, Sent, ExcusedStep, SettledStep, SentStep, Typed, SeenKnown DEF messages,
     queue, Putting, Gone
<1>9. ASSUME NEW k \in Sweeps, List(k)
      PROVE  Goal
  <2> HIDE DEF Stored, Of, Past, Due
  <2>1. f = k \/ enq'[f] = enq[f]
    BY <1>9, ListDoes DEF Putting
  <2>2. /\ home' = home /\ known' = known /\ kept' = kept /\ settled' = settled
        /\ lost' = lost /\ left' = left
    BY <1>9, ListDoes DEF messages
  <2>3. CASE f # k
    BY <2>1, <2>2, <2>3 DEF Stored, Past, Of
  <2>4. CASE f = k
    <3>1. Due(home[n]) /\ n \in known /\ home[n] \in Sessions
      BY <1>9, <2>2, <2>4, ListDoes, DnaSessionsAssumption
    <3> QED
      BY <2>2, <3>1 DEF Stored, Of, Due
  <2> QED
    BY <2>3, <2>4
<1>10. \A e \in Enqueuers : Turn(e) => Goal
  BY TurnDoes, Sent, ExcusedStep, SettledStep, SentStep, Typed, SeenKnown DEF messages,
     queue, ghosts, Putting, Gone
<1>11. \A e \in Enqueuers : Insert(e) => Goal
  BY InsertDoes, Sent, ExcusedStep, SettledStep, SentStep, Typed, SeenKnown DEF
     messages, ghosts, Putting, Moved
<1>12. \A e \in Enqueuers : Push(e) => Goal
  BY PushDoes, Sent, ExcusedStep, SettledStep, SentStep, Typed, SeenKnown DEF messages,
     ghosts, Putting, Moved
<1>13. \A e \in Enqueuers : Note(e) => Goal
  BY NoteDoes, Sent, ExcusedStep, SettledStep, SentStep, Typed, SeenKnown DEF messages,
     queue, ghosts, Putting, Moved
<1>14. ASSUME NEW e \in Enqueuers, Mark(e)
      PROVE  Goal
  <2> HIDE DEF Stored, Of, Past, Due
  <2>1. f = e \/ enq'[f] = enq[f]
    BY <1>14, MarkDoes DEF Putting
  <2>2. /\ home' = home /\ kept' = kept /\ settled' = settled /\ left' = left
        /\ lost \subseteq lost'
    BY <1>14, MarkDoes DEF messages
  <2>3. Past(f) /\ home[n] \in enq[f].todo \cup {enq[f].at} /\ n \in enq[f].seen
    BY <1>14, <2>1, <2>2, MarkDoes, DnaSessionsAssumption DEF Past, Gone
  <2> QED
    BY <2>2, <2>3 DEF Stored, Of
<1>15. \A e \in Enqueuers : PushFails(e) => Goal
  BY PushFailsDoes, Sent, ExcusedStep, SettledStep, SentStep, Typed, SeenKnown DEF
     messages, queue, ghosts, Putting, Moved
<1>16. \A e \in Enqueuers : EnqueueFails(e) => Goal
  BY EnqueueFailsDoes, Sent, ExcusedStep, SettledStep, SentStep, Typed, SeenKnown DEF
     messages, queue, ghosts, Putting, Gone
<1>17. Restart => Goal
  BY RestartDoes, Sent, ExcusedStep, SettledStep, SentStep, Typed, SeenKnown DEF
     messages, queue, ghosts, Gone
<1>18. \A w \in Workers : ReadGroup(w) => Goal
  BY ReadGroupDoes, Sent, ExcusedStep, SettledStep, SentStep, Typed, SeenKnown DEF
     messages, ghosts, Giving
<1>19. \A w \in Workers : Fetch(w) => Goal
  BY FetchDoes, Sent, ExcusedStep, SettledStep, SentStep, Typed, SeenKnown DEF messages,
     ghosts, Giving, Going
<1>20. \A w \in Workers : Start(w) => Goal
  BY StartDoes, Sent, ExcusedStep, SettledStep, SentStep, Typed, SeenKnown DEF messages,
     ghosts, Giving, Going
<1>21. \A w \in Workers : Search(w) => Goal
  BY SearchDoes, Sent, ExcusedStep, SettledStep, SentStep, Typed, SeenKnown DEF
     messages, Giving, Going
<1>22. \A w \in Workers : Archive(w) => Goal
  BY ArchiveDoes, Sent, ExcusedStep, SettledStep, SentStep, Typed, SeenKnown DEF Giving,
     Going
<1>23. \A w \in Workers : Persist(w) => Goal
  BY PersistDoes, Sent, ExcusedStep, SettledStep, SentStep, Typed, SeenKnown DEF
     messages, Giving, Going
<1>24. \A w \in Workers : Complete(w) => Goal
  BY CompleteDoes, Sent, ExcusedStep, SettledStep, SentStep, Typed, SeenKnown DEF
     messages, ghosts, Giving, Going
<1>25. \A w \in Workers : Ack(w) => Goal
  BY AckDoes, Sent, ExcusedStep, SettledStep, SentStep, Typed, SeenKnown DEF messages,
     ghosts, Giving, Free
<1>26. \A w \in Workers : Raises(w) => Goal
  BY RaisesDoes, Sent, ExcusedStep, SettledStep, SentStep, Typed, SeenKnown DEF
     messages, Giving, Going
<1>27. \A w \in Workers : GivesUp(w) => Goal
  BY GivesUpDoes, Sent, ExcusedStep, SettledStep, SentStep, Typed, SeenKnown DEF
     messages, Giving, Free
<1> QED
  BY <1>1, <1>2, <1>3, <1>4, <1>5, <1>6, <1>7, <1>8, <1>9, <1>10, <1>11, <1>12, <1>13,
     <1>14, <1>15, <1>16, <1>17, <1>18, <1>19, <1>20, <1>21, <1>22, <1>23, <1>24, <1>25,
     <1>26, <1>27 DEF Next, Enqueue, Work, Faults, Raises, GivesUp

\* A pointer in the stream stays there or is fetched.
LEMMA StreamBearsStep ==
  ASSUME IInv, [Next]_vars, NEW i \in Tasks, NEW n \in Msgs, In(stream, i)
  PROVE  Bears(i, n)'
<1> USE DEF IInv
<1>1. CASE UNCHANGED vars
  BY <1>1, BearsIn DEF vars
<1>2. \A m \in Msgs, s \in Sessions : Send(m, s) => Bears(i, n)'
  BY SendDoes, BearsIn DEF queue, ghosts
<1>3. \A m \in Msgs : Store(m) => Bears(i, n)'
  BY StoreDoes, BearsIn DEF queue, ghosts
<1>4. \A m \in Msgs : Register(m) => Bears(i, n)'
  BY RegisterDoes, BearsIn DEF queue
<1>5. \A m \in Msgs : RegisterFails(m) => Bears(i, n)'
  BY RegisterFailsDoes, BearsIn DEF queue
<1>6. \A s \in Sessions : Age(s) => Bears(i, n)'
  BY AgeDoes, BearsIn DEF messages, queue, ghosts
<1>7. \A s \in Sessions : Fire(s) => Bears(i, n)'
  BY FireDoes, BearsIn DEF messages, queue, ghosts, Putting
<1>8. \A s \in Sessions : Check(s) => Bears(i, n)'
  BY CheckDoes, BearsIn DEF messages, queue, Putting, Gone, Due
<1>9. \A k \in Sweeps : List(k) => Bears(i, n)'
  BY ListDoes, BearsIn DEF messages, queue, Putting, Due
<1>10. \A e \in Enqueuers : Turn(e) => Bears(i, n)'
  BY TurnDoes, BearsIn DEF messages, queue, ghosts, Putting, Gone
<1>11. \A e \in Enqueuers : Insert(e) => Bears(i, n)'
  BY InsertDoes, BearsIn DEF messages, ghosts, Putting, Moved
<1>12. \A e \in Enqueuers : Push(e) => Bears(i, n)'
  BY PushDoes, BearsIn DEF messages, ghosts, Putting, Moved
<1>13. \A e \in Enqueuers : Note(e) => Bears(i, n)'
  BY NoteDoes, BearsIn DEF messages, queue, ghosts, Putting, Moved
<1>14. \A e \in Enqueuers : Mark(e) => Bears(i, n)'
  BY MarkDoes, BearsIn DEF messages, queue, Putting, Gone
<1>15. \A e \in Enqueuers : PushFails(e) => Bears(i, n)'
  BY PushFailsDoes, BearsIn DEF messages, queue, ghosts, Putting, Moved
<1>16. \A e \in Enqueuers : EnqueueFails(e) => Bears(i, n)'
  BY EnqueueFailsDoes, BearsIn DEF messages, queue, ghosts, Putting, Gone
<1>17. Restart => Bears(i, n)'
  BY RestartDoes, BearsIn DEF messages, queue, ghosts, Gone
<1>18. ASSUME NEW w \in Workers, ReadGroup(w)
      PROVE  Bears(i, n)'
  <2>1. In(stream', i) \/ In(worker'[w].batch, i)
    BY <1>18, ReadGroupDoes
  <2>2. In(worker'[w].batch, i) => Finding(w, i, n)'
    BY <1>18, ReadGroupDoes, FetchFinding DEF Giving
  <2> QED
    BY <2>1, <2>2 DEF Bears
<1>19. \A w \in Workers : Fetch(w) => Bears(i, n)'
  BY FetchDoes, BearsIn DEF messages, ghosts, Giving, Going
<1>20. \A w \in Workers : Start(w) => Bears(i, n)'
  BY StartDoes, BearsIn DEF messages, ghosts, Giving, Going
<1>21. \A w \in Workers : Search(w) => Bears(i, n)'
  BY SearchDoes, BearsIn DEF messages, Giving, Going
<1>22. \A w \in Workers : Archive(w) => Bears(i, n)'
  BY ArchiveDoes, BearsIn DEF Giving, Going
<1>23. \A w \in Workers : Persist(w) => Bears(i, n)'
  BY PersistDoes, BearsIn DEF messages, Giving, Going
<1>24. \A w \in Workers : Complete(w) => Bears(i, n)'
  BY CompleteDoes, BearsIn DEF messages, ghosts, Giving, Going
<1>25. \A w \in Workers : Ack(w) => Bears(i, n)'
  BY AckDoes, BearsIn DEF messages, ghosts, Giving, Free
<1>26. \A w \in Workers : Raises(w) => Bears(i, n)'
  BY RaisesDoes, BearsIn DEF messages, Giving, Going
<1>27. \A w \in Workers : GivesUp(w) => Bears(i, n)'
  BY GivesUpDoes, BearsIn DEF messages, Giving, Free
<1> QED
  BY <1>1, <1>2, <1>3, <1>4, <1>5, <1>6, <1>7, <1>8, <1>9, <1>10, <1>11, <1>12, <1>13,
     <1>14, <1>15, <1>16, <1>17, <1>18, <1>19, <1>20, <1>21, <1>22, <1>23, <1>24, <1>25,
     <1>26, <1>27 DEF Next, Enqueue, Work, Faults, Raises, GivesUp

\* A message that a worker is to find is found, settled, lost or left with it.
LEMMA FoundBearsStep ==
  ASSUME IInv, [Next]_vars, NEW i \in Tasks, NEW n \in kept \cap known,
         task[i].of = home[n], NEW v \in Workers, Finding(v, i, n)
  PROVE  Finding(v, i, n)' \/ n \in settled' \cup lost' \cup left'
<1> DEFINE Goal == Finding(v, i, n)' \/ n \in settled' \cup lost' \cup left'
<1> USE DEF IInv, Finding, Current, Before
<1>1. CASE UNCHANGED vars
  BY <1>1 DEF vars
<1>2. \A m \in Msgs, s \in Sessions : Send(m, s) => Goal
  BY SendDoes DEF queue, ghosts
<1>3. \A m \in Msgs : Store(m) => Goal
  BY StoreDoes DEF queue, ghosts
<1>4. \A m \in Msgs : Register(m) => Goal
  BY RegisterDoes DEF queue
<1>5. \A m \in Msgs : RegisterFails(m) => Goal
  BY RegisterFailsDoes DEF queue
<1>6. \A s \in Sessions : Age(s) => Goal
  BY AgeDoes DEF messages, queue, ghosts
<1>7. \A s \in Sessions : Fire(s) => Goal
  BY FireDoes DEF messages, queue, ghosts, Putting
<1>8. \A s \in Sessions : Check(s) => Goal
  BY CheckDoes DEF messages, queue, Putting, Gone, Due
<1>9. \A k \in Sweeps : List(k) => Goal
  BY ListDoes DEF messages, queue, Putting, Due
<1>10. \A e \in Enqueuers : Turn(e) => Goal
  BY TurnDoes DEF messages, queue, ghosts, Putting, Gone
<1>11. \A e \in Enqueuers : Insert(e) => Goal
  BY InsertDoes DEF messages, ghosts, Putting, Moved
<1>12. \A e \in Enqueuers : Push(e) => Goal
  BY PushDoes DEF messages, ghosts, Putting, Moved
<1>13. \A e \in Enqueuers : Note(e) => Goal
  BY NoteDoes DEF messages, queue, ghosts, Putting, Moved
<1>14. \A e \in Enqueuers : Mark(e) => Goal
  BY MarkDoes DEF messages, queue, Putting, Gone
<1>15. \A e \in Enqueuers : PushFails(e) => Goal
  BY PushFailsDoes DEF messages, queue, ghosts, Putting, Moved
<1>16. \A e \in Enqueuers : EnqueueFails(e) => Goal
  BY EnqueueFailsDoes DEF messages, queue, ghosts, Putting, Gone
<1>17. Restart => Goal
  BY RestartDoes DEF messages, queue, ghosts, Gone
<1>18. ASSUME NEW w \in Workers, ReadGroup(w)
      PROVE  Goal
  <2> HIDE DEF Finding, Current, Before
  <2>1. CASE v # w
    BY <1>18, <2>1, ReadGroupDoes, OtherFinding
  <2>2. CASE v = w
    <3> QED
      BY <1>18, <2>2, ReadGroupDoes, AtWork DEF Finding
  <2> QED
    BY <2>1, <2>2
<1>19. ASSUME NEW w \in Workers, Fetch(w)
      PROVE  Goal
  <2> HIDE DEF Finding, Current, Before
  <2>1. CASE v # w
    BY <1>19, <2>1, FetchDoes, OtherFinding
  <2>2. CASE v = w
    <3>2. Current(w)' = Current(w) /\ \A t : Before(w, t)' <=> Before(w, t)
      BY <1>19, FetchDoes, SameBatch DEF Going
    <3> QED
      BY <1>19, <2>2, <3>2, FetchDoes, CurrentOf DEF Finding, Going, Of, Giving
  <2> QED
    BY <2>1, <2>2
<1>20. ASSUME NEW w \in Workers, Start(w)
      PROVE  Goal
  <2> HIDE DEF Finding, Current, Before
  <2>1. CASE v # w
    BY <1>20, <2>1, StartDoes, OtherFinding
  <2>2. CASE v = w
    <3>2. Current(w)' = Current(w) /\ \A t : Before(w, t)' <=> Before(w, t)
      BY <1>20, StartDoes, SameBatch DEF Going
    <3> QED
      BY <1>20, <2>2, <3>2, StartDoes, CurrentOf DEF Finding, Going, Of, Giving
  <2> QED
    BY <2>1, <2>2
<1>21. ASSUME NEW w \in Workers, Search(w)
      PROVE  Goal
  <2> HIDE DEF Finding, Current, Before
  <2>1. CASE v # w
    BY <1>21, <2>1, SearchDoes, OtherFinding
  <2>2. CASE v = w
    <3>2. Current(w)' = Current(w) /\ \A t : Before(w, t)' <=> Before(w, t)
      BY <1>21, SearchDoes, SameBatch DEF Going
    <3>3. Current(w) = i => n \in worker'[w].found \cup left'
      BY <1>21, SearchDoes, Sent DEF Of
    <3> QED
      BY <1>21, <2>2, <3>2, <3>3, SearchDoes DEF Finding, Going
  <2> QED
    BY <2>1, <2>2
<1>22. ASSUME NEW w \in Workers, Archive(w)
      PROVE  Goal
  <2> HIDE DEF Finding, Current, Before
  <2>1. CASE v # w
    BY <1>22, <2>1, ArchiveDoes, OtherFinding
  <2>2. CASE v = w
    <3>2. Current(w)' = Current(w) /\ \A t : Before(w, t)' <=> Before(w, t)
      BY <1>22, ArchiveDoes, SameBatch DEF Going
    <3> QED
      BY <1>22, <2>2, <3>2, ArchiveDoes, CurrentOf DEF Finding, Going, Of, Giving
  <2> QED
    BY <2>1, <2>2
<1>23. ASSUME NEW w \in Workers, Persist(w)
      PROVE  Goal
  <2> HIDE DEF Finding, Current, Before
  <2>1. CASE v # w
    BY <1>23, <2>1, PersistDoes, OtherFinding
  <2>2. CASE v = w
    <3>2. Current(w)' = Current(w) /\ \A t : Before(w, t)' <=> Before(w, t)
      BY <1>23, PersistDoes, SameBatch DEF Going
    <3> QED
      BY <1>23, <2>2, <3>2, PersistDoes, CurrentOf DEF Finding, Going, Of, Giving
  <2> QED
    BY <2>1, <2>2
<1>24. ASSUME NEW w \in Workers, Complete(w)
      PROVE  Goal
  <2> HIDE DEF Finding, Current, Before
  <2>1. CASE v # w
    BY <1>24, <2>1, CompleteDoes, OtherFinding
  <2>2. CASE v = w
    <3>2. Current(w)' = Current(w) /\ \A t : Before(w, t)' <=> Before(w, t)
      BY <1>24, CompleteDoes, SameBatch DEF Going
    <3> QED
      BY <1>24, <2>2, <3>2, CompleteDoes, CurrentOf DEF Finding, Going, Of, Giving
  <2> QED
    BY <2>1, <2>2
<1>25. ASSUME NEW w \in Workers, Ack(w)
      PROVE  Goal
  <2> HIDE DEF Finding, Current, Before
  <2>1. CASE v # w
    BY <1>25, <2>1, AckDoes, OtherFinding
  <2>2. CASE v = w
    <3>2. Before(w, i)
      BY <1>25, <2>2, AckDoes DEF Finding
    <3>3. In(worker'[w].batch, i) /\ Giving(w)
      BY <1>25, <3>2, AckDoes
    <3>4. worker'[w].pc = "fetch" /\ worker'[w].batch # <<>>
      BY <1>25, <3>3, AckDoes, NoneIn DEF Free
    <3> QED
      BY <2>2, <3>3, <3>4, FetchFinding DEF Giving
  <2> QED
    BY <2>1, <2>2
<1>26. ASSUME NEW w \in Workers, Raises(w)
      PROVE  Goal
  <2> HIDE DEF Finding, Current, Before
  <2>1. CASE v # w
    BY <1>26, <2>1, RaisesDoes, OtherFinding
  <2>2. CASE v = w
    <3>2. Current(w)' = Current(w) /\ \A t : Before(w, t)' <=> Before(w, t)
      BY <1>26, RaisesDoes, SameBatch DEF Going
    <3>3. Current(w) = i => n \in settled' \cup lost' \cup left'
      BY <1>26, RaisesDoes, Sent DEF Of
    <3> QED
      BY <1>26, <2>2, <3>2, <3>3, RaisesDoes DEF Finding, Going
  <2> QED
    BY <2>1, <2>2
<1>27. ASSUME NEW w \in Workers, GivesUp(w)
      PROVE  Goal
  <2> HIDE DEF Finding, Current, Before
  <2>1. CASE v # w
    BY <1>27, <2>1, GivesUpDoes, OtherFinding
  <2>2. CASE v = w
    <3>2. Holds(w, i)
      BY <1>27, <2>2, GivesUpDoes, AtWork DEF Finding
    <3>3. n \in Of(task[i].of)
      BY Sent DEF Of
    <3> QED
      BY <1>27, <3>2, <3>3, GivesUpDoes
  <2> QED
    BY <2>1, <2>2
<1> QED
  BY <1>1, <1>2, <1>3, <1>4, <1>5, <1>6, <1>7, <1>8, <1>9, <1>10, <1>11, <1>12, <1>13,
     <1>14, <1>15, <1>16, <1>17, <1>18, <1>19, <1>20, <1>21, <1>22, <1>23, <1>24, <1>25,
     <1>26, <1>27 DEF Next, Enqueue, Work, Faults, Raises, GivesUp

\* A message that is carried stays so.
LEMMA CarriedStep ==
  ASSUME IInv, [Next]_vars, NEW m \in known, Carried(m)
  PROVE  Carried(m)'
<1>1. /\ TypeOK /\ TypeOK' /\ m \in Msgs /\ home'[m] = home[m]
      /\ settled \subseteq settled' /\ lost \subseteq lost' /\ left \subseteq left'
      /\ kept \subseteq kept' \cup settled'
  BY TypeStep, Sent, SentStep, SettledStep, ExcusedStep DEF IInv
<1>2. CASE m \in settled \cup lost \cup left
  BY <1>1, <1>2 DEF Carried
<1>3. CASE m \in kept /\ OnItsWay(m)
  <2>1. PICK t \in Tasks : task[t].of = home[m] /\ Bears(t, m)
    BY <1>1, <1>3, BearsWay
  <2>2. t \in Used
    <3>1. CASE In(stream, t)
      BY <3>1 DEF IInv, Pointers, Used
    <3>2. ASSUME NEW w \in Workers, Finding(w, t, m)
          PROVE  t \in Used
      <4>1. Holds(w, t)
        BY <3>2, AtWork DEF IInv, Finding
      <4> QED
        BY <4>1 DEF IInv, Pointers, Used
    <3> QED
      BY <2>1, <3>1, <3>2 DEF Bears
  <2>3. task'[t].of = home'[m]
    BY <1>1, <2>1, <2>2, OfStep
  <2>4. Bears(t, m)' \/ m \in settled' \cup lost' \cup left'
    <3>1. CASE In(stream, t)
      BY <1>1, <3>1, StreamBearsStep
    <3>2. ASSUME NEW w \in Workers, Finding(w, t, m)
          PROVE  Bears(t, m)' \/ m \in settled' \cup lost' \cup left'
      BY <1>3, <2>1, <3>2, FoundBearsStep DEF Bears
    <3> QED
      BY <2>1, <3>1, <3>2 DEF Bears
  <2>5. Bears(t, m)' => OnItsWay(m)'
    BY <1>1, <2>3, BearsWayNext
  <2> QED
    BY <1>1, <1>3, <2>4, <2>5 DEF Carried
<1> QED
  BY <1>2, <1>3 DEF Carried

\* A registered message stays remembered while its session stays due.
LEMMA StillRemembered ==
  ASSUME IInv, [Next]_vars, NEW n \in known, row[home[n]].due => row'[home[n]].due
  PROVE  n \in raced' \/ row'[home'[n]].due \/ Carried(n)'
<1>1. n \in said /\ home'[n] = home[n]
  BY Sent, SentStep DEF IInv
<1>2. n \in raced \/ row[home[n]].due \/ Carried(n)
  BY DEF IInv, Remembered
<1> QED
  BY <1>1, <1>2, CarriedStep, ExcusedStep

\* A registered message is remembered.
LEMMA RememberedStep ==
  ASSUME IInv, [Next]_vars, NEW n \in Msgs, n \in known'
  PROVE  n \in raced' \/ row'[home'[n]].due \/ Carried(n)'
<1> DEFINE Goal == n \in raced' \/ row'[home'[n]].due \/ Carried(n)'
<1> USE DEF IInv
<1>1. CASE UNCHANGED vars
  BY <1>1, StillRemembered, Sent DEF vars
<1>2. \A m \in Msgs, s \in Sessions : Send(m, s) => Goal
  BY SendDoes, StillRemembered, Sent DEF queue, ghosts
<1>3. \A m \in Msgs : Store(m) => Goal
  BY StoreDoes, StillRemembered, Sent DEF queue, ghosts
<1>4. ASSUME NEW m \in Msgs, Register(m)
      PROVE  Goal
  <2>1. /\ m \in said /\ known' = known \cup {m} /\ home' = home
        /\ raced \subseteq raced' /\ (m \in raced => Of(home[m]) \cap known \subseteq raced')
        /\ row'[home[m]].due <=> m \notin raced
        /\ \A z \in Sessions \ {home[m]} : row'[z] = row[z]
    BY <1>4, RegisterDoes
  <2>2. CASE n = m
    BY <2>1, <2>2
  <2>3. CASE n # m
    <3>1. n \in known /\ home[n] \in Sessions
      BY <2>1, <2>3, Sent
    <3>2. CASE home[n] # home[m]
      BY <2>1, <3>1, <3>2, StillRemembered
    <3>3. CASE home[n] = home[m]
      BY <2>1, <3>1, <3>3 DEF Of
    <3> QED
      BY <3>2, <3>3
  <2> QED
    BY <2>2, <2>3
<1>5. ASSUME NEW m \in Msgs, RegisterFails(m)
      PROVE  Goal
  <2>1. /\ known' = known \cup {m} /\ lost' = lost \cup {m} /\ row' = row
    BY <1>5, RegisterFailsDoes
  <2>2. CASE n = m
    BY <2>1, <2>2 DEF Carried
  <2>3. CASE n # m
    BY <2>1, <2>3, StillRemembered
  <2> QED
    BY <2>2, <2>3
<1>6. \A s \in Sessions : Age(s) => Goal
  BY AgeDoes, StillRemembered, Sent DEF messages, queue, ghosts
<1>7. \A s \in Sessions : Fire(s) => Goal
  BY FireDoes, StillRemembered, Sent DEF messages, queue, ghosts, Putting
<1>8. \A s \in Sessions : Check(s) => Goal
  BY CheckDoes, StillRemembered, Sent DEF messages, queue, Putting, Gone, Due
<1>9. \A k \in Sweeps : List(k) => Goal
  BY ListDoes, StillRemembered, Sent DEF messages, queue, Putting, Due
<1>10. \A e \in Enqueuers : Turn(e) => Goal
  BY TurnDoes, StillRemembered, Sent DEF messages, queue, ghosts, Putting, Gone
<1>11. \A e \in Enqueuers : Insert(e) => Goal
  BY InsertDoes, StillRemembered, Sent DEF messages, ghosts, Putting, Moved
<1>12. \A e \in Enqueuers : Push(e) => Goal
  BY PushDoes, StillRemembered, Sent DEF messages, ghosts, Putting, Moved
<1>13. \A e \in Enqueuers : Note(e) => Goal
  BY NoteDoes, StillRemembered, Sent DEF messages, queue, ghosts, Putting, Moved
<1>14. ASSUME NEW e \in Enqueuers, Mark(e)
      PROVE  Goal
  <2>1. /\ known' = known /\ home' = home /\ settled' = settled
        /\ enq[e].pc = "mark" /\ enq[e].at \in Sessions
        /\ row[enq[e].at].due => /\ Of(enq[e].at) \ enq[e].seen \subseteq raced'
                                 /\ enq[e].ok \/ Of(enq[e].at) \ settled \subseteq lost'
        /\ \A z \in Sessions \ {enq[e].at} : row'[z] = row[z]
    BY <1>14, MarkDoes DEF messages
  <2>2. n \in known /\ home[n] \in Sessions /\ n \in said
    BY <2>1, Sent
  <2>3. CASE home[n] # enq[e].at
    BY <2>1, <2>2, <2>3, StillRemembered
  <2>4. CASE home[n] = enq[e].at /\ row[enq[e].at].due
    <3>1. n \in Of(enq[e].at)
      BY <2>4 DEF Of
    <3>2. CASE n \notin enq[e].seen
      BY <2>1, <2>4, <3>1, <3>2
    <3>3. CASE n \in enq[e].seen /\ enq[e].ok
      <4>1. Carried(n)
        BY <2>1, <3>1, <3>3 DEF Remembered
      <4> QED
        BY <2>2, <4>1, CarriedStep
    <3>4. CASE ~ enq[e].ok
      <4>1. n \in settled' \cup lost' \cup left'
        BY <2>1, <2>4, <3>1, <3>4
      <4> QED
        BY <4>1 DEF Carried
    <3> QED
      BY <3>2, <3>3, <3>4
  <2>5. CASE home[n] = enq[e].at /\ ~ row[enq[e].at].due
    BY <2>2, <2>5, StillRemembered
  <2> QED
    BY <2>3, <2>4, <2>5
<1>15. \A e \in Enqueuers : PushFails(e) => Goal
  BY PushFailsDoes, StillRemembered, Sent DEF messages, queue, ghosts, Putting, Moved
<1>16. \A e \in Enqueuers : EnqueueFails(e) => Goal
  BY EnqueueFailsDoes, StillRemembered, Sent DEF messages, queue, ghosts, Putting, Gone
<1>17. Restart => Goal
  BY RestartDoes, StillRemembered, Sent DEF messages, queue, ghosts, Gone
<1>18. \A w \in Workers : ReadGroup(w) => Goal
  BY ReadGroupDoes, StillRemembered, Sent DEF messages, ghosts, Giving
<1>19. \A w \in Workers : Fetch(w) => Goal
  BY FetchDoes, StillRemembered, Sent DEF messages, ghosts, Giving, Going
<1>20. \A w \in Workers : Start(w) => Goal
  BY StartDoes, StillRemembered, Sent DEF messages, ghosts, Giving, Going
<1>21. \A w \in Workers : Search(w) => Goal
  BY SearchDoes, StillRemembered, Sent DEF messages, Giving, Going
<1>22. \A w \in Workers : Archive(w) => Goal
  BY ArchiveDoes, StillRemembered, Sent DEF Giving, Going
<1>23. \A w \in Workers : Persist(w) => Goal
  BY PersistDoes, StillRemembered, Sent DEF messages, Giving, Going
<1>24. \A w \in Workers : Complete(w) => Goal
  BY CompleteDoes, StillRemembered, Sent DEF messages, ghosts, Giving, Going
<1>25. \A w \in Workers : Ack(w) => Goal
  BY AckDoes, StillRemembered, Sent DEF messages, ghosts, Giving, Free
<1>26. \A w \in Workers : Raises(w) => Goal
  BY RaisesDoes, StillRemembered, Sent DEF messages, Giving, Going
<1>27. \A w \in Workers : GivesUp(w) => Goal
  BY GivesUpDoes, StillRemembered, Sent DEF messages, Giving, Free
<1> QED
  BY <1>1, <1>2, <1>3, <1>4, <1>5, <1>6, <1>7, <1>8, <1>9, <1>10, <1>11, <1>12, <1>13,
     <1>14, <1>15, <1>16, <1>17, <1>18, <1>19, <1>20, <1>21, <1>22, <1>23, <1>24, <1>25,
     <1>26, <1>27 DEF Next, Enqueue, Work, Faults, Raises, GivesUp

\* A message whose task is pushed is on its way.
LEMMA PushedStep ==
  ASSUME IInv, [Next]_vars, NEW f \in Enqueuers,
         enq'[f].pc = "note" \/ (enq'[f].pc = "mark" /\ enq'[f].ok),
         NEW n \in Msgs, n \in enq'[f].seen, home'[n] = enq'[f].at
  PROVE  Carried(n)'
<1> USE DEF IInv, Remembered, Of
<1>1. CASE UNCHANGED vars
  BY <1>1, CarriedStep, SentStep, Sent, SeenKnown DEF vars
<1>2. \A m \in Msgs, s \in Sessions : Send(m, s) => Carried(n)'
  BY SendDoes, CarriedStep, SentStep, Sent, SeenKnown DEF queue, ghosts
<1>3. \A m \in Msgs : Store(m) => Carried(n)'
  BY StoreDoes, CarriedStep, SentStep, Sent, SeenKnown DEF queue, ghosts
<1>4. \A m \in Msgs : Register(m) => Carried(n)'
  BY RegisterDoes, CarriedStep, SentStep, Sent, SeenKnown DEF queue
<1>5. \A m \in Msgs : RegisterFails(m) => Carried(n)'
  BY RegisterFailsDoes, CarriedStep, SentStep, Sent, SeenKnown DEF queue
<1>6. \A s \in Sessions : Age(s) => Carried(n)'
  BY AgeDoes, CarriedStep, SentStep, Sent, SeenKnown DEF messages, queue, ghosts
<1>7. \A s \in Sessions : Fire(s) => Carried(n)'
  BY FireDoes, CarriedStep, SentStep, Sent, SeenKnown DEF messages, queue, ghosts,
     Putting
<1>8. \A s \in Sessions : Check(s) => Carried(n)'
  BY CheckDoes, CarriedStep, SentStep, Sent, SeenKnown DEF messages, queue, Putting,
     Gone, Due
<1>9. \A k \in Sweeps : List(k) => Carried(n)'
  BY ListDoes, CarriedStep, SentStep, Sent, SeenKnown DEF messages, queue, Putting, Due
<1>10. \A e \in Enqueuers : Turn(e) => Carried(n)'
  BY TurnDoes, CarriedStep, SentStep, Sent, SeenKnown DEF messages, queue, ghosts,
     Putting, Gone
<1>11. \A e \in Enqueuers : Insert(e) => Carried(n)'
  BY InsertDoes, CarriedStep, SentStep, Sent, SeenKnown DEF messages, ghosts, Putting,
     Moved
<1>12. ASSUME NEW e \in Enqueuers, Push(e)
      PROVE  Carried(n)'
  <2> HIDE DEF Remembered, Of
  <2>1. /\ Putting(e) /\ enq[e].pc = "push" /\ Moved(e) /\ home' = home
        /\ task' = task /\ In(stream', enq[e].task)
        /\ settled' = settled /\ lost' = lost /\ left' = left /\ kept' = kept
    BY <1>12, PushDoes DEF messages, ghosts
  <2>2. CASE f # e
    <3>1. enq'[f] = enq[f]
      BY <2>1, <2>2 DEF Putting
    <3>2. Carried(n) /\ n \in known
      BY <2>1, <3>1, Sent, SeenKnown DEF Remembered, Of
    <3> QED
      BY <3>2, CarriedStep
  <2>3. CASE f = e
    <3>1. /\ n \in enq[e].seen /\ home[n] = enq[e].at /\ Past(e) /\ enq[e].at \in Sessions
          /\ enq[e].task \in Tasks /\ task[enq[e].task].of = enq[e].at
      BY <2>1, <2>3 DEF Moved, Past, Shape, EnqOf
    <3>2. n \in kept \cup settled \cup lost \cup left
      BY <3>1 DEF Stored, Of
    <3>3. OnItsWay(n)'
      <4>1. PICK t \in Tasks : t = enq[e].task
        BY <3>1
      <4>2. Bears(t, n)' /\ task'[t].of = home'[n]
        BY <2>1, <3>1, <4>1, BearsIn
      <4> QED
        BY <4>2, TypeStep, BearsWayNext
    <3> QED
      BY <2>1, <3>2, <3>3 DEF Carried
  <2> QED
    BY <2>2, <2>3
<1>13. \A e \in Enqueuers : Note(e) => Carried(n)'
  BY NoteDoes, CarriedStep, SentStep, Sent, SeenKnown DEF messages, queue, ghosts,
     Putting, Moved
<1>14. \A e \in Enqueuers : Mark(e) => Carried(n)'
  BY MarkDoes, CarriedStep, SentStep, Sent, SeenKnown DEF messages, queue, Putting, Gone
<1>15. \A e \in Enqueuers : PushFails(e) => Carried(n)'
  BY PushFailsDoes, CarriedStep, SentStep, Sent, SeenKnown DEF messages, queue, ghosts,
     Putting, Moved
<1>16. \A e \in Enqueuers : EnqueueFails(e) => Carried(n)'
  BY EnqueueFailsDoes, CarriedStep, SentStep, Sent, SeenKnown DEF messages, queue,
     ghosts, Putting, Gone
<1>17. Restart => Carried(n)'
  BY RestartDoes, CarriedStep, SentStep, Sent, SeenKnown DEF messages, queue, ghosts,
     Gone
<1>18. \A w \in Workers : ReadGroup(w) => Carried(n)'
  BY ReadGroupDoes, CarriedStep, SentStep, Sent, SeenKnown DEF messages, ghosts, Giving
<1>19. \A w \in Workers : Fetch(w) => Carried(n)'
  BY FetchDoes, CarriedStep, SentStep, Sent, SeenKnown DEF messages, ghosts, Giving,
     Going
<1>20. \A w \in Workers : Start(w) => Carried(n)'
  BY StartDoes, CarriedStep, SentStep, Sent, SeenKnown DEF messages, ghosts, Giving,
     Going
<1>21. \A w \in Workers : Search(w) => Carried(n)'
  BY SearchDoes, CarriedStep, SentStep, Sent, SeenKnown DEF messages, Giving,
     Going
<1>22. \A w \in Workers : Archive(w) => Carried(n)'
  BY ArchiveDoes, CarriedStep, SentStep, Sent, SeenKnown DEF Giving, Going
<1>23. \A w \in Workers : Persist(w) => Carried(n)'
  BY PersistDoes, CarriedStep, SentStep, Sent, SeenKnown DEF messages, Giving, Going
<1>24. \A w \in Workers : Complete(w) => Carried(n)'
  BY CompleteDoes, CarriedStep, SentStep, Sent, SeenKnown DEF messages, ghosts, Giving,
     Going
<1>25. \A w \in Workers : Ack(w) => Carried(n)'
  BY AckDoes, CarriedStep, SentStep, Sent, SeenKnown DEF messages, ghosts, Giving, Free
<1>26. \A w \in Workers : Raises(w) => Carried(n)'
  BY RaisesDoes, CarriedStep, SentStep, Sent, SeenKnown DEF messages, Giving,
     Going
<1>27. \A w \in Workers : GivesUp(w) => Carried(n)'
  BY GivesUpDoes, CarriedStep, SentStep, Sent, SeenKnown DEF messages, Giving, Free
<1> QED
  BY <1>1, <1>2, <1>3, <1>4, <1>5, <1>6, <1>7, <1>8, <1>9, <1>10, <1>11, <1>12, <1>13,
     <1>14, <1>15, <1>16, <1>17, <1>18, <1>19, <1>20, <1>21, <1>22, <1>23, <1>24, <1>25,
     <1>26, <1>27 DEF Next, Enqueue, Work, Faults, Raises, GivesUp

-----------------------------------------------------------------------------
\* Queueing.

\* A session that is in hand was so or is taken.
LEMMA HandStep ==
  ASSUME IInv, [Next]_vars, NEW f \in Enqueuers, NEW z \in Sessions, InHandOf(f, z)'
  PROVE  InHandOf(f, z) \/ Takes(f, z)
<1> DEFINE Goal == InHandOf(f, z) \/ Takes(f, z)
<1> USE DEF IInv, InHandOf, Past
<1>1. CASE UNCHANGED vars
  BY <1>1, DnaSessionsAssumption DEF vars
<1>2. \A m \in Msgs, s \in Sessions : Send(m, s) => Goal
  BY SendDoes, DnaSessionsAssumption DEF queue, ghosts
<1>3. \A m \in Msgs : Store(m) => Goal
  BY StoreDoes, DnaSessionsAssumption DEF queue, ghosts
<1>4. \A m \in Msgs : Register(m) => Goal
  BY RegisterDoes, DnaSessionsAssumption DEF queue
<1>5. \A m \in Msgs : RegisterFails(m) => Goal
  BY RegisterFailsDoes, DnaSessionsAssumption DEF queue
<1>6. \A s \in Sessions : Age(s) => Goal
  BY AgeDoes, DnaSessionsAssumption DEF messages, queue, ghosts
<1>7. \A s \in Sessions : Fire(s) => Goal
  BY FireDoes, DnaSessionsAssumption DEF messages, queue, ghosts, Putting
<1>8. ASSUME NEW s \in Sessions, Check(s)
      PROVE  Goal
  <2> HIDE DEF InHandOf, Past
  <2>1. Putting(s) /\ s \in Enqueuers /\ (f # s => enq'[f] = enq[f])
    BY <1>8, CheckDoes DEF Putting
  <2>2. CASE f # s
    BY <2>1, <2>2 DEF InHandOf, Past
  <2>3. CASE f = s
    <3>1. /\ Due(s) /\ z = s /\ ~ Past(f) /\ Past(f)' /\ ~ Inserted(f, z)'
          /\ enq'[f].seen \cap Of(z) = known \cap Of(z)
          /\ overlap' = overlap \cup (InHand(f) \cap {z})
      BY <1>8, <2>3, CheckDoes DEF InHandOf, Past, Inserted, Gone
    <3>2. \A g \in Enqueuers \ {f} : enq'[g] = enq[g] /\ (InHandOf(g, z) => z \in InHand(f))
      BY <2>1, <2>3 DEF Putting, InHandOf, InHand
    <3> QED
      BY <1>8, <2>3, <3>1, <3>2, CheckDoes DEF Takes, messages, queue
  <2> QED
    BY <2>2, <2>3
<1>9. ASSUME NEW k \in Sweeps, List(k)
      PROVE  Goal
  <2> HIDE DEF InHandOf, Past
  <2>1. Putting(k) /\ k \in Enqueuers /\ (f # k => enq'[f] = enq[f])
    BY <1>9, ListDoes DEF Putting
  <2>2. CASE f # k
    BY <2>1, <2>2 DEF InHandOf, Past
  <2>3. CASE f = k
    <3>1. z \in enq'[f].todo
      BY <1>9, <2>3, ListDoes, DnaSessionsAssumption DEF InHandOf
    <3>2. /\ Due(z) /\ ~ Past(f) /\ Past(f)' /\ ~ Inserted(f, z)'
          /\ enq'[f].seen \cap Of(z) = known \cap Of(z)
          /\ overlap' = overlap \cup (InHand(f) \cap enq'[f].todo)
      BY <1>9, <2>3, <3>1, ListDoes DEF Past, Inserted
    <3>3. \A g \in Enqueuers \ {f} : enq'[g] = enq[g] /\ (InHandOf(g, z) => z \in InHand(f))
      BY <2>1, <2>3 DEF Putting, InHandOf, InHand
    <3> QED
      BY <1>9, <2>3, <3>1, <3>2, <3>3, ListDoes DEF Takes, messages, queue
  <2> QED
    BY <2>2, <2>3
<1>10. \A e \in Enqueuers : Turn(e) => Goal
  BY TurnDoes, DnaSessionsAssumption DEF messages, queue, ghosts, Putting, Gone
<1>11. \A e \in Enqueuers : Insert(e) => Goal
  BY InsertDoes, DnaSessionsAssumption DEF messages, ghosts, Putting, Moved
<1>12. \A e \in Enqueuers : Push(e) => Goal
  BY PushDoes, DnaSessionsAssumption DEF messages, ghosts, Putting, Moved
<1>13. \A e \in Enqueuers : Note(e) => Goal
  BY NoteDoes, DnaSessionsAssumption DEF messages, queue, ghosts, Putting, Moved
<1>14. \A e \in Enqueuers : Mark(e) => Goal
  BY MarkDoes, DnaSessionsAssumption DEF messages, queue, Putting, Gone
<1>15. \A e \in Enqueuers : PushFails(e) => Goal
  BY PushFailsDoes, DnaSessionsAssumption DEF messages, queue, ghosts, Putting, Moved
<1>16. \A e \in Enqueuers : EnqueueFails(e) => Goal
  BY EnqueueFailsDoes, DnaSessionsAssumption DEF messages, queue, ghosts, Putting, Gone
<1>17. Restart => Goal
  BY RestartDoes, DnaSessionsAssumption DEF messages, queue, ghosts, Gone
<1>18. \A w \in Workers : ReadGroup(w) => Goal
  BY ReadGroupDoes, DnaSessionsAssumption DEF messages, ghosts, Giving
<1>19. \A w \in Workers : Fetch(w) => Goal
  BY FetchDoes, DnaSessionsAssumption DEF messages, ghosts, Giving, Going
<1>20. \A w \in Workers : Start(w) => Goal
  BY StartDoes, DnaSessionsAssumption DEF messages, ghosts, Giving, Going
<1>21. \A w \in Workers : Search(w) => Goal
  BY SearchDoes, DnaSessionsAssumption DEF messages, Giving, Going
<1>22. \A w \in Workers : Archive(w) => Goal
  BY ArchiveDoes, DnaSessionsAssumption DEF Giving, Going
<1>23. \A w \in Workers : Persist(w) => Goal
  BY PersistDoes, DnaSessionsAssumption DEF messages, Giving, Going
<1>24. \A w \in Workers : Complete(w) => Goal
  BY CompleteDoes, DnaSessionsAssumption DEF messages, ghosts, Giving, Going
<1>25. \A w \in Workers : Ack(w) => Goal
  BY AckDoes, DnaSessionsAssumption DEF messages, ghosts, Giving, Free
<1>26. \A w \in Workers : Raises(w) => Goal
  BY RaisesDoes, DnaSessionsAssumption DEF messages, Giving, Going
<1>27. \A w \in Workers : GivesUp(w) => Goal
  BY GivesUpDoes, DnaSessionsAssumption DEF messages, Giving, Free
<1> QED
  BY <1>1, <1>2, <1>3, <1>4, <1>5, <1>6, <1>7, <1>8, <1>9, <1>10, <1>11, <1>12, <1>13,
     <1>14, <1>15, <1>16, <1>17, <1>18, <1>19, <1>20, <1>21, <1>22, <1>23, <1>24, <1>25,
     <1>26, <1>27 DEF Next, Enqueue, Work, Faults, Raises, GivesUp

\* An enqueuer keeps what it has in hand as it is.
LEMMA SeenStep ==
  ASSUME IInv, [Next]_vars, NEW f \in Enqueuers, NEW z \in Sessions, InHandOf(f, z),
         InHandOf(f, z)'
  PROVE  enq'[f].seen = enq[f].seen
<1> USE DEF IInv, InHandOf, Past, Shape, EnqOf
<1>1. CASE UNCHANGED vars
  BY <1>1, DnaSessionsAssumption DEF vars
<1>2. \A m \in Msgs, s \in Sessions : Send(m, s) => enq'[f].seen = enq[f].seen
  BY SendDoes, DnaSessionsAssumption DEF queue, ghosts
<1>3. \A m \in Msgs : Store(m) => enq'[f].seen = enq[f].seen
  BY StoreDoes, DnaSessionsAssumption DEF queue, ghosts
<1>4. \A m \in Msgs : Register(m) => enq'[f].seen = enq[f].seen
  BY RegisterDoes, DnaSessionsAssumption DEF queue
<1>5. \A m \in Msgs : RegisterFails(m) => enq'[f].seen = enq[f].seen
  BY RegisterFailsDoes, DnaSessionsAssumption DEF queue
<1>6. \A s \in Sessions : Age(s) => enq'[f].seen = enq[f].seen
  BY AgeDoes, DnaSessionsAssumption DEF messages, queue, ghosts
<1>7. \A s \in Sessions : Fire(s) => enq'[f].seen = enq[f].seen
  BY FireDoes, DnaSessionsAssumption DEF messages, queue, ghosts, Putting
<1>8. \A s \in Sessions : Check(s) => enq'[f].seen = enq[f].seen
  BY CheckDoes, DnaSessionsAssumption DEF messages, queue, Putting, Gone, Due
<1>9. \A k \in Sweeps : List(k) => enq'[f].seen = enq[f].seen
  BY ListDoes, DnaSessionsAssumption DEF messages, queue, Putting, Due
<1>10. \A e \in Enqueuers : Turn(e) => enq'[f].seen = enq[f].seen
  BY TurnDoes, DnaSessionsAssumption DEF messages, queue, ghosts, Putting, Gone
<1>11. \A e \in Enqueuers : Insert(e) => enq'[f].seen = enq[f].seen
  BY InsertDoes, DnaSessionsAssumption DEF messages, ghosts, Putting, Moved
<1>12. \A e \in Enqueuers : Push(e) => enq'[f].seen = enq[f].seen
  BY PushDoes, DnaSessionsAssumption DEF messages, ghosts, Putting, Moved
<1>13. \A e \in Enqueuers : Note(e) => enq'[f].seen = enq[f].seen
  BY NoteDoes, DnaSessionsAssumption DEF messages, queue, ghosts, Putting, Moved
<1>14. \A e \in Enqueuers : Mark(e) => enq'[f].seen = enq[f].seen
  BY MarkDoes, DnaSessionsAssumption DEF messages, queue, Putting, Gone
<1>15. \A e \in Enqueuers : PushFails(e) => enq'[f].seen = enq[f].seen
  BY PushFailsDoes, DnaSessionsAssumption DEF messages, queue, ghosts, Putting, Moved
<1>16. \A e \in Enqueuers : EnqueueFails(e) => enq'[f].seen = enq[f].seen
  BY EnqueueFailsDoes, DnaSessionsAssumption DEF messages, queue, ghosts, Putting, Gone
<1>17. Restart => enq'[f].seen = enq[f].seen
  BY RestartDoes, DnaSessionsAssumption DEF messages, queue, ghosts, Gone
<1>18. \A w \in Workers : ReadGroup(w) => enq'[f].seen = enq[f].seen
  BY ReadGroupDoes, DnaSessionsAssumption DEF messages, ghosts, Giving
<1>19. \A w \in Workers : Fetch(w) => enq'[f].seen = enq[f].seen
  BY FetchDoes, DnaSessionsAssumption DEF messages, ghosts, Giving, Going
<1>20. \A w \in Workers : Start(w) => enq'[f].seen = enq[f].seen
  BY StartDoes, DnaSessionsAssumption DEF messages, ghosts, Giving, Going
<1>21. \A w \in Workers : Search(w) => enq'[f].seen = enq[f].seen
  BY SearchDoes, DnaSessionsAssumption DEF messages, Giving, Going
<1>22. \A w \in Workers : Archive(w) => enq'[f].seen = enq[f].seen
  BY ArchiveDoes, DnaSessionsAssumption DEF Giving, Going
<1>23. \A w \in Workers : Persist(w) => enq'[f].seen = enq[f].seen
  BY PersistDoes, DnaSessionsAssumption DEF messages, Giving, Going
<1>24. \A w \in Workers : Complete(w) => enq'[f].seen = enq[f].seen
  BY CompleteDoes, DnaSessionsAssumption DEF messages, ghosts, Giving, Going
<1>25. \A w \in Workers : Ack(w) => enq'[f].seen = enq[f].seen
  BY AckDoes, DnaSessionsAssumption DEF messages, ghosts, Giving, Free
<1>26. \A w \in Workers : Raises(w) => enq'[f].seen = enq[f].seen
  BY RaisesDoes, DnaSessionsAssumption DEF messages, Giving, Going
<1>27. \A w \in Workers : GivesUp(w) => enq'[f].seen = enq[f].seen
  BY GivesUpDoes, DnaSessionsAssumption DEF messages, Giving, Free
<1> QED
  BY <1>1, <1>2, <1>3, <1>4, <1>5, <1>6, <1>7, <1>8, <1>9, <1>10, <1>11, <1>12, <1>13,
     <1>14, <1>15, <1>16, <1>17, <1>18, <1>19, <1>20, <1>21, <1>22, <1>23, <1>24, <1>25,
     <1>26, <1>27 DEF Next, Enqueue, Work, Faults, Raises, GivesUp

LEMMA InsertedStep ==
  ASSUME IInv, [Next]_vars, NEW f \in Enqueuers, NEW z \in Sessions, InHandOf(f, z),
         InHandOf(f, z)', Inserted(f, z)
  PROVE  Inserted(f, z)' /\ enq'[f].task = enq[f].task
<1> DEFINE Goal == Inserted(f, z)' /\ enq'[f].task = enq[f].task
<1> USE DEF IInv, InHandOf, Past, Inserted, Shape, EnqOf
<1>1. CASE UNCHANGED vars
  BY <1>1, DnaSessionsAssumption DEF vars
<1>2. \A m \in Msgs, s \in Sessions : Send(m, s) => Goal
  BY SendDoes, DnaSessionsAssumption DEF queue, ghosts
<1>3. \A m \in Msgs : Store(m) => Goal
  BY StoreDoes, DnaSessionsAssumption DEF queue, ghosts
<1>4. \A m \in Msgs : Register(m) => Goal
  BY RegisterDoes, DnaSessionsAssumption DEF queue
<1>5. \A m \in Msgs : RegisterFails(m) => Goal
  BY RegisterFailsDoes, DnaSessionsAssumption DEF queue
<1>6. \A s \in Sessions : Age(s) => Goal
  BY AgeDoes, DnaSessionsAssumption DEF messages, queue, ghosts
<1>7. \A s \in Sessions : Fire(s) => Goal
  BY FireDoes, DnaSessionsAssumption DEF messages, queue, ghosts, Putting
<1>8. \A s \in Sessions : Check(s) => Goal
  BY CheckDoes, DnaSessionsAssumption DEF messages, queue, Putting, Gone, Due
<1>9. \A k \in Sweeps : List(k) => Goal
  BY ListDoes, DnaSessionsAssumption DEF messages, queue, Putting, Due
<1>10. \A e \in Enqueuers : Turn(e) => Goal
  BY TurnDoes, DnaSessionsAssumption DEF messages, queue, ghosts, Putting, Gone
<1>11. \A e \in Enqueuers : Insert(e) => Goal
  BY InsertDoes, DnaSessionsAssumption DEF messages, ghosts, Putting, Moved
<1>12. \A e \in Enqueuers : Push(e) => Goal
  BY PushDoes, DnaSessionsAssumption DEF messages, ghosts, Putting, Moved
<1>13. \A e \in Enqueuers : Note(e) => Goal
  BY NoteDoes, DnaSessionsAssumption DEF messages, queue, ghosts, Putting, Moved
<1>14. \A e \in Enqueuers : Mark(e) => Goal
  BY MarkDoes, DnaSessionsAssumption DEF messages, queue, Putting, Gone
<1>15. \A e \in Enqueuers : PushFails(e) => Goal
  BY PushFailsDoes, DnaSessionsAssumption DEF messages, queue, ghosts, Putting, Moved
<1>16. \A e \in Enqueuers : EnqueueFails(e) => Goal
  BY EnqueueFailsDoes, DnaSessionsAssumption DEF messages, queue, ghosts, Putting, Gone
<1>17. Restart => Goal
  BY RestartDoes, DnaSessionsAssumption DEF messages, queue, ghosts, Gone
<1>18. \A w \in Workers : ReadGroup(w) => Goal
  BY ReadGroupDoes, DnaSessionsAssumption DEF messages, ghosts, Giving
<1>19. \A w \in Workers : Fetch(w) => Goal
  BY FetchDoes, DnaSessionsAssumption DEF messages, ghosts, Giving, Going
<1>20. \A w \in Workers : Start(w) => Goal
  BY StartDoes, DnaSessionsAssumption DEF messages, ghosts, Giving, Going
<1>21. \A w \in Workers : Search(w) => Goal
  BY SearchDoes, DnaSessionsAssumption DEF messages, Giving, Going
<1>22. \A w \in Workers : Archive(w) => Goal
  BY ArchiveDoes, DnaSessionsAssumption DEF Giving, Going
<1>23. \A w \in Workers : Persist(w) => Goal
  BY PersistDoes, DnaSessionsAssumption DEF messages, Giving, Going
<1>24. \A w \in Workers : Complete(w) => Goal
  BY CompleteDoes, DnaSessionsAssumption DEF messages, ghosts, Giving, Going
<1>25. \A w \in Workers : Ack(w) => Goal
  BY AckDoes, DnaSessionsAssumption DEF messages, ghosts, Giving, Free
<1>26. \A w \in Workers : Raises(w) => Goal
  BY RaisesDoes, DnaSessionsAssumption DEF messages, Giving, Going
<1>27. \A w \in Workers : GivesUp(w) => Goal
  BY GivesUpDoes, DnaSessionsAssumption DEF messages, Giving, Free
<1> QED
  BY <1>1, <1>2, <1>3, <1>4, <1>5, <1>6, <1>7, <1>8, <1>9, <1>10, <1>11, <1>12, <1>13,
     <1>14, <1>15, <1>16, <1>17, <1>18, <1>19, <1>20, <1>21, <1>22, <1>23, <1>24, <1>25,
     <1>26, <1>27 DEF Next, Enqueue, Work, Faults, Raises, GivesUp

\* It lets a session go when it has marked it, or by a fault.
LEMMA HandLeavesStep ==
  ASSUME IInv, [Next]_vars, NEW f \in Enqueuers, NEW z \in Sessions, InHandOf(f, z), ~
         InHandOf(f, z)'
  PROVE  ~ row'[z].due \/ faults' > 0
<1> DEFINE Goal == ~ row'[z].due \/ faults' > 0
<1> USE DEF IInv, InHandOf, Past, Shape, EnqOf
<1>1. CASE UNCHANGED vars
  BY <1>1, DnaSessionsAssumption DEF vars
<1>2. \A m \in Msgs, s \in Sessions : Send(m, s) => Goal
  BY SendDoes, DnaSessionsAssumption DEF queue, ghosts
<1>3. \A m \in Msgs : Store(m) => Goal
  BY StoreDoes, DnaSessionsAssumption DEF queue, ghosts
<1>4. \A m \in Msgs : Register(m) => Goal
  BY RegisterDoes, DnaSessionsAssumption DEF queue
<1>5. \A m \in Msgs : RegisterFails(m) => Goal
  BY RegisterFailsDoes, DnaSessionsAssumption DEF queue
<1>6. \A s \in Sessions : Age(s) => Goal
  BY AgeDoes, DnaSessionsAssumption DEF messages, queue, ghosts
<1>7. \A s \in Sessions : Fire(s) => Goal
  BY FireDoes, DnaSessionsAssumption DEF messages, queue, ghosts, Putting
<1>8. \A s \in Sessions : Check(s) => Goal
  BY CheckDoes, DnaSessionsAssumption DEF messages, queue, Putting, Gone, Due
<1>9. \A k \in Sweeps : List(k) => Goal
  BY ListDoes, DnaSessionsAssumption DEF messages, queue, Putting, Due
<1>10. \A e \in Enqueuers : Turn(e) => Goal
  BY TurnDoes, DnaSessionsAssumption DEF messages, queue, ghosts, Putting, Gone
<1>11. \A e \in Enqueuers : Insert(e) => Goal
  BY InsertDoes, DnaSessionsAssumption DEF messages, ghosts, Putting, Moved
<1>12. \A e \in Enqueuers : Push(e) => Goal
  BY PushDoes, DnaSessionsAssumption DEF messages, ghosts, Putting, Moved
<1>13. \A e \in Enqueuers : Note(e) => Goal
  BY NoteDoes, DnaSessionsAssumption DEF messages, queue, ghosts, Putting, Moved
<1>14. \A e \in Enqueuers : Mark(e) => Goal
  BY MarkDoes, DnaSessionsAssumption DEF messages, queue, Putting, Gone
<1>15. \A e \in Enqueuers : PushFails(e) => Goal
  BY PushFailsDoes, DnaSessionsAssumption DEF messages, queue, ghosts, Putting, Moved
<1>16. \A e \in Enqueuers : EnqueueFails(e) => Goal
  BY EnqueueFailsDoes, DnaSessionsAssumption DEF messages, queue, ghosts, Putting, Gone
<1>17. Restart => Goal
  BY RestartDoes, DnaSessionsAssumption DEF messages, queue, ghosts, Gone
<1>18. \A w \in Workers : ReadGroup(w) => Goal
  BY ReadGroupDoes, DnaSessionsAssumption DEF messages, ghosts, Giving
<1>19. \A w \in Workers : Fetch(w) => Goal
  BY FetchDoes, DnaSessionsAssumption DEF messages, ghosts, Giving, Going
<1>20. \A w \in Workers : Start(w) => Goal
  BY StartDoes, DnaSessionsAssumption DEF messages, ghosts, Giving, Going
<1>21. \A w \in Workers : Search(w) => Goal
  BY SearchDoes, DnaSessionsAssumption DEF messages, Giving, Going
<1>22. \A w \in Workers : Archive(w) => Goal
  BY ArchiveDoes, DnaSessionsAssumption DEF Giving, Going
<1>23. \A w \in Workers : Persist(w) => Goal
  BY PersistDoes, DnaSessionsAssumption DEF messages, Giving, Going
<1>24. \A w \in Workers : Complete(w) => Goal
  BY CompleteDoes, DnaSessionsAssumption DEF messages, ghosts, Giving, Going
<1>25. \A w \in Workers : Ack(w) => Goal
  BY AckDoes, DnaSessionsAssumption DEF messages, ghosts, Giving, Free
<1>26. \A w \in Workers : Raises(w) => Goal
  BY RaisesDoes, DnaSessionsAssumption DEF messages, Giving, Going
<1>27. \A w \in Workers : GivesUp(w) => Goal
  BY GivesUpDoes, DnaSessionsAssumption DEF messages, Giving, Free
<1> QED
  BY <1>1, <1>2, <1>3, <1>4, <1>5, <1>6, <1>7, <1>8, <1>9, <1>10, <1>11, <1>12, <1>13,
     <1>14, <1>15, <1>16, <1>17, <1>18, <1>19, <1>20, <1>21, <1>22, <1>23, <1>24, <1>25,
     <1>26, <1>27 DEF Next, Enqueue, Work, Faults, Raises, GivesUp

\* A session becomes due by a new message.
LEMMA DueStep ==
  ASSUME IInv, [Next]_vars, NEW z \in Sessions, row'[z].due
  PROVE  \/ row[z].due /\ Of(z)' \cap known' = Of(z) \cap known
         \/ \E n \in Msgs : n \in known' \ known /\ home'[n] = z
         \/ faults' > 0
<1> DEFINE Goal == \/ row[z].due /\ Of(z)' \cap known' = Of(z) \cap known
                   \/ \E n \in Msgs : n \in known' \ known /\ home'[n] = z
                   \/ faults' > 0
<1> USE DEF IInv, Of
<1>1. CASE UNCHANGED vars
  BY <1>1, Sent DEF vars
<1>2. \A m \in Msgs, s \in Sessions : Send(m, s) => Goal
  BY SendDoes, Sent DEF queue, ghosts
<1>3. \A m \in Msgs : Store(m) => Goal
  BY StoreDoes, Sent DEF queue, ghosts
<1>4. ASSUME NEW m \in Msgs, Register(m)
      PROVE  Goal
  <2> HIDE DEF Of
  <2>1. /\ home' = home /\ known' = known \cup {m} /\ m \notin known
        /\ \A y \in Sessions \ {home[m]} : row'[y] = row[y]
    BY <1>4, RegisterDoes
  <2>2. CASE z = home[m]
    BY <2>1, <2>2
  <2>3. CASE z # home[m]
    BY <2>1, <2>3 DEF Of
  <2> QED
    BY <2>2, <2>3
<1>5. \A m \in Msgs : RegisterFails(m) => Goal
  BY RegisterFailsDoes, Sent DEF queue
<1>6. \A s \in Sessions : Age(s) => Goal
  BY AgeDoes, Sent DEF messages, queue, ghosts
<1>7. \A s \in Sessions : Fire(s) => Goal
  BY FireDoes, Sent DEF messages, queue, ghosts, Putting
<1>8. \A s \in Sessions : Check(s) => Goal
  BY CheckDoes, Sent DEF messages, queue, Putting, Gone, Due
<1>9. \A k \in Sweeps : List(k) => Goal
  BY ListDoes, Sent DEF messages, queue, Putting, Due
<1>10. \A e \in Enqueuers : Turn(e) => Goal
  BY TurnDoes, Sent DEF messages, queue, ghosts, Putting, Gone
<1>11. \A e \in Enqueuers : Insert(e) => Goal
  BY InsertDoes, Sent DEF messages, ghosts, Putting, Moved
<1>12. \A e \in Enqueuers : Push(e) => Goal
  BY PushDoes, Sent DEF messages, ghosts, Putting, Moved
<1>13. \A e \in Enqueuers : Note(e) => Goal
  BY NoteDoes, Sent DEF messages, queue, ghosts, Putting, Moved
<1>14. \A e \in Enqueuers : Mark(e) => Goal
  BY MarkDoes, Sent DEF messages, queue, Putting, Gone
<1>15. \A e \in Enqueuers : PushFails(e) => Goal
  BY PushFailsDoes, Sent DEF messages, queue, ghosts, Putting, Moved
<1>16. \A e \in Enqueuers : EnqueueFails(e) => Goal
  BY EnqueueFailsDoes, Sent DEF messages, queue, ghosts, Putting, Gone
<1>17. Restart => Goal
  BY RestartDoes, Sent DEF messages, queue, ghosts, Gone
<1>18. \A w \in Workers : ReadGroup(w) => Goal
  BY ReadGroupDoes, Sent DEF messages, ghosts, Giving
<1>19. \A w \in Workers : Fetch(w) => Goal
  BY FetchDoes, Sent DEF messages, ghosts, Giving, Going
<1>20. \A w \in Workers : Start(w) => Goal
  BY StartDoes, Sent DEF messages, ghosts, Giving, Going
<1>21. \A w \in Workers : Search(w) => Goal
  BY SearchDoes, Sent DEF messages, Giving, Going
<1>22. \A w \in Workers : Archive(w) => Goal
  BY ArchiveDoes, Sent DEF Giving, Going
<1>23. \A w \in Workers : Persist(w) => Goal
  BY PersistDoes, Sent DEF messages, Giving, Going
<1>24. \A w \in Workers : Complete(w) => Goal
  BY CompleteDoes, Sent DEF messages, ghosts, Giving, Going
<1>25. \A w \in Workers : Ack(w) => Goal
  BY AckDoes, Sent DEF messages, ghosts, Giving, Free
<1>26. \A w \in Workers : Raises(w) => Goal
  BY RaisesDoes, Sent DEF messages, Giving, Going
<1>27. \A w \in Workers : GivesUp(w) => Goal
  BY GivesUpDoes, Sent DEF messages, Giving, Free
<1> QED
  BY <1>1, <1>2, <1>3, <1>4, <1>5, <1>6, <1>7, <1>8, <1>9, <1>10, <1>11, <1>12, <1>13,
     <1>14, <1>15, <1>16, <1>17, <1>18, <1>19, <1>20, <1>21, <1>22, <1>23, <1>24, <1>25,
     <1>26, <1>27 DEF Next, Enqueue, Work, Faults, Raises, GivesUp

\* A new task is inserted by an enqueuer.
LEMMA AddsStep ==
  ASSUME IInv, [Next]_vars, NEW i \in Tasks, i \in Used', i \notin Used
  PROVE  \E x \in Enqueuers : Adds(x, i)
<1> DEFINE Goal == \E x \in Enqueuers : Adds(x, i)
<1> USE DEF IInv, Used
<1>1. CASE UNCHANGED vars
  BY <1>1 DEF vars
<1>2. \A m \in Msgs, s \in Sessions : Send(m, s) => Goal
  BY SendDoes DEF queue, ghosts
<1>3. \A m \in Msgs : Store(m) => Goal
  BY StoreDoes DEF queue, ghosts
<1>4. \A m \in Msgs : Register(m) => Goal
  BY RegisterDoes DEF queue
<1>5. \A m \in Msgs : RegisterFails(m) => Goal
  BY RegisterFailsDoes DEF queue
<1>6. \A s \in Sessions : Age(s) => Goal
  BY AgeDoes DEF messages, queue, ghosts
<1>7. \A s \in Sessions : Fire(s) => Goal
  BY FireDoes DEF messages, queue, ghosts, Putting
<1>8. \A s \in Sessions : Check(s) => Goal
  BY CheckDoes DEF messages, queue, Putting, Gone, Due
<1>9. \A k \in Sweeps : List(k) => Goal
  BY ListDoes DEF messages, queue, Putting, Due
<1>10. \A e \in Enqueuers : Turn(e) => Goal
  BY TurnDoes DEF messages, queue, ghosts, Putting, Gone
<1>11. ASSUME NEW e \in Enqueuers, Insert(e)
      PROVE  Goal
  <2> HIDE DEF Used
  <2>1. Adds(e, i)
    BY <1>11, InsertDoes DEF Adds, messages, ghosts
  <2> QED
    BY <2>1
<1>12. \A e \in Enqueuers : Push(e) => Goal
  BY PushDoes DEF messages, ghosts, Putting, Moved
<1>13. \A e \in Enqueuers : Note(e) => Goal
  BY NoteDoes DEF messages, queue, ghosts, Putting, Moved
<1>14. \A e \in Enqueuers : Mark(e) => Goal
  BY MarkDoes DEF messages, queue, Putting, Gone
<1>15. \A e \in Enqueuers : PushFails(e) => Goal
  BY PushFailsDoes DEF messages, queue, ghosts, Putting, Moved
<1>16. \A e \in Enqueuers : EnqueueFails(e) => Goal
  BY EnqueueFailsDoes DEF messages, queue, ghosts, Putting, Gone
<1>17. Restart => Goal
  BY RestartDoes DEF messages, queue, ghosts, Gone
<1>18. \A w \in Workers : ReadGroup(w) => Goal
  BY ReadGroupDoes DEF messages, ghosts, Giving
<1>19. \A w \in Workers : Fetch(w) => Goal
  BY FetchDoes DEF messages, ghosts, Giving, Going
<1>20. ASSUME NEW w \in Workers, Start(w)
      PROVE  Goal
  <2> HIDE DEF Used
  <2>1. Used' = Used
    BY <1>20, StartDoes, Reworked
  <2> QED
    BY <2>1
<1>21. \A w \in Workers : Search(w) => Goal
  BY SearchDoes DEF messages, Giving, Going
<1>22. \A w \in Workers : Archive(w) => Goal
  BY ArchiveDoes DEF Giving, Going
<1>23. \A w \in Workers : Persist(w) => Goal
  BY PersistDoes DEF messages, Giving, Going
<1>24. ASSUME NEW w \in Workers, Complete(w)
      PROVE  Goal
  <2> HIDE DEF Used
  <2>1. Used' = Used
    BY <1>24, CompleteDoes, Reworked
  <2> QED
    BY <2>1
<1>25. \A w \in Workers : Ack(w) => Goal
  BY AckDoes DEF messages, ghosts, Giving, Free
<1>26. ASSUME NEW w \in Workers, Raises(w)
      PROVE  Goal
  <2> HIDE DEF Used
  <2>1. Used' = Used
    BY <1>26, RaisesDoes, Reworked
  <2> QED
    BY <2>1
<1>27. \A w \in Workers : GivesUp(w) => Goal
  BY GivesUpDoes DEF messages, Giving, Free
<1> QED
  BY <1>1, <1>2, <1>3, <1>4, <1>5, <1>6, <1>7, <1>8, <1>9, <1>10, <1>11, <1>12, <1>13,
     <1>14, <1>15, <1>16, <1>17, <1>18, <1>19, <1>20, <1>21, <1>22, <1>23, <1>24, <1>25,
     <1>26, <1>27 DEF Next, Enqueue, Work, Faults, Raises, GivesUp

\* Two enqueuers have a session in hand only when they found it at one time.
LEMMA HandsStep ==
  ASSUME IInv, [Next]_vars, NEW f \in Enqueuers, NEW g \in Enqueuers, f # g,
         NEW z \in Sessions, InHandOf(f, z)', InHandOf(g, z)'
  PROVE  Excused(z)'
<1>1. \A h \in {f, g} : InHandOf(h, z) \/ Takes(h, z)
  BY HandStep
<1>2. CASE InHandOf(f, z) /\ InHandOf(g, z)
  BY <1>2, ExcusedStep DEF IInv, Queueing, Excused
<1>3. ASSUME NEW h \in {f, g}, NEW x \in {f, g}, x # h, Takes(h, z)
      PROVE  Excused(z)'
  <2>1. enq'[x] = enq[x] /\ (InHandOf(x, z) => z \in overlap')
    BY <1>3 DEF Takes
  <2>2. InHandOf(x, z)
    BY <2>1 DEF InHandOf, Past
  <2> QED
    BY <2>1, <2>2 DEF Excused
<1> QED
  BY <1>1, <1>2, <1>3

\* What an enqueuer has seen of a session stays the same.
LEMMA SeenOf ==
  ASSUME IInv, [Next]_vars, NEW f \in Enqueuers, NEW z \in Sessions
  PROVE  enq[f].seen \cap Of(z)' = enq[f].seen \cap Of(z)
<1>1. enq[f].seen \subseteq said /\ said \subseteq Msgs
  BY Sent, SeenKnown DEF IInv
<1> QED
  BY <1>1, SentStep DEF Of

\* The task an enqueuer inserts is a new one.
LEMMA TakenStep ==
  ASSUME IInv, [Next]_vars, NEW f \in Enqueuers, NEW z \in Sessions, Takes(f, z),
         NEW i \in Used, task[i].of = z
  PROVE  task'[i].seen # enq'[f].seen \cap Of(z)' \/ Excused(z)'
<1>1. /\ row[z].due /\ ~ Past(f) /\ enq'[f].seen \cap Of(z) = known \cap Of(z)
      /\ \A g \in Enqueuers \ {f} : InHandOf(g, z) => z \in overlap'
      /\ Of(z)' = Of(z) /\ task' = task
  BY DEF Takes, Due, Of
<1>2. CASE \E g \in Enqueuers : InHandOf(g, z)
  <2>1. \E g \in Enqueuers \ {f} : InHandOf(g, z)
    BY <1>1, <1>2 DEF InHandOf
  <2> QED
    BY <1>1, <2>1 DEF Excused
<1>3. CASE \A g \in Enqueuers : ~ InHandOf(g, z)
  <2>1. task[i].seen # Of(z) \cap known \/ Excused(z)
    BY <1>1, <1>3 DEF IInv, Queueing
  <2>2. Excused(z) => Excused(z)'
    BY ExcusedStep DEF Excused
  <2> QED
    BY <1>1, <2>1, <2>2
<1> QED
  BY <1>2, <1>3

LEMMA HeldNewStep ==
  ASSUME IInv, [Next]_vars, NEW f \in Enqueuers, NEW z \in Sessions, NEW i \in Tasks,
         i \in Used', InHandOf(f, z)', task'[i].of = z,
         ~ (Inserted(f, z)' /\ i = enq'[f].task)
  PROVE  task'[i].seen # enq'[f].seen \cap Of(z)' \/ Excused(z)'
<1>1. CASE i \in Used /\ InHandOf(f, z)
  <2>1. task'[i].of = task[i].of /\ task'[i].seen = task[i].seen
    BY <1>1, OfStep
  <2>2. enq'[f].seen = enq[f].seen
    BY <1>1, SeenStep
  <2>3. ~ (Inserted(f, z) /\ i = enq[f].task)
    BY <1>1, InsertedStep
  <2>4. task[i].seen # enq[f].seen \cap Of(z) \/ Excused(z)
    BY <1>1, <2>1, <2>3 DEF IInv, Queueing
  <2>5. Excused(z) => Excused(z)'
    BY ExcusedStep DEF Excused
  <2>6. enq[f].seen \cap Of(z)' = enq[f].seen \cap Of(z)
    BY SeenOf
  <2> QED
    BY <2>1, <2>2, <2>4, <2>5, <2>6
<1>2. CASE i \in Used /\ Takes(f, z)
  <2>1. task[i].of = z
    BY <1>2, OfStep
  <2> QED
    BY <1>2, <2>1, TakenStep
<1>3. CASE i \notin Used
  <2>1. PICK x \in Enqueuers : Adds(x, i)
    BY <1>3, AddsStep
  <2>2. /\ enq'[x].pc = "push" /\ enq'[x].at = z /\ enq'[x].task = i
    BY <2>1 DEF Adds, Moved
  <2>3. InHandOf(x, z)' /\ Inserted(x, z)'
    BY <2>2 DEF InHandOf, Past, Inserted
  <2>4. x # f
    BY <2>2, <2>3
  <2> QED
    BY <2>3, <2>4, HandsStep
<1> QED
  BY <1>1, <1>2, <1>3, HandStep

\* The next task of a session that is due is a new one.
LEMMA DueNewStep ==
  ASSUME IInv, [Next]_vars, NEW z \in Sessions, NEW i \in Tasks, i \in Used',
         row'[z].due, task'[i].of = z, \A e \in Enqueuers : ~ InHandOf(e, z)'
  PROVE  task'[i].seen # Of(z)' \cap known' \/ Excused(z)'
<1>1. i \in Used
  <2>1. ASSUME i \notin Used PROVE FALSE
    <3>1. PICK x \in Enqueuers : Adds(x, i)
      BY <2>1, AddsStep
    <3>2. InHandOf(x, z)'
      BY <3>1 DEF Adds, Moved, InHandOf, Past
    <3> QED
      BY <3>2
  <2> QED
    BY <2>1
<1>2. task'[i].seen = task[i].seen /\ task[i].of = z
  BY <1>1, OfStep
<1>3. CASE \E e \in Enqueuers : InHandOf(e, z)
  BY <1>3, HandLeavesStep DEF Excused
<1>4. CASE faults' > 0
  BY <1>4 DEF Excused
<1>5. CASE \E n \in Msgs : n \in known' \ known /\ home'[n] = z
  <2>1. PICK n \in Msgs : n \in known' \ known /\ home'[n] = z
    BY <1>5
  <2>2. task[i].seen \subseteq known
    BY <1>1 DEF IInv, Shape, TaskOf, Used
  <2>3. n \in Of(z)'
    BY <2>1 DEF Of
  <2> QED
    BY <1>2, <2>1, <2>2, <2>3
<1>6. CASE /\ row[z].due /\ Of(z)' \cap known' = Of(z) \cap known
           /\ \A e \in Enqueuers : ~ InHandOf(e, z)
  <2>1. task[i].seen # Of(z) \cap known \/ Excused(z)
    BY <1>1, <1>2, <1>6 DEF IInv, Queueing
  <2>2. Excused(z) => Excused(z)'
    BY ExcusedStep DEF Excused
  <2> QED
    BY <1>2, <1>6, <2>1, <2>2
<1> QED
  BY <1>3, <1>4, <1>5, <1>6, DueStep

\* Two tasks for the same messages of a session.
LEMMA AddedTwice ==
  ASSUME IInv, [Next]_vars, NEW i \in Tasks, NEW j \in Tasks, i # j,
         i \in Used', j \in Used', i \notin Used,
         task'[i].of = task'[j].of, task'[i].seen = task'[j].seen
  PROVE  task'[i].of \in overlap' \/ faults' > 0
<1>1. PICK x \in Enqueuers : Adds(x, i)
  BY AddsStep
<1>2. PICK z \in Sessions : z = enq[x].at
  BY <1>1 DEF Adds
<1>3. /\ j \in Used /\ task'[i].of = z /\ task'[i].seen = enq[x].seen \cap Of(z)
      /\ InHandOf(x, z) /\ ~ Inserted(x, z)
  BY <1>1, <1>2 DEF Adds, InHandOf, Past, Inserted
<1>4. task[j].of = z /\ task[j].seen = enq[x].seen \cap Of(z)
  BY <1>3, OfStep
<1>5. Excused(z)
  BY <1>3, <1>4 DEF IInv, Queueing
<1> QED
  BY <1>3, <1>5, ExcusedStep DEF Excused

LEMMA SilenceStep ==
  ASSUME IInv, [Next]_vars
  PROVE  SilenceQueuedOnce'
<1> SUFFICES ASSUME NEW i \in Tasks, NEW j \in Tasks, i # j,
                    task'[i].status # "none", task'[j].status # "none",
                    task'[i].of = task'[j].of, task'[i].seen = task'[j].seen
             PROVE  task'[i].of \in overlap' \/ faults' > 0
  BY DEF SilenceQueuedOnce
<1>1. i \in Used' /\ j \in Used'
  BY DEF Used
<1>2. CASE i \in Used /\ j \in Used
  <2>1. /\ task'[i].of = task[i].of /\ task'[i].seen = task[i].seen
        /\ task'[j].of = task[j].of /\ task'[j].seen = task[j].seen
    BY <1>2, OfStep
  <2>2. task[i].of \in overlap \/ faults > 0
    BY <1>2, <2>1 DEF IInv, SilenceQueuedOnce, Used
  <2> QED
    BY <2>1, <2>2, ExcusedStep
<1>3. CASE i \notin Used
  BY <1>1, <1>3, AddedTwice
<1>4. CASE j \notin Used
  BY <1>1, <1>4, AddedTwice
<1> QED
  BY <1>2, <1>3, <1>4

-----------------------------------------------------------------------------
\* The invariant.

LEMMA Starts == Init => IInv
<1> SUFFICES ASSUME Init
             PROVE  IInv
  OBVIOUS
<1>1. Rest.pc = "rest" /\ Rest.seen = {} /\ Rest.todo = {} /\ Rest.at = NoSession
  BY DEF Rest
<1>2. Ready.pc = "read" /\ Ready.batch = <<>> /\ Ready.found = {}
  BY DEF Ready
<1>3. said = {} /\ Used = {} /\ known = {} /\ acked = {} /\ stream = <<>>
  BY DEF Init, said, Used
<1>4. /\ \A e \in Enqueuers : enq[e].pc = "rest" /\ enq[e].seen = {} /\ enq[e].todo = {}
      /\ \A w \in Workers : /\ worker[w].pc = "read" /\ worker[w].batch = <<>>
                            /\ worker[w].found = {}
      /\ \A s \in Sessions : ~ row[s].idle
      /\ \A t \in Tasks : task[t].status = "none"
  BY <1>1, <1>2 DEF Init, Silent
<1>5. TypeOK
  BY <1>3, NoneIn, DnaSessionsAssumption DEF Init, TypeOK, Silent, TaskStatus, NoTask
<1>6. Numbered
  BY <1>3 DEF Numbered, Prefix
<1>7. Shape
  BY <1>3, <1>4 DEF Shape, TaskOf, EnqOf
<1>8. \A w \in Workers : \A t : ~ Holds(w, t) /\ ~ Before(w, t)
  <2>1. Len(<<>>) = 0
    OBVIOUS
  <2> QED
    BY <1>4, <2>1, NoneIn DEF Holds, Before
<1>9. Pointers
  BY <1>3, <1>4, <1>8, NoneIn DEF Pointers, Pushing
<1>10. Versions
  BY <1>3, <1>4, <1>8, NoneIn DEF Versions, VersionOf, Pushing
<1>11. AckedIsSettled /\ SilenceQueuedOnce
  BY <1>3, <1>4 DEF AckedIsSettled, SilenceQueuedOnce
<1>12. Stored /\ Remembered
  BY <1>3, <1>4 DEF Stored, Remembered, Past
<1>13. Queueing
  BY <1>3, <1>4 DEF Queueing, InHandOf, Past
<1> QED
  BY <1>5, <1>6, <1>7, <1>9, <1>10, <1>11, <1>12, <1>13 DEF IInv

LEMMA Keeps == IInv /\ [Next]_vars => IInv'
<1> SUFFICES ASSUME IInv, [Next]_vars
             PROVE  IInv'
  OBVIOUS
<1>1. TypeOK'
  BY TypeStep
<1>2. Numbered'
  BY SaidStep, UsedStep DEF Numbered
<1>3. Shape'
  BY TaskStep, EnqStep, FoundStep DEF Shape
<1>4. Pointers'
  <2>1. \A t \in Tasks : (task[t].status = "none")' =>
          /\ ~ In(stream, t)' /\ t \notin acked'
          /\ \A w \in Workers : ~ Holds(w, t)'
    BY NewStep
  <2>2. Distinct(stream)' /\ \A w \in Workers : Distinct(worker[w].batch)'
    BY StreamStep, BatchStep
  <2>3. \A t \in Tasks : In(stream, t)' => t \notin acked' /\ \A w \in Workers : ~ Holds(w, t)'
    BY UnackedStep, InStreamStep
  <2>4. \A w \in Workers, t \in Tasks : Holds(w, t)' =>
          t \notin acked' /\ \A v \in Workers \ {w} : ~ Holds(v, t)'
    BY HeldStep
  <2>5. \A e \in Enqueuers, t \in Tasks : Pushing(e, t)' =>
          /\ ~ In(stream, t)' /\ t \notin acked'
          /\ \A w \in Workers : ~ Holds(w, t)'
          /\ \A f \in Enqueuers \ {e} : ~ Pushing(f, t)'
    BY UnpushedStep, PushingStep, PusherStep
  <2> QED
    BY <2>1, <2>2, <2>3, <2>4, <2>5 DEF Pointers
<1>5. Versions'
  BY StreamVersionStep, PushingVersionStep, VersionStep DEF Versions
<1>6. AckedIsSettled'
  <2>1. acked' \subseteq Tasks
    BY <1>1 DEF TypeOK
  <2> QED
    BY <2>1, AckedStep DEF AckedIsSettled
<1>7. Stored'
  <2>1. ASSUME NEW s \in Sessions, row'[s].idle, NEW n \in Of(s)' \cap known'
        PROVE  n \in kept' \cup settled' \cup lost' \cup left'
    BY <2>1, RowStoredStep DEF Of
  <2>2. ASSUME NEW e \in Enqueuers, Past(e)', NEW s \in enq'[e].todo \cup {enq'[e].at},
               s \in Sessions, NEW n \in enq'[e].seen \cap Of(s)'
        PROVE  n \in kept' \cup settled' \cup lost' \cup left'
    BY <2>2, EnqStoredStep DEF Of
  <2> QED
    BY <2>1, <2>2, Zenon DEF Stored
<1>8. Remembered'
  <2>1. known' \subseteq Msgs
    BY <1>1 DEF TypeOK, said
  <2>2. \A n \in known' : n \in raced' \/ row'[home'[n]].due \/ Carried(n)'
    BY <2>1, RememberedStep
  <2>3. ASSUME NEW e \in Enqueuers,
               enq'[e].pc = "note" \/ (enq'[e].pc = "mark" /\ enq'[e].ok),
               NEW n \in enq'[e].seen \cap Of(enq[e].at)'
        PROVE  Carried(n)'
    BY <2>3, PushedStep DEF Of
  <2> QED
    BY <2>2, <2>3, Zenon DEF Remembered
<1>9. Queueing'
  <2>1. Used' \subseteq Tasks
    BY DEF Used
  <2>2. \A e, f \in Enqueuers, s \in Sessions :
          e # f /\ InHandOf(e, s)' /\ InHandOf(f, s)' => Excused(s)'
    BY HandsStep
  <2>3. \A e \in Enqueuers, s \in Sessions, t \in Used' :
          /\ InHandOf(e, s)' /\ task'[t].of = s
          /\ ~ (Inserted(e, s)' /\ t = enq'[e].task)
          => task'[t].seen # enq'[e].seen \cap Of(s)' \/ Excused(s)'
    BY <2>1, HeldNewStep
  <2>4. \A s \in Sessions, t \in Used' :
          row'[s].due /\ task'[t].of = s /\ (\A e \in Enqueuers : ~ InHandOf(e, s)') =>
            task'[t].seen # Of(s)' \cap known' \/ Excused(s)'
    BY <2>1, DueNewStep
  <2> QED
    BY <2>2, <2>3, <2>4, Zenon DEF Queueing
<1> QED
  BY <1>1, <1>2, <1>3, <1>4, <1>5, <1>6, <1>7, <1>8, <1>9, SilenceStep DEF IInv

LEMMA Always == Spec => []IInv
  BY Starts, Keeps, PTL DEF Spec

-----------------------------------------------------------------------------
\* The theorems.

\* Every value is of its type: a task's version stays below four, and what is
\* known, stored, settled, left or lost was sent.
THEOREM TypeCorrect == Spec => []TypeOK
<1>1. IInv => TypeOK
  BY DEF IInv
<1> QED
  BY Always, <1>1, PTL

\* A worker acknowledges a pointer only when the task it claimed has come to an
\* end: it is the only one with the pointer, so that the version it expects is
\* the one it finds (phase2_slm_worker.py).
THEOREM Acked == Spec => []AckedIsSettled
<1>1. IInv => AckedIsSettled
  BY DEF IInv
<1> QED
  BY Always, <1>1, PTL

\* One silence of a session has one task, unless two enqueuers found it at the
\* same time or something failed (lib/dna/phase2).
THEOREM QueuedOnce == Spec => []SilenceQueuedOnce
<1>1. IInv => SilenceQueuedOnce
  BY DEF IInv
<1> QED
  BY Always, <1>1, PTL

\* A registered message whose memory is stored is due, or on its way to a
\* summary, or given to one; the others met the queueing of their session, or a
\* fault, or a worker that raised or had more memories than it reads or summarises
\* (phase2_slm_worker.py:188, :101, :252 and :410), however many that is.
THEOREM Forgotten == Spec => []NothingForgotten
<1>1. IInv => NothingForgotten
  BY DEF IInv, Remembered, Carried, NothingForgotten
<1> QED
  BY Always, <1>1, PTL

=============================================================================
