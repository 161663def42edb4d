--------------------------- MODULE MCOrchestrator ---------------------------
(***************************************************************************)
(* Instances of Orchestrator for TLC.                                      *)
(***************************************************************************)
EXTENDS Orchestrator, TLC

CONSTANTS t1, t2

TwoTasks  == {t1, t2}
Connected == {TRUE}
Executors == {"executor"}
Reviewers == {"reviewer"}
Nobody    == {}
Symmetry  == Permutations(Task)

\* Only behaviours in which the runner and the planner are done with sending
\* before an executor starts, and the memory writer waits until the executors and
\* reviewers have ended.  What it does touches no key, counter or lock of theirs,
\* nor does what the others do after they have sent.
InOrder ==
  LET Idle(r)    == pc[r] \in {"none", "claim"}
      Of(fn)     == {r \in Run : r.job[1] = fn}
      Sending(r) == pc[r] \in {"claim", "insert", "update", "emit", "seed", "register"}
  IN /\ \/ \A r \in Of("writer") : Idle(r)
        \/ \A r \in Of("executor") \cup Of("reviewer") : pc[r] \in Ended \cup {"none"}
     /\ \/ \A r \in Of("executor") : Idle(r)
        \/ \A r \in Of("runner") \cup Of("planner") : ~Sending(r)

=============================================================================
