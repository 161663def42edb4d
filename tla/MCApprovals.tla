---------------------------- MODULE MCApprovals -----------------------------
(***************************************************************************)
(* Instances of Approvals for TLC.                                         *)
(***************************************************************************)
EXTENDS Approvals, TLC

CONSTANTS c1, c2, c3, a1, a2, h1, h2, q1, q2

ThreeRuns   == {c1, c2, c3}
TwoAgents   == {a1, a2}
TwoHandlers == {h1, h2}
TwoRequests == {q1, q2}
\* Bounds: three approvals; an approval and a resume; and one of either with a
\* lost message or a process that dies.
Budget(p, q, f) == [resolve |-> p, resume |-> q, faults |-> f]
AllBudgets  ==
  {Budget(3, 0, 0), Budget(1, 1, 0), Budget(1, 0, 1), Budget(0, 1, 1)}
Symmetry    == Permutations(Runs) \cup Permutations(Agents)
               \cup Permutations(Handlers) \cup Permutations(Requests)

=============================================================================
