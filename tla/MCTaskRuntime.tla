--------------------------- MODULE MCTaskRuntime ---------------------------
(***************************************************************************)
(* Instances of TaskRuntime for TLC.  Flow f1 is launched, with the tasks  *)
(* t1 and t2; f2 and f3 are rewinds with the tasks u and v.                *)
(***************************************************************************)
EXTENDS TaskRuntime, TLC

CONSTANTS f1, f2, f3, t1, t2, u, v, x, w1, w2

TwoFlows   == {f1, f2}
ThreeFlows == {f1, f2, f3}
OneBranch  == {f2}
TwoBranches == {f2, f3}
OneAndOne  == {t1, u}
OneAndTwo  == {t1, u, v}
TwoAndOne  == {t1, t2, u}
TwoWorkers == {w1, w2}

MCFlowOf == [t \in Tasks |-> CASE t = u -> f2 [] t = v -> f3 [] OTHER -> f1]
MCRank   == [t \in Tasks |-> IF t = t2 THEN 2 ELSE 1]
AllNeed  == [t \in Tasks |-> {x}]
NoNeeds  == [t \in Tasks |-> {}]

WorkerSymmetry == Permutations(Workers)

=============================================================================
