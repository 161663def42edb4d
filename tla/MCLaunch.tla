------------------------------ MODULE MCLaunch ------------------------------
(***************************************************************************)
(* Instances of Launch for TLC.                                            *)
(***************************************************************************)
EXTENDS Launch, TLC

CONSTANTS f1, f2, u1, u2, u3, p1, r1, r2

TwoFlows == {f1, f2}
ThreeUsers == {u1, u2, u3}
OnePerm  == {p1}
Two      == {r1, r2}

\* Missions with what else writes their schedule, and edits between their runs;
\* permission requests; the signature gate with the kill switch and with the
\* routes of a task.
EditMix == [kinds |-> {"tick", "edit"}, calls |-> 3]
AllMixes == [kinds : {{"tick", "run", "edit", "delete"}}, calls : {2}]
            \cup {EditMix}
            \cup [kinds : {{"launch", "tick", "decide"}}, calls : {3}]
            \cup [kinds : {{"launch", "sign", "kill"},
                           {"launch", "sign", "human"}}, calls : {4}]

\* The three calls of EditMix are made one after the other.
InTurn ==
  mix = EditMix =>
    \A r, q \in Requests : r # q => At(r, "idle") \/ At(q, "idle")

Symmetry == Permutations(Flows) \cup Permutations(Users)
            \cup Permutations(Requests)

=============================================================================
