---------------------------- MODULE MCBlackboard ----------------------------
(***************************************************************************)
(* Instances of Blackboard for TLC.                                        *)
(***************************************************************************)
EXTENDS Blackboard, TLC

CONSTANTS a1, a2, h1, h2

TwoAgents   == {a1, a2}
TwoHandlers == {h1, h2}
Symmetry    == Permutations(Agents) \cup Permutations(Handlers)

=============================================================================
