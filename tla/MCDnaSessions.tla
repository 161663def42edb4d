--------------------------- MODULE MCDnaSessions ----------------------------
(***************************************************************************)
(* Instances of DnaSessions for TLC.                                       *)
(***************************************************************************)
EXTENDS DnaSessions, TLC

CONSTANTS s1, s2, e1, w1, w2

TwoSessions == {s1, s2}
OneSweep    == {e1}
TwoWorkers  == {w1, w2}
Symmetry    == Permutations(Sessions) \cup Permutations(Workers)

=============================================================================
