----------------------------- MODULE MCAgentRun -----------------------------
(***************************************************************************)
(* Two tabs, three engines of which two may have an unanswered request, two *)
(* contents, three mails.                                                  *)
(***************************************************************************)
EXTENDS AgentRun, TLC

Symmetry == Permutations(Clients) \cup Permutations(Requests)
              \cup Permutations(Contents)

=============================================================================
