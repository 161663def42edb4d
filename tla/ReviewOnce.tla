----------------------------- MODULE ReviewOnce -----------------------------
(***************************************************************************)
(* What the orchestrator of src/inngest promises of one request: its tasks *)
(* are executed, each of them once, and when all of them are, and not      *)
(* before, one review is published, and one kept in the long-term memory.  *)
(***************************************************************************)
EXTENDS Naturals

CONSTANTS Task

VARIABLES
  executed,   \* tasks whose result has been published
  published,  \* reviews that have been published
  kept        \* reviews in the long-term memory

Init == executed = {} /\ published = 0 /\ kept = 0

Execute(t) == /\ t \notin executed
              /\ executed' = executed \cup {t}
              /\ UNCHANGED <<published, kept>>

Review == /\ executed = Task
          /\ published = 0
          /\ published' = 1
          /\ UNCHANGED <<executed, kept>>

Keep == /\ executed = Task
        /\ kept = 0
        /\ kept' = 1
        /\ UNCHANGED <<executed, published>>

Next == Review \/ Keep \/ \E t \in Task : Execute(t)

Spec == Init /\ [][Next]_<<executed, published, kept>>

=============================================================================
