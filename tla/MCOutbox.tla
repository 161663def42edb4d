------------------------------ MODULE MCOutbox ------------------------------
(***************************************************************************)
(* Instances of Outbox for TLC.                                            *)
(***************************************************************************)
EXTENDS Outbox, TLC

CONSTANTS e1, e2, e3, task1, d1, d2, h1, h2

\* Two resumptions of one task, which share a key; another client reports the
\* failure of the task.
MCEvents == {e1, e2, e3}
MCNameOf == e1 :> "task.resumed" @@ e2 :> "task.resumed" @@
            e3 :> "task.failed"
MCTaskOf == [e \in MCEvents |-> task1]

TwoDispatchers == {d1, d2}
TwoHandlers    == {h1, h2}
AllModes       == Mode
Symmetry       == Permutations(Dispatchers) \cup Permutations(Handlers)

=============================================================================
