------------------------- MODULE MCFleetCoordinator -------------------------
(* A small instance of FleetCoordinator for TLC. *)
EXTENDS FleetCoordinator, TLC

CONSTANTS i1, w1, h1, h2

\* What follows a save is looked at with no handler busy, and what follows a
\* restart or a change of the limit not at all.
OverlapUntilSaved ==
  /\ disk.items \cup disk.dlq = {} \/ \A h \in Handlers : call[h] = Idle
  /\ restarts = 0 /\ budget.limit = InitLimit

MCItems     == {i1}
MCWorkers   == {w1}
TwoHandlers == {h1, h2}
HandlerSymmetry == Permutations(Handlers)
MCNoBudget  == [i \in MCItems |-> 0]
MCPriority  == [i \in MCItems |-> 0]
MCCanRun    == [i \in MCItems |-> MCWorkers]
=============================================================================
