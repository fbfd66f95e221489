---------------------------- MODULE MCFleetSystem ----------------------------
(* Small instances of FleetSystem for TLC. *)
EXTENDS FleetSystem, TLC

CONSTANTS i1, i2, i3, w1, w2, h1, h2, h3

TwoItems   == {i1, i2}
ThreeItems == {i1, i2, i3}
OneWorker  == {w1}
TwoWorkers == {w1, w2}
TwoHandlers   == {h1, h2}
ThreeHandlers == {h1, h2, h3}
OneItem    == {i1}

\* Every item has a budget; together they need more than InitLimit = 3; or
\* no item has a budget.
AllBudgeted  == [i \in Items |-> 1]
Uneven       == [i \in Items |-> IF i = i1 THEN 2 ELSE 1]
NoneBudgeted == [i \in Items |-> 0]

SamePriority == [i \in Items |-> 0]
FirstFirst   == [i \in Items |-> IF i = i1 THEN 1 ELSE 0]

\* Any worker for any item; or the second item tied to the first worker.
AnyPlacement  == [i \in Items |-> Workers]
TiedPlacement == [i \in Items |-> IF i = i1 THEN Workers ELSE {w1}]

\* The handlers are interchangeable, with AnyPlacement the workers are, and
\* with Uneven and SamePriority the items other than i1.
HandlerSymmetry == Permutations(Handlers)
WorkerSymmetry  == HandlerSymmetry \cup Permutations(Workers)
UnevenSymmetry  == WorkerSymmetry \cup Permutations({i2, i3})
=============================================================================
