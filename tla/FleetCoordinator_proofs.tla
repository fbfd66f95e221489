----------------------- MODULE FleetCoordinator_proofs -----------------------
(***************************************************************************)
(* Safety of the coordinator for every number of items, workers, handlers, *)
(* budgets, retries and restarts.  The invariant IInv adds to the checked  *)
(* properties                                                              *)
(*   - RetryRoom: handlers that have found an item retryable and have not  *)
(*     counted the retry yet still have room below the bound;              *)
(*   - DiskBounded: the records on disk, which a restart makes the queue   *)
(*     in memory, respect the bound too.                                   *)
(***************************************************************************)
EXTENDS FleetCoordinator, FiniteSetTheorems, TLAPS

\* The handlers that are about to count a retry of i.
Requeuing(i) == {h \in Handlers : call[h].step = "fail_requeue" /\ call[h].item = i}

RetryBound == MaxRetries + Cardinality(Handlers) - 1

RetryRoom ==
    \A i \in Items : work[i].retries + Cardinality(Requeuing(i)) <= RetryBound

DiskBounded == \A i \in Items : disk.work[i].retries <= RetryBound

IInv == TypeOK /\ NoWorkLost /\ RetryRoom /\ DiskBounded

-----------------------------------------------------------------------------
(* Arithmetic of the budget. *)

\* A reservation that is released twice does not become negative.
LEMMA MonusNat == ASSUME NEW a \in Nat, NEW b \in Nat PROVE Monus(a, b) \in Nat
BY DEF Monus

\* What a submission or a poll reads as available is an amount.
LEMMA AvailableNat == ASSUME budget \in Budgets PROVE AvailableBudget \in Nat
<1>1. budget.limit \in Nat /\ budget.spent + budget.reserved \in Nat
  BY DEF Budgets
<1> QED
  BY <1>1, MonusNat DEF AvailableBudget

\* Releasing and reserving keep a budget record a budget record.
LEMMA BudgetMoves ==
    ASSUME NEW i \in Items, budget \in Budgets
    PROVE  Release(i) \in Budgets /\ Reserve(i) \in Budgets
<1>1. MaxBudget[i] \in Nat
  BY ItemAssumption
<1>2. Monus(budget.reserved, MaxBudget[i]) \in Nat
  BY <1>1, MonusNat DEF Budgets
<1> QED
  BY <1>1, <1>2 DEF Release, Reserve, Budgets

-----------------------------------------------------------------------------
(* Every step keeps the types. *)

\* What the actions make of a work record is a work record.
LEMMA RecordMoves ==
    ASSUME NEW r \in WorkRecords
    PROVE  /\ Unassigned(r) \in WorkRecords
           /\ Requeued(r) \in WorkRecords
           /\ Cleared(r) \in WorkRecords
           /\ \A s \in Statuses : [r EXCEPT !.status = s] \in WorkRecords
           /\ \A o \in Workers \cup {NoWorker} : [r EXCEPT !.owner = o] \in WorkRecords
           /\ \A s \in Statuses, o \in Workers \cup {NoWorker} :
                 Owned(r, s, o) \in WorkRecords
           /\ [r EXCEPT !.backoff = FALSE] \in WorkRecords
<1>1. ASSUME NEW s \in Statuses, NEW o \in Workers \cup {NoWorker}
      PROVE  Owned(r, s, o) \in WorkRecords
  BY DEF Owned, WorkRecords
<1>2. Unassigned(r) \in WorkRecords
  BY <1>1 DEF Unassigned, Statuses
<1>3. Requeued(r) \in WorkRecords
  <2>1. r.retries + 1 \in Nat /\ "pending" \in Statuses
    BY DEF WorkRecords, Statuses
  <2> QED
    BY <2>1 DEF Requeued, WorkRecords
<1>4. Cleared(r) \in WorkRecords
  BY DEF Cleared, WorkRecords
<1>5. ASSUME NEW s \in Statuses PROVE [r EXCEPT !.status = s] \in WorkRecords
  BY DEF WorkRecords
<1>6. ASSUME NEW o \in Workers \cup {NoWorker} PROVE [r EXCEPT !.owner = o] \in WorkRecords
  BY DEF WorkRecords
<1>7. [r EXCEPT !.backoff = FALSE] \in WorkRecords
  BY DEF WorkRecords
<1> QED
  BY <1>1, <1>2, <1>3, <1>4, <1>5, <1>6, <1>7

\* A fresh submission is a work record.
LEMMA NewWorkType == NewWork \in WorkRecords
BY DEF NewWork, WorkRecords, Statuses

\* Writing a status, or an owner, into one record keeps the records.
LEMMA FieldMoves ==
    ASSUME TypeOK, NEW i \in Items
    PROVE  /\ \A s \in Statuses : [work EXCEPT ![i].status = s] \in [Items -> WorkRecords]
           /\ \A o \in Workers \cup {NoWorker} :
                 [work EXCEPT ![i].owner = o] \in [Items -> WorkRecords]
<1>1. work \in [Items -> WorkRecords] /\ work[i] \in WorkRecords
  BY DEF TypeOK
<1>2. ASSUME NEW s \in Statuses
      PROVE  [work EXCEPT ![i].status = s] \in [Items -> WorkRecords]
  <2>1. [work[i] EXCEPT !.status = s] \in WorkRecords
    BY <1>1, RecordMoves
  <2> QED
    BY <1>1, <2>1
<1>3. ASSUME NEW o \in Workers \cup {NoWorker}
      PROVE  [work EXCEPT ![i].owner = o] \in [Items -> WorkRecords]
  <2>1. [work[i] EXCEPT !.owner = o] \in WorkRecords
    BY <1>1, RecordMoves
  <2> QED
    BY <1>1, <2>1
<1> QED
  BY <1>2, <1>3

\* A busy handler serves a request about an item, and stays well-formed when
\* it goes on to another step.
LEMMA CallTypes ==
    ASSUME TypeOK, NEW h \in Handlers, call[h].step # "idle"
    PROVE  /\ call[h] \in Calls
           /\ call[h].item \in Items
           /\ call[h].worker \in Workers \cup {NoWorker}
           /\ call[h].cost \in Costs \cup {NoResult}
           /\ \A t \in CallSteps :
                 [call EXCEPT ![h].step = t] \in [Handlers -> Calls \cup {Idle}]
<1>1. call \in [Handlers -> Calls \cup {Idle}]
  BY DEF TypeOK
<1>2. Idle.step = "idle"
  BY DEF Idle
<1>3. call[h] \in Calls
  BY <1>1, <1>2
<1>4. ASSUME NEW t \in CallSteps PROVE [call[h] EXCEPT !.step = t] \in Calls
  BY <1>3 DEF Calls
<1>5. ASSUME NEW t \in CallSteps
      PROVE  [call EXCEPT ![h].step = t] \in [Handlers -> Calls \cup {Idle}]
  BY <1>1, <1>4
<1> QED
  BY <1>3, <1>5 DEF Calls

\* A handler that returns leaves the handlers well-formed.
LEMMA ReturnType ==
    ASSUME TypeOK, NEW h \in Handlers
    PROVE  [call EXCEPT ![h] = Idle] \in [Handlers -> Calls \cup {Idle}]
BY DEF TypeOK

\* The initial state is well-formed.
LEMMA TypeInit == Init => TypeOK
<1> SUFFICES ASSUME Init PROVE TypeOK
  OBVIOUS
<1>1. [i \in Items |-> NewWork] \in [Items -> WorkRecords]
  BY NewWorkType
<1>2. disk \in Snapshots
  BY <1>1 DEF Init, Snapshots
<1> QED
  BY <1>1, <1>2, BudgetAssumption
     DEF Init, TypeOK, SubmitPhases, Budgets, WorkerStates, NoPoll

\* A submission moves its phase, the queue and the reservation only.
LEMMA TypeSubmit ==
    ASSUME TypeOK, NEW i \in Items,
           SubmitCheck(i) \/ SubmitReject(i) \/ SubmitPush(i) \/ SubmitReserve(i)
    PROVE  TypeOK'
<1>1. CASE SubmitCheck(i) \/ SubmitReject(i)
  BY <1>1 DEF TypeOK, SubmitCheck, SubmitReject, SubmitPhases,
              queueVars, budgetVars, workerVars, callVars, diskVars
<1>2. CASE SubmitPush(i)
  BY <1>2, NewWorkType DEF TypeOK, SubmitPush, SubmitPhases,
              budgetVars, workerVars, callVars, diskVars
<1>3. CASE SubmitReserve(i)
  <2>1. budget' \in Budgets
    BY <1>3, BudgetMoves DEF TypeOK, SubmitReserve
  <2> QED
    BY <1>3, <2>1 DEF TypeOK, SubmitReserve, SubmitPhases,
                      queueVars, workerVars, callVars, diskVars
<1> QED
  BY <1>1, <1>2, <1>3

\* The registry and the polls.
LEMMA TypeWorker ==
    ASSUME TypeOK, NEW w \in Workers, WorkerStep(w),
           \A i \in Items : ~LookupStart(w, i)
    PROVE  TypeOK'
<1>0. AvailableBudget \in Nat
  BY AvailableNat DEF TypeOK
<1>1. CASE Register(w)
  BY <1>1 DEF TypeOK, Register, WorkerStates, queueVars, budgetVars, callVars, diskVars
<1>2. CASE PauseWorker(w) \/ DrainWorker(w) \/ ResumeWorker(w)
  BY <1>2 DEF TypeOK, PauseWorker, DrainWorker, ResumeWorker, SetStatus, WorkerStates,
              queueVars, budgetVars, callVars, diskVars
<1>3. CASE DeregisterWorker(w)
  <2>1. work' \in [Items -> WorkRecords]
    <3>1. \A i \in Items : [work[i] EXCEPT !.status = "pending"] \in WorkRecords
      BY RecordMoves DEF TypeOK, Statuses
    <3> QED
      BY <1>3, <3>1 DEF TypeOK, DeregisterWorker
  <2>2. clearing' \subseteq Items
    BY <1>3 DEF TypeOK, DeregisterWorker, Claims
  <2> QED
    BY <1>3, <2>1, <2>2 DEF TypeOK, DeregisterWorker, WorkerStates, budgetVars, callVars, diskVars
<1>4. CASE PollAdmit(w)
  BY <1>0, <1>4 DEF TypeOK, PollAdmit, queueVars, budgetVars, workerVars, callVars, diskVars
<1>5. CASE PollEmpty(w)
  BY <1>5 DEF TypeOK, PollEmpty, queueVars, budgetVars, workerVars, callVars, diskVars
<1>6. CASE \E f \in BOOLEAN : Heartbeat(w, f)
  BY <1>6 DEF TypeOK, Heartbeat, queueVars, budgetVars, workerVars, callVars, diskVars
<1>7. CASE \E i \in Items : AssignBest(w, i)
  <2> PICK i \in Items : AssignBest(w, i)
    BY <1>7
  <2>1. work' \in [Items -> WorkRecords]
    <3>1. Owned(work[i], "assigned", w) \in WorkRecords
      BY RecordMoves DEF TypeOK, Statuses
    <3> QED
      BY <3>1 DEF TypeOK, AssignBest
  <2> QED
    BY <2>1 DEF TypeOK, AssignBest, budgetVars, workerVars, callVars, diskVars
<1> QED
  BY <1>1, <1>2, <1>3, <1>4, <1>5, <1>6, <1>7 DEF WorkerStep

\* A lookup makes an idle handler serve a well-formed request.
LEMMA TypeLookup ==
    ASSUME TypeOK, NEW i \in Items,
           \/ \E w \in Workers : LookupStart(w, i)
           \/ \E r \in Costs \cup {NoResult} : LookupCompleted(i, r)
           \/ LookupFailed(i)
           \/ LookupCancel(i)
    PROVE  TypeOK'
<1>0. ASSUME NEW c \in Calls, Lookup(c) PROVE TypeOK'
  <2>1. call' \in [Handlers -> Calls \cup {Idle}]
    BY <1>0 DEF TypeOK, Lookup
  <2> QED
    BY <1>0, <2>1 DEF TypeOK, Lookup, queueVars, budgetVars, workerVars, diskVars
<1>1. ASSUME NEW w \in Workers, LookupStart(w, i) PROVE TypeOK'
  <2>1. Start(w, i) \in Calls
    BY DEF Start, Calls, CallSteps
  <2> QED
    BY <1>0, <1>1, <2>1 DEF LookupStart
<1>2. ASSUME NEW r \in Costs \cup {NoResult}, LookupCompleted(i, r) PROVE TypeOK'
  <2>1. Completion(i, r) \in Calls
    BY DEF Completion, Calls, CallSteps
  <2> QED
    BY <1>0, <1>2, <2>1 DEF LookupCompleted
<1>3. CASE LookupFailed(i) \/ LookupCancel(i)
  <2>1. Call("fail", i) \in Calls /\ Call("cancel", i) \in Calls
    BY DEF Call, Calls, CallSteps
  <2> QED
    BY <1>0, <1>3, <2>1 DEF LookupFailed, LookupCancel
<1> QED
  BY <1>1, <1>2, <1>3

\* The handlers' writes and returns.
LEMMA TypeHandler ==
    ASSUME TypeOK, NEW h \in Handlers, HandlerStep(h)
    PROVE  TypeOK'
<1>1. call[h].step # "idle"
  BY DEF HandlerStep, MarkRunning, TakeOver, MarkCompleted, BookCompleted, JudgeFailed,
         MarkRequeued, ClearRequeued, MarkFailed, FileFailed, MarkCancelled, ClearCancelled
<1>2. PICK i \in Items : call[h].item = i
  BY <1>1, CallTypes
<1>3. Release(i) \in Budgets /\ work \in [Items -> WorkRecords] /\ work[i] \in WorkRecords
  BY BudgetMoves DEF TypeOK
<1>4. ASSUME NEW s \in CallSteps, Advance(h, s)
      PROVE  call' \in [Handlers -> Calls \cup {Idle}] /\ clearing' \subseteq Items
  BY <1>1, <1>4, CallTypes DEF TypeOK, Advance
<1>5. ASSUME Return(h)
      PROVE  call' \in [Handlers -> Calls \cup {Idle}] /\ clearing' \subseteq Items
  BY <1>5, ReturnType DEF TypeOK, Return
<1>6. ASSUME NEW s \in CallSteps, NEW t \in Statuses, Advance(h, s), SetStatusOf(i, t),
             items' = items, attempts' \in [Items -> Nat],
             UNCHANGED <<dlq, submit, budgetVars, workerVars, poll, diskVars>>
      PROVE  TypeOK'
  <2>1. work' \in [Items -> WorkRecords]
    BY <1>6, FieldMoves DEF SetStatusOf
  <2> QED
    BY <1>4, <1>6, <2>1 DEF TypeOK, budgetVars, workerVars, diskVars
<1>7. CASE MarkRunning(h)
  <2>1. "start_owner" \in CallSteps /\ "running" \in Statuses /\ attempts \in [Items -> Nat]
    BY DEF CallSteps, Statuses, TypeOK
  <2> QED
    BY <1>2, <1>6, <1>7, <2>1 DEF MarkRunning
<1>8. CASE TakeOver(h)
  <2>1. work' \in [Items -> WorkRecords]
    BY <1>1, <1>2, <1>8, CallTypes, FieldMoves DEF TakeOver
  <2>2. call' \in [Handlers -> Calls \cup {Idle}] /\ clearing' \subseteq Items
    BY <1>5, <1>8 DEF TakeOver
  <2> QED
    BY <1>2, <1>8, <2>1, <2>2 DEF TypeOK, TakeOver, budgetVars, workerVars, diskVars
<1>9. CASE MarkCompleted(h)
  <2>1. "complete_book" \in CallSteps /\ "completed" \in Statuses
    BY DEF CallSteps, Statuses
  <2>2. attempts' \in [Items -> Nat]
    BY <1>9 DEF TypeOK, MarkCompleted
  <2> QED
    BY <1>2, <1>6, <1>9, <2>1, <2>2 DEF MarkCompleted
<1>10. CASE BookCompleted(h)
  <2> PICK r \in Costs \cup {NoResult} : call[h].cost = r
    BY <1>1, CallTypes
  <2>0. Book(i, r)
    BY <1>2, <1>10 DEF BookCompleted
  <2>1. budget' \in Budgets /\ workerSpent' \in [Workers -> Nat]
    <3>1. CASE r = NoResult
      BY <2>0, <3>1 DEF TypeOK, Book, budgetVars
    <3>2. CASE r # NoResult
      <4>1. r \in Nat
        BY <3>2, BudgetAssumption
      <4>2. budget' = [Release(i) EXCEPT !.spent = @ + r]
        BY <2>0, <3>2 DEF Book
      <4>3. budget' \in Budgets
        BY <1>3, <4>1, <4>2 DEF Budgets
      <4>4. work[i].owner \in Workers \cup {NoWorker}
        BY <1>3 DEF WorkRecords
      <4>5. workerSpent' = Booked(i, r)
        BY <2>0, <3>2 DEF Book
      <4>6. workerSpent' \in [Workers -> Nat]
        BY <4>1, <4>4, <4>5 DEF TypeOK, Booked
      <4> QED
        BY <4>3, <4>6
    <3> QED
      BY <3>1, <3>2
  <2>2. call' \in [Handlers -> Calls \cup {Idle}] /\ clearing' \subseteq Items
    BY <1>5, <1>10 DEF BookCompleted
  <2> QED
    BY <1>2, <1>10, <2>1, <2>2 DEF TypeOK, BookCompleted, workerVars, diskVars
<1>11. CASE JudgeFailed(h)
  <2>1. PICK s \in CallSteps : Advance(h, s)
    <3>1. "fail_requeue" \in CallSteps /\ "fail_bury" \in CallSteps
      BY DEF CallSteps
    <3> QED
      BY <1>11, <3>1 DEF JudgeFailed
  <2>2. call' \in [Handlers -> Calls \cup {Idle}] /\ clearing' \subseteq Items
    BY <1>4, <2>1
  <2>3. attempts' \in [Items -> Nat]
    BY <1>2, <1>11 DEF TypeOK, JudgeFailed
  <2> QED
    BY <1>11, <2>2, <2>3 DEF TypeOK, JudgeFailed, queueVars, budgetVars, workerVars, diskVars
<1>12. CASE MarkRequeued(h)
  <2>1. work' \in [Items -> WorkRecords]
    BY <1>2, <1>3, <1>12, RecordMoves DEF MarkRequeued
  <2>2. call' \in [Handlers -> Calls \cup {Idle}] /\ clearing' \subseteq Items
    BY <1>4, <1>12 DEF MarkRequeued, CallSteps
  <2> QED
    BY <1>12, <2>1, <2>2 DEF TypeOK, MarkRequeued, budgetVars, workerVars, diskVars
<1>13. CASE MarkFailed(h)
  <2>1. "fail_file" \in CallSteps /\ "failed" \in Statuses /\ attempts \in [Items -> Nat]
    BY DEF CallSteps, Statuses, TypeOK
  <2> QED
    BY <1>2, <1>6, <1>13, <2>1 DEF MarkFailed
<1>14. CASE ClearRequeued(h)
  <2>1. work' \in [Items -> WorkRecords]
    BY <1>2, <1>3, <1>14, RecordMoves DEF ClearRequeued
  <2>2. call' \in [Handlers -> Calls \cup {Idle}] /\ clearing' \subseteq Items
    BY <1>5, <1>14 DEF ClearRequeued
  <2>3. budget' \in Budgets /\ File(i)
    BY <1>2, <1>3, <1>14 DEF ClearRequeued
  <2> QED
    BY <1>14, <2>1, <2>2, <2>3 DEF TypeOK, ClearRequeued, File, workerVars, diskVars
<1>15. CASE FileFailed(h)
  <2>1. call' \in [Handlers -> Calls \cup {Idle}] /\ clearing' \subseteq Items
    BY <1>5, <1>15 DEF FileFailed
  <2>2. budget' \in Budgets /\ File(i)
    BY <1>2, <1>3, <1>15 DEF FileFailed
  <2> QED
    BY <1>15, <2>1, <2>2 DEF TypeOK, FileFailed, File, workerVars, diskVars
<1>16. CASE MarkCancelled(h)
  <2>1. "cancel_clear" \in CallSteps /\ "failed" \in Statuses /\ attempts \in [Items -> Nat]
    BY DEF CallSteps, Statuses, TypeOK
  <2> QED
    BY <1>2, <1>6, <1>16, <2>1 DEF MarkCancelled
<1>17. CASE ClearCancelled(h)
  <2>1. work' \in [Items -> WorkRecords]
    BY <1>2, <1>17, FieldMoves DEF ClearCancelled
  <2>2. call' \in [Handlers -> Calls \cup {Idle}] /\ clearing' \subseteq Items
    BY <1>5, <1>17 DEF ClearCancelled
  <2>3. budget' \in Budgets
    BY <1>2, <1>3, <1>17 DEF ClearCancelled
  <2> QED
    BY <1>2, <1>17, <2>1, <2>2, <2>3 DEF TypeOK, ClearCancelled, workerVars, diskVars
<1> QED
  BY <1>7, <1>8, <1>9, <1>10, <1>11, <1>12, <1>13, <1>14, <1>15, <1>16, <1>17 DEF HandlerStep

\* The end of a deregistration.
LEMMA TypeCleared ==
    ASSUME TypeOK, NEW i \in Items, ClearDeregistered(i)
    PROVE  TypeOK'
<1>1. work' \in [Items -> WorkRecords]
  BY FieldMoves DEF ClearDeregistered
<1> QED
  BY <1>1 DEF TypeOK, ClearDeregistered, budgetVars, workerVars, diskVars

\* Time, the maintenance loop and a retry from the dead letter queue.
LEMMA TypeMaintenance ==
    ASSUME TypeOK, NEW i \in Items,
           BackoffElapsed(i) \/ ReclaimTimedOut(i) \/ Reap(i) \/ RetryFromDLQ(i)
    PROVE  TypeOK'
<1>1. work' \in [Items -> WorkRecords]
  <2>1. [work[i] EXCEPT !.backoff = FALSE] \in WorkRecords
    BY RecordMoves DEF TypeOK
  <2> QED
    BY <2>1, RecordMoves, NewWorkType
       DEF TypeOK, BackoffElapsed, ReclaimTimedOut, Reap, RetryFromDLQ
<1> QED
  BY <1>1 DEF TypeOK, BackoffElapsed, ReclaimTimedOut, Reap, RetryFromDLQ,
              budgetVars, workerVars, callVars, diskVars

\* The operator, the checkpoint and the restart.
LEMMA TypeOperator ==
    ASSUME TypeOK, Checkpoint \/ PurgeDLQ \/ Restart \/ \E l \in Limits : SetBudgetLimit(l)
    PROVE  TypeOK'
<1>1. CASE Checkpoint
  <2>1. disk' \in Snapshots
    BY <1>1, NewWorkType DEF TypeOK, Checkpoint, Snapshots
  <2> QED
    BY <1>1, <2>1 DEF TypeOK, Checkpoint, queueVars, budgetVars, workerVars, callVars
<1>2. CASE PurgeDLQ
  BY <1>2 DEF TypeOK, PurgeDLQ, SubmitPhases, budgetVars, workerVars, callVars, diskVars
<1>3. CASE Restart
  <2>1. submit' \in [Items -> SubmitPhases]
    BY <1>3 DEF TypeOK, Restart, SubmitPhases
  <2>2. budget' \in Budgets
    BY <1>3, BudgetAssumption DEF Restart, Budgets
  <2>3. items' \subseteq Items /\ dlq' \subseteq Items /\ work' \in [Items -> WorkRecords]
    BY <1>3 DEF TypeOK, Restart, Load, Snapshots
  <2> QED
    BY <1>3, <2>1, <2>2, <2>3 DEF TypeOK, Restart, WorkerStates
<1>4. CASE \E l \in Limits : SetBudgetLimit(l)
  <2>1. budget' \in Budgets
    BY <1>4, BudgetAssumption DEF TypeOK, SetBudgetLimit, Budgets
  <2> QED
    BY <1>4, <2>1 DEF TypeOK, SetBudgetLimit, queueVars, workerVars, callVars, diskVars
<1> QED
  BY <1>1, <1>2, <1>3, <1>4

\* No step leaves the types.
LEMMA TypeStep == TypeOK /\ [Next]_vars => TypeOK'
<1> SUFFICES ASSUME TypeOK, [Next]_vars PROVE TypeOK'
  OBVIOUS
<1>1. ASSUME NEW i \in Items, ItemStep(i) PROVE TypeOK'
  BY <1>1, TypeSubmit, TypeLookup, TypeCleared, TypeMaintenance DEF ItemStep
<1>2. ASSUME NEW w \in Workers, WorkerStep(w) PROVE TypeOK'
  <2>1. ASSUME NEW i \in Items, LookupStart(w, i) PROVE TypeOK'
    BY <2>1, TypeLookup
  <2> QED
    BY <1>2, <2>1, TypeWorker
<1>3. ASSUME NEW h \in Handlers, HandlerStep(h) PROVE TypeOK'
  BY <1>3, TypeHandler
<1>4. CASE UNCHANGED vars
  BY <1>4 DEF TypeOK, vars
<1> QED
  BY <1>1, <1>2, <1>3, <1>4, TypeOperator DEF Next

\* The coordinator's state is well-formed whatever requests arrive: no
\* counter leaves the naturals and no call in progress is malformed.
THEOREM TypeCorrect == Spec => []TypeOK
BY TypeInit, TypeStep, PTL DEF Spec

-----------------------------------------------------------------------------
(* No step drops a stored item. *)

\* The steps of the handlers only move an item between the queues.
LEMMA KeptHandler ==
    ASSUME NoWorkLost, NEW h \in Handlers, HandlerStep(h)
    PROVE  NoWorkLost'
<1>1. submit' = submit /\ items \cup dlq \subseteq items' \cup dlq'
  BY DEF HandlerStep, MarkRunning, TakeOver, MarkCompleted, BookCompleted, JudgeFailed,
         MarkRequeued, ClearRequeued, MarkFailed, FileFailed, MarkCancelled, ClearCancelled,
         File, queueVars
<1> QED
  BY <1>1 DEF NoWorkLost

\* A pushed item leaves a queue only into the other one, or by a purge that
\* is recorded, or by a restart that had not checkpointed it.
LEMMA KeptStep ==
    ASSUME TypeOK, NoWorkLost, [Next]_vars
    PROVE  NoWorkLost'
<1>1. ASSUME NEW i \in Items, ItemStep(i) PROVE NoWorkLost'
  <2>1. CASE SubmitCheck(i) \/ SubmitReject(i) \/ SubmitPush(i) \/ SubmitReserve(i)
    BY <2>1 DEF TypeOK, NoWorkLost, Stored, SubmitCheck, SubmitReject, SubmitPush,
                SubmitReserve, queueVars
  <2>2. CASE \/ \E r \in Costs \cup {NoResult} : LookupCompleted(i, r)
             \/ LookupFailed(i) \/ LookupCancel(i) \/ ClearDeregistered(i)
    BY <2>2 DEF NoWorkLost, LookupCompleted, LookupFailed, LookupCancel, Lookup,
                ClearDeregistered, queueVars
  <2>3. CASE BackoffElapsed(i) \/ ReclaimTimedOut(i) \/ Reap(i) \/ RetryFromDLQ(i)
    BY <2>3 DEF NoWorkLost, BackoffElapsed, ReclaimTimedOut, Reap, RetryFromDLQ
  <2> QED
    BY <1>1, <2>1, <2>2, <2>3 DEF ItemStep
<1>2. ASSUME NEW w \in Workers, WorkerStep(w) PROVE NoWorkLost'
  BY <1>2 DEF NoWorkLost, WorkerStep, Register, Heartbeat, PauseWorker, DrainWorker,
              ResumeWorker, SetStatus, DeregisterWorker, PollAdmit, PollEmpty, AssignBest,
              LookupStart, Lookup, queueVars
<1>3. ASSUME NEW h \in Handlers, HandlerStep(h) PROVE NoWorkLost'
  BY <1>3, KeptHandler
<1>4. CASE Restart
  BY <1>4 DEF NoWorkLost, Stored, Restart, Load
<1>5. CASE PurgeDLQ
  BY <1>5 DEF NoWorkLost, Stored, PurgeDLQ
<1>6. CASE Checkpoint \/ \E l \in Limits : SetBudgetLimit(l)
  BY <1>6 DEF NoWorkLost, Checkpoint, SetBudgetLimit, queueVars
<1>7. CASE UNCHANGED vars
  BY <1>7 DEF NoWorkLost, vars
<1> QED
  BY <1>1, <1>2, <1>3, <1>4, <1>5, <1>6, <1>7 DEF Next

-----------------------------------------------------------------------------
(* Overlapping failure reports. *)

\* There are at most as many of them as handlers.
LEMMA RequeuingSize ==
    ASSUME NEW i \in Items
    PROVE  /\ IsFiniteSet(Requeuing(i))
           /\ Cardinality(Requeuing(i)) \in Nat
           /\ Cardinality(Handlers) \in Nat
           /\ Cardinality(Requeuing(i)) <= Cardinality(Handlers)
<1>1. IsFiniteSet(Handlers) /\ Requeuing(i) \subseteq Handlers
  BY BoundAssumption DEF Requeuing
<1> QED
  BY <1>1, FS_Subset, FS_CardinalityType

\* A step that adds no such report and counts no retry keeps the room.
LEMMA RoomKept ==
    ASSUME TypeOK, TypeOK', RetryRoom,
           \A j \in Items : work'[j].retries = work[j].retries \/ work'[j].retries = 0,
           \A j \in Items : Requeuing(j)' \subseteq Requeuing(j)
    PROVE  RetryRoom'
<1> SUFFICES ASSUME NEW j \in Items
             PROVE  work'[j].retries + Cardinality(Requeuing(j)') <= RetryBound
  BY DEF RetryRoom, RetryBound
<1>1. /\ Cardinality(Requeuing(j)') \in Nat
      /\ Cardinality(Requeuing(j)') <= Cardinality(Requeuing(j))
  BY RequeuingSize, FS_Subset, FS_CardinalityType
<1>2. work[j].retries \in Nat /\ work'[j].retries <= work[j].retries
  BY DEF TypeOK, WorkRecords
<1>3. work[j].retries + Cardinality(Requeuing(j)) <= RetryBound
  BY DEF RetryRoom
<1>4. RetryBound \in Int /\ work'[j].retries \in Nat /\ Cardinality(Requeuing(j)) \in Nat
  BY RequeuingSize, RetryAssumption DEF RetryBound, TypeOK, WorkRecords
<1> QED
  BY <1>1, <1>2, <1>3, <1>4

\* A handler that goes on to another step than the counting one adds none.
LEMMA OtherAdvance ==
    ASSUME TypeOK, NEW h \in Handlers, NEW t, t # "fail_requeue", Advance(h, t),
           NEW j \in Items
    PROVE  Requeuing(j)' \subseteq Requeuing(j)
<1>1. call \in [Handlers -> Calls \cup {Idle}]
  BY DEF TypeOK
<1>2. call' = [call EXCEPT ![h] = [call[h] EXCEPT !.step = t]]
  BY DEF Advance
<1>3. \A g \in Handlers : g # h => call'[g] = call[g]
  BY <1>1, <1>2
<1>4. call'[h].step # "fail_requeue"
  <2>1. call'[h] = [call[h] EXCEPT !.step = t]
    BY <1>1, <1>2
  <2>2. CASE call[h] \in Calls
    BY <2>1, <2>2 DEF Calls
  <2>3. CASE call[h] = Idle
    BY <2>1, <2>3 DEF Idle
  <2> QED
    BY <1>1, <2>2, <2>3
<1> QED
  BY <1>3, <1>4 DEF Requeuing

\* Nor does a handler that returns.
LEMMA OtherReturn ==
    ASSUME TypeOK, NEW h \in Handlers, Return(h), NEW j \in Items
    PROVE  Requeuing(j)' \subseteq Requeuing(j)
<1>1. call \in [Handlers -> Calls \cup {Idle}] /\ call' = [call EXCEPT ![h] = Idle]
  BY DEF TypeOK, Return
<1>2. \A g \in Handlers : g # h => call'[g] = call[g]
  BY <1>1
<1>3. call'[h].step # "fail_requeue"
  BY <1>1 DEF Idle
<1> QED
  BY <1>2, <1>3 DEF Requeuing

\* A report that is judged retryable still finds room: its counter is below
\* MaxRetries, and at most every handler is in the same place.
LEMMA RoomJudged ==
    ASSUME TypeOK, RetryRoom, NEW h \in Handlers, JudgeFailed(h)
    PROVE  RetryRoom'
<1> SUFFICES ASSUME NEW j \in Items
             PROVE  work'[j].retries + Cardinality(Requeuing(j)') <= RetryBound
  BY DEF RetryRoom, RetryBound
<1>0. call[h].step # "idle" /\ call[h].item \in Items
  BY CallTypes DEF JudgeFailed
<1>1. work' = work /\ work[j].retries \in Nat
  BY DEF JudgeFailed, queueVars, TypeOK, WorkRecords
<1>2. /\ Cardinality(Requeuing(j)') \in Nat
      /\ Cardinality(Requeuing(j)') <= Cardinality(Handlers)
      /\ Cardinality(Handlers) \in Nat
  <2>1. IsFiniteSet(Handlers) /\ Requeuing(j)' \subseteq Handlers
    BY BoundAssumption DEF Requeuing
  <2> QED
    BY <2>1, FS_Subset, FS_CardinalityType
<1>3. CASE call[h].item = j /\ WillRetry(j)
  <2>1. work[j].retries < MaxRetries
    BY <1>3 DEF WillRetry
  <2> QED
    BY <1>1, <1>2, <2>1, RetryAssumption DEF RetryBound
<1>4. CASE ~(call[h].item = j /\ WillRetry(j))
  <2>1. Requeuing(j)' \subseteq Requeuing(j)
    <3>1. CASE ~WillRetry(call[h].item)
      BY <3>1, OtherAdvance DEF JudgeFailed
    <3>2. CASE call[h].item # j
      <4>1. call \in [Handlers -> Calls \cup {Idle}] /\ call[h] \in Calls
        BY <1>0, CallTypes DEF TypeOK
      <4>2. PICK t : call' = [call EXCEPT ![h] = [call[h] EXCEPT !.step = t]]
        BY DEF JudgeFailed, Advance
      <4>3. \A g \in Handlers : g # h => call'[g] = call[g]
        BY <4>1, <4>2
      <4>4. call'[h] = [call[h] EXCEPT !.step = t]
        BY <4>1, <4>2
      <4>5. call'[h].item # j
        BY <3>2, <4>1, <4>4 DEF Calls
      <4> QED
        BY <4>3, <4>5 DEF Requeuing
    <3> QED
      BY <1>4, <3>1, <3>2
  <2>2. Cardinality(Requeuing(j)') <= Cardinality(Requeuing(j))
    BY <2>1, RequeuingSize, FS_Subset
  <2>3. work[j].retries + Cardinality(Requeuing(j)) <= RetryBound
    BY DEF RetryRoom
  <2> QED
    BY <1>1, <1>2, <2>2, <2>3, RequeuingSize, RetryAssumption DEF RetryBound
<1> QED
  BY <1>3, <1>4

\* Counting the retry uses the room that the judgement found.
LEMMA RoomCounted ==
    ASSUME TypeOK, RetryRoom, NEW h \in Handlers, MarkRequeued(h)
    PROVE  RetryRoom'
<1> SUFFICES ASSUME NEW j \in Items
             PROVE  work'[j].retries + Cardinality(Requeuing(j)') <= RetryBound
  BY DEF RetryRoom, RetryBound
<1>1. Requeuing(j)' \subseteq Requeuing(j)
  BY OtherAdvance DEF MarkRequeued
<1>2. work \in [Items -> WorkRecords] /\ work[j].retries \in Nat
  BY DEF TypeOK, WorkRecords
<1>3. work[j].retries + Cardinality(Requeuing(j)) <= RetryBound
  BY DEF RetryRoom
<1>4. IsFiniteSet(Requeuing(j)) /\ Cardinality(Requeuing(j)) \in Nat /\ RetryBound \in Int
  BY RequeuingSize, RetryAssumption DEF RetryBound
<1>5. Cardinality(Requeuing(j)') \in Nat /\ Cardinality(Requeuing(j)') <= Cardinality(Requeuing(j))
  BY <1>1, <1>4, FS_Subset, FS_CardinalityType
<1>6. CASE j # call[h].item
  <2>1. work'[j] = work[j]
    BY <1>2, <1>6 DEF MarkRequeued
  <2> QED
    BY <1>2, <1>3, <1>4, <1>5, <2>1
<1>7. CASE j = call[h].item
  <2>1. work'[j].retries = work[j].retries + 1
    BY <1>2, <1>7 DEF MarkRequeued, Requeued, WorkRecords
  <2>2. h \in Requeuing(j)
    BY <1>7 DEF MarkRequeued, Requeuing
  <2>3. h \notin Requeuing(j)'
    <3>1. call \in [Handlers -> Calls \cup {Idle}] /\ call[h] \in Calls
      BY CallTypes DEF TypeOK, MarkRequeued
    <3>2. call' = [call EXCEPT ![h] = [call[h] EXCEPT !.step = "fail_clear"]]
      BY DEF MarkRequeued, Advance
    <3>3. call'[h] = [call[h] EXCEPT !.step = "fail_clear"]
      BY <3>1, <3>2
    <3>4. call'[h].step = "fail_clear"
      BY <3>1, <3>3 DEF Calls
    <3> QED
      BY <3>4 DEF Requeuing
  <2>4. Requeuing(j)' \subseteq Requeuing(j) \ {h}
    BY <1>1, <2>3
  <2>5. Cardinality(Requeuing(j)') <= Cardinality(Requeuing(j)) - 1
    <3>1. /\ IsFiniteSet(Requeuing(j) \ {h})
          /\ Cardinality(Requeuing(j) \ {h}) = Cardinality(Requeuing(j)) - 1
      BY <1>4, <2>2, FS_RemoveElement
    <3> QED
      BY <2>4, <3>1, FS_Subset
  <2> QED
    BY <1>2, <1>3, <1>4, <1>5, <2>1, <2>5
<1> QED
  BY <1>6, <1>7

\* The other steps of the handlers neither count retries nor judge.
LEMMA RoomHandler ==
    ASSUME TypeOK, TypeOK', RetryRoom, NEW h \in Handlers, HandlerStep(h)
    PROVE  RetryRoom'
<1>0. work \in [Items -> WorkRecords]
  BY DEF TypeOK
<1>1. CASE JudgeFailed(h) \/ MarkRequeued(h)
  BY <1>1, RoomJudged, RoomCounted
<1>2. CASE MarkRunning(h) \/ MarkCompleted(h) \/ MarkFailed(h) \/ MarkCancelled(h)
  <2>1. \A j \in Items : work'[j].retries = work[j].retries
    BY <1>0, <1>2
       DEF MarkRunning, MarkCompleted, MarkFailed, MarkCancelled, SetStatusOf, WorkRecords
  <2>2. \A j \in Items : Requeuing(j)' \subseteq Requeuing(j)
    BY <1>2, OtherAdvance DEF MarkRunning, MarkCompleted, MarkFailed, MarkCancelled
  <2> QED
    BY <2>1, <2>2, RoomKept
<1>3. CASE \/ TakeOver(h) \/ BookCompleted(h) \/ ClearRequeued(h) \/ FileFailed(h)
           \/ ClearCancelled(h)
  <2>1. \A j \in Items : work'[j].retries = work[j].retries
    <3>1. CASE TakeOver(h) \/ ClearCancelled(h)
      BY <1>0, <3>1 DEF TakeOver, ClearCancelled, WorkRecords
    <3>2. CASE ClearRequeued(h)
      <4>1. \A i \in Items : Cleared(work[i]).retries = work[i].retries
        BY <1>0 DEF Cleared, WorkRecords
      <4> QED
        BY <1>0, <3>2, <4>1 DEF ClearRequeued
    <3>3. CASE FileFailed(h) \/ BookCompleted(h)
      BY <3>3 DEF FileFailed, BookCompleted
    <3> QED
      BY <1>3, <3>1, <3>2, <3>3
  <2>2. \A j \in Items : Requeuing(j)' \subseteq Requeuing(j)
    BY <1>3, OtherReturn DEF TakeOver, BookCompleted, ClearRequeued, FileFailed, ClearCancelled
  <2> QED
    BY <2>1, <2>2, RoomKept
<1> QED
  BY <1>1, <1>2, <1>3 DEF HandlerStep

\* A lookup begins a request that is not about to count a retry.
LEMMA RoomLookup ==
    ASSUME TypeOK, TypeOK', RetryRoom, NEW i \in Items,
           \/ \E w \in Workers : LookupStart(w, i)
           \/ \E r \in Costs \cup {NoResult} : LookupCompleted(i, r)
           \/ LookupFailed(i)
           \/ LookupCancel(i)
    PROVE  RetryRoom'
<1>0. ASSUME NEW c, c.step # "fail_requeue", Lookup(c) PROVE RetryRoom'
  <2>1. \A j \in Items : Requeuing(j)' \subseteq Requeuing(j)
    BY <1>0 DEF TypeOK, Lookup, Requeuing
  <2>2. work' = work
    BY <1>0 DEF Lookup, queueVars
  <2> QED
    BY <2>1, <2>2, RoomKept
<1>1. ASSUME NEW w \in Workers, LookupStart(w, i) PROVE RetryRoom'
  <2>1. Start(w, i).step # "fail_requeue"
    BY DEF Start
  <2> QED
    BY <1>0, <1>1, <2>1 DEF LookupStart
<1>2. ASSUME NEW r \in Costs \cup {NoResult}, LookupCompleted(i, r) PROVE RetryRoom'
  <2>1. Completion(i, r).step # "fail_requeue"
    BY DEF Completion
  <2> QED
    BY <1>0, <1>2, <2>1 DEF LookupCompleted
<1>3. CASE LookupFailed(i) \/ LookupCancel(i)
  <2>1. Call("fail", i).step # "fail_requeue" /\ Call("cancel", i).step # "fail_requeue"
    BY DEF Call
  <2> QED
    BY <1>0, <1>3, <2>1 DEF LookupFailed, LookupCancel
<1> QED
  BY <1>1, <1>2, <1>3

\* The other steps of an item start it afresh or leave its counter alone.
LEMMA RoomItem ==
    ASSUME TypeOK, TypeOK', RetryRoom, NEW i \in Items, ItemStep(i)
    PROVE  RetryRoom'
<1>0. work \in [Items -> WorkRecords]
  BY DEF TypeOK
<1>1. CASE \/ SubmitCheck(i) \/ SubmitReject(i) \/ SubmitPush(i) \/ SubmitReserve(i)
           \/ ClearDeregistered(i) \/ BackoffElapsed(i) \/ ReclaimTimedOut(i) \/ Reap(i)
           \/ RetryFromDLQ(i)
  <2>1. \A j \in Items : work'[j].retries = work[j].retries \/ work'[j].retries = 0
    <3>1. CASE SubmitCheck(i) \/ SubmitReject(i) \/ SubmitReserve(i) \/ Reap(i)
      BY <3>1 DEF SubmitCheck, SubmitReject, SubmitReserve, Reap, queueVars
    <3>2. CASE SubmitPush(i) \/ RetryFromDLQ(i)
      <4>1. work' = [work EXCEPT ![i] = NewWork]
        BY <3>2 DEF SubmitPush, RetryFromDLQ
      <4> QED
        BY <1>0, <4>1 DEF NewWork
    <3>3. CASE BackoffElapsed(i) \/ ClearDeregistered(i)
      BY <1>0, <3>3 DEF BackoffElapsed, ClearDeregistered, WorkRecords
    <3>4. CASE ReclaimTimedOut(i)
      <4>1. Unassigned(work[i]).retries = work[i].retries
        BY <1>0 DEF Unassigned, Owned, WorkRecords
      <4> QED
        BY <1>0, <3>4, <4>1 DEF ReclaimTimedOut
    <3> QED
      BY <1>1, <3>1, <3>2, <3>3, <3>4
  <2>2. call' = call
    BY <1>1 DEF SubmitCheck, SubmitReject, SubmitPush, SubmitReserve, ClearDeregistered,
           BackoffElapsed, ReclaimTimedOut, Reap, RetryFromDLQ, callVars
  <2>3. \A j \in Items : Requeuing(j)' \subseteq Requeuing(j)
    BY <2>2 DEF Requeuing
  <2> QED
    BY <2>1, <2>3, RoomKept
<1> QED
  BY <1>1, RoomLookup DEF ItemStep

\* The registry, the polls and the assignment leave the counters alone.
LEMMA RoomWorker ==
    ASSUME TypeOK, TypeOK', RetryRoom, NEW w \in Workers, WorkerStep(w)
    PROVE  RetryRoom'
<1>0. work \in [Items -> WorkRecords]
  BY DEF TypeOK
<1>1. ASSUME call' = call, \A j \in Items : work'[j].retries = work[j].retries
      PROVE  RetryRoom'
  <2>1. \A j \in Items : Requeuing(j)' \subseteq Requeuing(j)
    BY <1>1 DEF Requeuing
  <2> QED
    BY <1>1, <2>1, RoomKept
<1>2. CASE DeregisterWorker(w)
  BY <1>0, <1>1, <1>2 DEF DeregisterWorker, WorkRecords
<1>3. ASSUME NEW i \in Items, AssignBest(w, i) PROVE RetryRoom'
  <2>1. Owned(work[i], "assigned", w).retries = work[i].retries
    BY <1>0 DEF Owned, WorkRecords
  <2>2. \A j \in Items : work'[j].retries = work[j].retries
    BY <1>0, <1>3, <2>1 DEF AssignBest
  <2> QED
    BY <1>1, <1>3, <2>2 DEF AssignBest, callVars
<1>4. ASSUME NEW i \in Items, LookupStart(w, i) PROVE RetryRoom'
  BY <1>4, RoomLookup
<1>5. CASE work' = work /\ call' = call
  BY <1>1, <1>5
<1> QED
  BY <1>2, <1>3, <1>4, <1>5 DEF WorkerStep, Register, Heartbeat, PauseWorker, DrainWorker,
     ResumeWorker, SetStatus, PollAdmit, PollEmpty, queueVars, callVars

\* No step uses up more room than there is, also not a restart.
LEMMA RoomStep ==
    ASSUME TypeOK, TypeOK', RetryRoom, DiskBounded, [Next]_vars
    PROVE  RetryRoom'
<1>1. ASSUME NEW h \in Handlers, HandlerStep(h) PROVE RetryRoom'
  BY <1>1, RoomHandler
<1>2. CASE Restart
  <2>1. \A j \in Items : Requeuing(j)' = {}
    BY <1>2 DEF Restart, Requeuing, Idle
  <2>2. \A j \in Items : work'[j].retries <= RetryBound /\ work'[j].retries \in Nat
    BY <1>2 DEF Restart, Load, DiskBounded, TypeOK, WorkRecords
  <2> SUFFICES ASSUME NEW j \in Items
               PROVE  work'[j].retries + Cardinality(Requeuing(j)') <= RetryBound
    BY DEF RetryRoom, RetryBound
  <2>3. Cardinality(Requeuing(j)') = 0
    BY <2>1, FS_EmptySet
  <2> QED
    BY <2>2, <2>3
<1>3. CASE Checkpoint \/ PurgeDLQ \/ (\E l \in Limits : SetBudgetLimit(l)) \/ UNCHANGED vars
  <2>1. work' = work /\ call' = call
    BY <1>3 DEF Checkpoint, PurgeDLQ, SetBudgetLimit, vars, queueVars, callVars
  <2>2. \A j \in Items : Requeuing(j)' \subseteq Requeuing(j)
    BY <2>1 DEF Requeuing
  <2> QED
    BY <2>1, <2>2, RoomKept
<1> QED
  BY <1>1, <1>2, <1>3, RoomItem, RoomWorker DEF Next

\* What is checkpointed is within the bound.
LEMMA DiskStep ==
    ASSUME TypeOK, RetryRoom, DiskBounded, [Next]_vars
    PROVE  DiskBounded'
<1>1. CASE disk' = disk
  BY <1>1 DEF DiskBounded, RetryBound
<1>2. CASE Checkpoint
  <2> SUFFICES ASSUME NEW j \in Items PROVE disk'.work[j].retries <= RetryBound
    BY DEF DiskBounded, RetryBound
  <2>1. disk'.work[j] = work[j] \/ disk'.work[j] = NewWork
    BY <1>2 DEF Checkpoint
  <2>2. work[j].retries + Cardinality(Requeuing(j)) <= RetryBound
    BY DEF RetryRoom
  <2>3. work[j].retries \in Nat /\ NewWork.retries = 0
    BY DEF TypeOK, WorkRecords, NewWork
  <2> QED
    BY <2>1, <2>2, <2>3, RequeuingSize, RetryAssumption DEF RetryBound
<1>3. ASSUME NEW i \in Items, ItemStep(i) PROVE disk' = disk
  BY <1>3 DEF ItemStep, SubmitCheck, SubmitReject, SubmitPush, SubmitReserve,
     LookupCompleted, LookupFailed, LookupCancel, Lookup, ClearDeregistered, BackoffElapsed,
     ReclaimTimedOut, Reap, RetryFromDLQ, diskVars
<1>4. ASSUME NEW w \in Workers, WorkerStep(w) PROVE disk' = disk
  BY <1>4 DEF WorkerStep, Register, Heartbeat, PauseWorker, DrainWorker, ResumeWorker,
     SetStatus, DeregisterWorker, PollAdmit, PollEmpty, AssignBest, LookupStart, Lookup,
     diskVars
<1>5. ASSUME NEW h \in Handlers, HandlerStep(h) PROVE disk' = disk
  BY <1>5 DEF HandlerStep, MarkRunning, TakeOver, MarkCompleted, BookCompleted, JudgeFailed,
     MarkRequeued, ClearRequeued, MarkFailed, FileFailed, MarkCancelled, ClearCancelled,
     diskVars
<1>6. CASE PurgeDLQ \/ Restart \/ (\E l \in Limits : SetBudgetLimit(l)) \/ UNCHANGED vars
  BY <1>1, <1>6 DEF PurgeDLQ, Restart, SetBudgetLimit, vars, diskVars
<1> QED
  BY <1>1, <1>2, <1>3, <1>4, <1>5, <1>6 DEF Next

-----------------------------------------------------------------------------
(* The theorems. *)

\* The initial queue is empty, in memory and on disk.
LEMMA InvInit == Init => IInv
<1> SUFFICES ASSUME Init PROVE IInv
  OBVIOUS
<1>1. NoWorkLost
  BY DEF Init, NoWorkLost, Stored
<1>2. \A i \in Items : Requeuing(i) = {} /\ work[i].retries = 0 /\ disk.work[i].retries = 0
  BY DEF Init, Requeuing, NewWork, Idle
<1>3. RetryBound \in Nat
  <2>1. Cardinality(Handlers) \in Nat
    BY BoundAssumption, FS_CardinalityType
  <2> QED
    BY <2>1, RetryAssumption DEF RetryBound
<1>4. RetryRoom /\ DiskBounded
  BY <1>2, <1>3, FS_EmptySet DEF RetryRoom, DiskBounded
<1> QED
  BY <1>1, <1>4, TypeInit DEF IInv

\* IInv is inductive.
LEMMA InvStep == IInv /\ [Next]_vars => IInv'
<1> SUFFICES ASSUME IInv, [Next]_vars PROVE IInv'
  OBVIOUS
<1>1. TypeOK'
  BY TypeStep DEF IInv
<1>2. NoWorkLost'
  BY KeptStep DEF IInv
<1>3. RetryRoom' /\ DiskBounded'
  BY <1>1, RoomStep, DiskStep DEF IInv
<1> QED
  BY <1>1, <1>2, <1>3 DEF IInv

\* The inductive invariant holds in every reachable state.
THEOREM Invariant == Spec => []IInv
BY InvInit, InvStep, PTL DEF Spec

\* Failure reports that overlap, arrive late or come twice, across restarts,
\* never give an item more than MaxRetries automatic retries and one for each
\* other request served at the same time; with requests served one at a time,
\* never more than MaxRetries.
THEOREM RetriesAreBounded == Spec => []RetriesBounded
<1>1. IInv => RetriesBounded
  <2> SUFFICES ASSUME IInv, NEW i \in Items
               PROVE  work[i].retries <= MaxRetries + Cardinality(Handlers) - 1
    BY DEF RetriesBounded
  <2>1. work[i].retries + Cardinality(Requeuing(i)) <= RetryBound
    BY DEF IInv, RetryRoom
  <2>2. work[i].retries \in Nat
    BY DEF IInv, TypeOK, WorkRecords
  <2> QED
    BY <2>1, <2>2, RequeuingSize, RetryAssumption DEF RetryBound
<1> QED
  BY <1>1, Invariant, PTL

\* No race of reports, cancels, reapers and dead letter retries drops an item
\* that was pushed: it is in a queue until it is purged or a restart finds it
\* was never checkpointed.
THEOREM WorkIsKept == Spec => []NoWorkLost
<1>1. IInv => NoWorkLost
  BY DEF IInv
<1> QED
  BY <1>1, Invariant, PTL
=============================================================================
