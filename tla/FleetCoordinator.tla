-------------------------- MODULE FleetCoordinator --------------------------
(***************************************************************************)
(* The fleet coordinator of internal/fleet: the work queue with its dead   *)
(* letter queue (queue.go), the fleet budget, the worker registry and the  *)
(* HTTP handlers (server.go, server_handlers.go, server_dispatch.go), the  *)
(* retry tracker (retry.go) and the per-worker budgets (budget.go).        *)
(*                                                                         *)
(* The module is open: a worker or a client may send any request at any    *)
(* time, so late, repeated and contradictory reports are all included.     *)
(* FleetSystem adds the worker agents that send them.                      *)
(*                                                                         *)
(* Grain of atomicity.  One action is one critical section, or a handler's *)
(* run between two points where it holds no lock and other handlers can    *)
(* intervene with an effect:                                               *)
(*   - SubmitWork is a check, a Push and a reservation;                    *)
(*   - a poll reads the available budget and assigns later (AssignBest);   *)
(*   - start, complete, cancel and deregister take the record's pointer    *)
(*     under q.mu, check it, and write its fields through the pointer with *)
(*     no lock: the status first, the owner later.  call[h] says how far   *)
(*     such a handler has come from its lookup to its return.              *)
(* DeregisterWorker is coarser: it makes all claims of its worker pending  *)
(* in one action, so no handler acts between its test of a claim and its   *)
(* write.  A poll is looser: that of a disconnected worker, which the code *)
(* answers with nothing until the next heartbeat, may be given an item.    *)
(* An ID is submitted once, while the code lets a client choose an ID that *)
(* is in use, and replaces its record.                                     *)
(***************************************************************************)
EXTENDS Integers, FiniteSets

CONSTANTS
    Items,          \* work item identifiers
    Workers,        \* worker node identifiers
    NoWorker,       \* the empty AssignedTo
    MaxBudget,      \* MaxBudgetUSD of each item; 0 is an item without a budget
    Priority,       \* Priority of each item
    CanRun,         \* workers that meet an item's provider and locality constraints
    MaxRetries,     \* WorkItem.MaxRetries
    PolicyRetries,  \* RetryPolicy.MaxRetries
    WorkerLimit,    \* the budget manager's default limit per worker
    Limits,         \* fleet-wide ceilings an operator may set
    InitLimit,      \* the ceiling at start
    Costs,          \* SpentUSD a worker may report
    NoResult,       \* a completion whose payload has no result
    Handlers,       \* bound: goroutines that serve start, complete and cancel
    MaxAttempts,    \* bound: attempts the retry tracker counts
    MaxSpent,       \* bound: fleet spend at which no more completions arrive
    MaxRestarts     \* bound: coordinator restarts

ASSUME WorkerAssumption == NoWorker \notin Workers
ASSUME ItemAssumption ==
    /\ MaxBudget \in [Items -> Nat]
    /\ Priority \in [Items -> Nat]
    /\ CanRun \in [Items -> SUBSET Workers]
ASSUME RetryAssumption == MaxRetries \in Nat \ {0} /\ PolicyRetries \in Nat
ASSUME BudgetAssumption ==
    /\ WorkerLimit \in Nat
    /\ Limits \subseteq Nat
    /\ InitLimit \in Nat
    /\ Costs \subseteq Nat
    /\ NoResult \notin Nat
ASSUME BoundAssumption ==
    /\ IsFiniteSet(Handlers)
    /\ MaxAttempts \in Nat /\ MaxSpent \in Nat /\ MaxRestarts \in Nat

VARIABLES
    items,        \* identifiers in WorkQueue.items
    dlq,          \* identifiers in WorkQueue.dlq; both maps share the records
    work,         \* the records
    submit,       \* how far the submission of each item has come
    attempts,     \* RetryTracker.attempts
    budget,       \* GlobalBudget
    workerSpent,  \* BudgetManager: Spent of each worker
    worker,       \* Coordinator.workers: the status of each worker
    full,         \* ActiveSessions >= MaxSessions, as last reported
    poll,         \* polls in progress: the available budget they have read
    call,         \* what each handler past its lookup of an item is doing
    clearing,     \* items a deregistration has made pending and not yet unowned
    disk,         \* fleet-queue.json
    restarts      \* coordinator restarts so far

queueVars  == <<items, dlq, work>>
budgetVars == <<budget, workerSpent>>
workerVars == <<worker, full>>
callVars   == <<call, clearing>>
diskVars   == <<disk, restarts>>
vars == <<items, dlq, work, submit, attempts, budget, workerSpent,
          worker, full, poll, call, clearing, disk, restarts>>

-----------------------------------------------------------------------------
Statuses == {"pending", "assigned", "running", "completed", "failed"}
Terminal == {"completed", "failed"}
Active   == {"assigned", "running"}

WorkRecords == [status  : Statuses,
                owner   : Workers \cup {NoWorker},
                retries : Nat,
                backoff : BOOLEAN]      \* RetryAfter lies in the future

NewWork == [status |-> "pending", owner |-> NoWorker, retries |-> 0, backoff |-> FALSE]

SubmitPhases == {"new", "checked", "pushed", "accepted", "purged", "lost"}
Stored       == {"pushed", "accepted"}

\* "online" stands for online, stale and disconnected: expireWorkers moves a
\* worker between these three only, and no handler treats them differently.
WorkerStates == {"absent", "online", "paused", "draining"}
Held         == {"paused", "draining"}

NoPoll == -1

\* How far a handler has come, named for what it does next.
CallSteps ==
    {"start", "start_owner",                             \* handleWorkStart
     "complete", "complete_book",                        \* handleWorkComplete, completed
     "fail", "fail_requeue", "fail_clear",               \* ... failed, to be retried
     "fail_bury", "fail_file",                           \* ... failed for good
     "cancel", "cancel_clear"}                           \* CancelWork

Calls == [step   : CallSteps,
          item   : Items,
          worker : Workers \cup {NoWorker},    \* the new owner, of a start
          cost   : Costs \cup {NoResult}]      \* the result, of a completion

Call(s, i)       == [step |-> s, item |-> i, worker |-> NoWorker, cost |-> NoResult]
Start(w, i)      == [step |-> "start", item |-> i, worker |-> w, cost |-> NoResult]
Completion(i, r) == [step |-> "complete", item |-> i, worker |-> NoWorker, cost |-> r]

\* A handler that serves no request.
Idle == [step |-> "idle"]

Budgets == [limit : Nat, spent : Nat, reserved : Nat]

Snapshots == [items : SUBSET Items, dlq : SUBSET Items, work : [Items -> WorkRecords]]

\* The coordinator's state is well-formed; in particular Release and Booked
\* keep the budget and each worker's spend natural numbers.
TypeOK ==
    /\ items \subseteq Items
    /\ dlq \subseteq Items
    /\ work \in [Items -> WorkRecords]
    /\ submit \in [Items -> SubmitPhases]
    /\ attempts \in [Items -> Nat]
    /\ budget \in Budgets
    /\ workerSpent \in [Workers -> Nat]
    /\ worker \in [Workers -> WorkerStates]
    /\ full \in [Workers -> BOOLEAN]
    /\ poll \in [Workers -> Nat \cup {NoPoll}]
    /\ call \in [Handlers -> Calls \cup {Idle}]
    /\ clearing \subseteq Items
    /\ disk \in Snapshots
    /\ restarts \in Nat

Init ==
    /\ items = {}
    /\ dlq = {}
    /\ work = [i \in Items |-> NewWork]
    /\ submit = [i \in Items |-> "new"]
    /\ attempts = [i \in Items |-> 0]
    /\ budget = [limit |-> InitLimit, spent |-> 0, reserved |-> 0]
    /\ workerSpent = [w \in Workers |-> 0]
    /\ worker = [w \in Workers |-> "absent"]
    /\ full = [w \in Workers |-> FALSE]
    /\ poll = [w \in Workers |-> NoPoll]
    /\ call = [h \in Handlers |-> Idle]
    /\ clearing = {}
    /\ disk = [items |-> {}, dlq |-> {}, work |-> [i \in Items |-> NewWork]]
    /\ restarts = 0

\* Mutant: the amount is not kept from going below zero.
Unclamped(a, b) == a - b

Monus(a, b) == IF a < b THEN 0 ELSE a - b

\* Mutant: reservations are not counted.
UnspentBudget == Monus(budget.limit, budget.spent)

AvailableBudget == Monus(budget.limit, budget.spent + budget.reserved)

Reserve(i) == [budget EXCEPT !.reserved = @ + MaxBudget[i]]

\* Mutant: the outcome leaves the reservation standing.
StandingReservation(i) == budget

Release(i) == [budget EXCEPT !.reserved = Monus(@, MaxBudget[i])]

Owned(r, s, o) == [r EXCEPT !.status = s, !.owner = o]
Requeued(r)    == [r EXCEPT !.status = "pending", !.retries = @ + 1]
Cleared(r)     == [r EXCEPT !.owner = NoWorker, !.backoff = TRUE]

\* Mutant: the item goes back to the queue with its owner.
PendingStillOwned(r) == [r EXCEPT !.status = "pending"]

Unassigned(r) == Owned(r, "pending", NoWorker)

-----------------------------------------------------------------------------
(* Submission: SubmitWork and handleWorkSubmit. *)

\* The budget gate, read under the read lock.
SubmitCheck(i) ==
    /\ submit[i] = "new"
    /\ MaxBudget[i] > 0 => MaxBudget[i] <= AvailableBudget
    /\ submit' = [submit EXCEPT ![i] = "checked"]
    /\ UNCHANGED <<queueVars, attempts, budgetVars, workerVars, poll, callVars, diskVars>>

\* PushValidated finds no repository at RepoPath.
SubmitReject(i) ==
    /\ submit[i] = "checked"
    /\ submit' = [submit EXCEPT ![i] = "new"]
    /\ UNCHANGED <<queueVars, attempts, budgetVars, workerVars, poll, callVars, diskVars>>

\* Push: from here on the item can be assigned.
SubmitPush(i) ==
    /\ submit[i] = "checked"
    /\ items' = items \cup {i}
    /\ work' = [work EXCEPT ![i] = NewWork]
    /\ submit' = [submit EXCEPT ![i] = "pushed"]
    /\ UNCHANGED <<dlq, attempts, budgetVars, workerVars, poll, callVars, diskVars>>

SubmitReserve(i) ==
    /\ submit[i] = "pushed"
    /\ budget' = Reserve(i)
    /\ submit' = [submit EXCEPT ![i] = "accepted"]
    /\ UNCHANGED <<queueVars, attempts, workerSpent, workerVars, poll, callVars, diskVars>>

-----------------------------------------------------------------------------
(* The worker registry. *)

Register(w) ==
    /\ worker' = [worker EXCEPT ![w] = "online"]
    /\ full' = [full EXCEPT ![w] = FALSE]
    /\ UNCHANGED <<queueVars, submit, attempts, budgetVars, poll, callVars, diskVars>>

\* Mutant: a worker once reported full stays full.
StickyHeartbeat(w, f) ==
    /\ worker[w] # "absent"
    /\ full' = [full EXCEPT ![w] = @ \/ f]
    /\ UNCHANGED <<queueVars, submit, attempts, budgetVars, worker, poll, callVars, diskVars>>

\* A heartbeat keeps a paused or draining status.
Heartbeat(w, f) ==
    /\ worker[w] # "absent"
    /\ full' = [full EXCEPT ![w] = f]
    /\ UNCHANGED <<queueVars, submit, attempts, budgetVars, worker, poll, callVars, diskVars>>

SetStatus(w, s) ==
    /\ worker' = [worker EXCEPT ![w] = s]
    /\ UNCHANGED <<queueVars, submit, attempts, budgetVars, full, poll, callVars, diskVars>>

PauseWorker(w)  == worker[w] # "absent" /\ SetStatus(w, "paused")
DrainWorker(w)  == worker[w] # "absent" /\ SetStatus(w, "draining")
ResumeWorker(w) == worker[w] \in Held /\ SetStatus(w, "online")

Claims(w) == {i \in items : work[i].status = "assigned" /\ work[i].owner = w}

\* The worker's claims become pending; running items keep their owner.  The
\* handler holds c.mu, so there is only one at a time.
DeregisterWorker(w) ==
    /\ worker[w] # "absent"
    /\ work' = [i \in Items |-> IF i \in Claims(w)
                                THEN [work[i] EXCEPT !.status = "pending"]
                                ELSE work[i]]
    /\ clearing = {}
    /\ clearing' = Claims(w)
    /\ worker' = [worker EXCEPT ![w] = "absent"]
    /\ full' = [full EXCEPT ![w] = FALSE]
    /\ UNCHANGED <<items, dlq, submit, attempts, budgetVars, poll, call, diskVars>>

\* ... and lose their owner.
ClearDeregistered(i) ==
    /\ i \in clearing
    /\ clearing' = clearing \ {i}
    /\ work' = [work EXCEPT ![i].owner = NoWorker]
    /\ items' = items \cup {i}
    /\ UNCHANGED <<dlq, submit, attempts, budgetVars, workerVars, poll, call, diskVars>>

\* Mutant: claims that have not started are not counted.
NothingRunning(w) ==
    /\ worker[w] = "draining"
    /\ ~ \E i \in items : work[i].owner = w /\ work[i].status = "running"

\* IsWorkerDrained.
Drained(w) ==
    /\ worker[w] = "draining"
    /\ ~ \E i \in items : work[i].owner = w /\ work[i].status \in Active

-----------------------------------------------------------------------------
(* Dispatch: handleWorkPoll and assignWork. *)

\* Mutant: any registered worker is handed work.
PollAnyStatus(w) ==
    /\ poll[w] = NoPoll
    /\ worker[w] # "absent"
    /\ ~full[w]
    /\ poll' = [poll EXCEPT ![w] = AvailableBudget]
    /\ UNCHANGED <<queueVars, submit, attempts, budgetVars, workerVars, callVars, diskVars>>

\* The registry checks pass and the available budget is read.
PollAdmit(w) ==
    /\ poll[w] = NoPoll
    /\ worker[w] = "online"
    /\ ~full[w]
    /\ poll' = [poll EXCEPT ![w] = AvailableBudget]
    /\ UNCHANGED <<queueVars, submit, attempts, budgetVars, workerVars, callVars, diskVars>>

\* Mutant: the item's constraints are not looked at.
EligibleAnywhere(w) ==
    {i \in items :
        /\ work[i].status = "pending"
        /\ ~work[i].backoff
        /\ MaxBudget[i] > 0 => /\ MaxBudget[i] <= poll[w]
                               /\ MaxBudget[i] <= WorkerLimit - workerSpent[w]}

\* What the scorer does not skip.
Eligible(w) ==
    {i \in items :
        /\ work[i].status = "pending"
        /\ ~work[i].backoff
        /\ MaxBudget[i] > 0 => /\ MaxBudget[i] <= poll[w]
                               /\ MaxBudget[i] <= WorkerLimit - workerSpent[w]
        /\ w \in CanRun[i]}

\* A score is 100 * Priority plus at most 50, so priority decides and the
\* other terms only break ties.
AssignBest(w, i) ==
    /\ poll[w] # NoPoll
    /\ i \in Eligible(w)
    /\ \A j \in Eligible(w) : Priority[j] <= Priority[i]
    /\ work' = [work EXCEPT ![i] = Owned(@, "assigned", w)]
    /\ poll' = [poll EXCEPT ![w] = NoPoll]
    /\ UNCHANGED <<items, dlq, submit, attempts, budgetVars, workerVars, callVars, diskVars>>

PollEmpty(w) ==
    /\ poll[w] # NoPoll
    /\ Eligible(w) = {}
    /\ poll' = [poll EXCEPT ![w] = NoPoll]
    /\ UNCHANGED <<queueVars, submit, attempts, budgetVars, workerVars, callVars, diskVars>>

-----------------------------------------------------------------------------
(* Reports: handleWorkStart, handleWorkComplete and CancelWork. *)

Lookup(c) ==
    /\ \E h \in Handlers : call[h] = Idle /\ call' = [call EXCEPT ![h] = c]
    /\ UNCHANGED <<queueVars, submit, attempts, budgetVars, workerVars, poll, clearing, diskVars>>

\* The next step of a handler, and its return.
Advance(h, s) == call' = [call EXCEPT ![h].step = s] /\ clearing' = clearing
Return(h)     == call' = [call EXCEPT ![h] = Idle] /\ clearing' = clearing

SetStatusOf(i, s) == work' = [work EXCEPT ![i].status = s]

LookupStart(w, i) ==
    /\ i \in items
    /\ work[i].status \notin Terminal
    /\ Lookup(Start(w, i))

MarkRunning(h) ==
    /\ call[h].step = "start"
    /\ Advance(h, "start_owner")
    /\ SetStatusOf(call[h].item, "running")
    /\ UNCHANGED <<items, dlq, submit, attempts, budgetVars, workerVars, poll, diskVars>>

TakeOver(h) ==
    /\ call[h].step = "start_owner"
    /\ Return(h)
    /\ work' = [work EXCEPT ![call[h].item].owner = call[h].worker]
    /\ items' = items \cup {call[h].item}
    /\ UNCHANGED <<dlq, submit, attempts, budgetVars, workerVars, poll, diskVars>>

\* Neither the status nor the owner of the item is looked at, nor the sender.
LookupCompleted(i, r) ==
    /\ i \in items
    /\ budget.spent < MaxSpent
    /\ Lookup(Completion(i, r))

MarkCompleted(h) ==
    /\ call[h].step = "complete"
    /\ Advance(h, "complete_book")
    /\ SetStatusOf(call[h].item, "completed")
    /\ attempts' = [attempts EXCEPT ![call[h].item] = 0]
    /\ UNCHANGED <<items, dlq, submit, budgetVars, workerVars, poll, diskVars>>

\* Mutant: the worker is charged the item's budget on top of its cost.
OverBooked(i, r) ==
    IF work[i].owner = NoWorker
    THEN workerSpent
    ELSE [workerSpent EXCEPT ![work[i].owner] = @ + r + MaxBudget[i]]

\* RecordCost, for the item's owner if it has one.
Booked(i, r) ==
    IF work[i].owner = NoWorker
    THEN workerSpent
    ELSE [workerSpent EXCEPT ![work[i].owner] = @ + r]

\* A completion without a result books and releases nothing.
Book(i, r) ==
    IF r = NoResult
    THEN UNCHANGED budgetVars
    ELSE /\ budget' = [Release(i) EXCEPT !.spent = @ + r]
         /\ workerSpent' = Booked(i, r)

BookCompleted(h) ==
    /\ call[h].step = "complete_book"
    /\ Return(h)
    /\ items' = items \cup {call[h].item}
    /\ Book(call[h].item, call[h].cost)
    /\ UNCHANGED <<dlq, work, submit, attempts, workerVars, poll, diskVars>>

LookupFailed(i) ==
    /\ i \in items
    /\ attempts[i] < MaxAttempts
    /\ Lookup(Call("fail", i))

\* Mutant: the item's own counter is not looked at.
TrackerAllows(i) == attempts[i] < PolicyRetries

\* RecordFailure and the item's own counter both allow another attempt.
WillRetry(i) == attempts[i] < PolicyRetries /\ work[i].retries < MaxRetries

JudgeFailed(h) ==
    /\ call[h].step = "fail"
    /\ Advance(h, IF WillRetry(call[h].item) THEN "fail_requeue" ELSE "fail_bury")
    /\ attempts' = [attempts EXCEPT ![call[h].item] = @ + 1]
    /\ UNCHANGED <<queueVars, submit, budgetVars, workerVars, poll, diskVars>>

MarkRequeued(h) ==
    /\ call[h].step = "fail_requeue"
    /\ Advance(h, "fail_clear")
    /\ work' = [work EXCEPT ![call[h].item] = Requeued(@)]
    /\ UNCHANGED <<items, dlq, submit, attempts, budgetVars, workerVars, poll, diskVars>>

MarkFailed(h) ==
    /\ call[h].step = "fail_bury"
    /\ Advance(h, "fail_file")
    /\ SetStatusOf(call[h].item, "failed")
    /\ UNCHANGED <<items, dlq, submit, attempts, budgetVars, workerVars, poll, diskVars>>

\* The item returns to items, and MoveToDLQ takes it if its status is failed
\* by then.
File(i) ==
    IF work[i].status = "failed"
    THEN items' = items \ {i} /\ dlq' = dlq \cup {i}
    ELSE items' = items \cup {i} /\ dlq' = dlq

ClearRequeued(h) ==
    /\ call[h].step = "fail_clear"
    /\ Return(h)
    /\ work' = [work EXCEPT ![call[h].item] = Cleared(@)]
    /\ budget' = Release(call[h].item)
    /\ File(call[h].item)
    /\ UNCHANGED <<submit, attempts, workerSpent, workerVars, poll, diskVars>>

FileFailed(h) ==
    /\ call[h].step = "fail_file"
    /\ Return(h)
    /\ budget' = Release(call[h].item)
    /\ File(call[h].item)
    /\ UNCHANGED <<work, submit, attempts, workerSpent, workerVars, poll, diskVars>>

\* WorkQueue.Lookup also searches the dead letter queue.
LookupCancel(i) ==
    /\ i \in items \cup dlq
    /\ work[i].status \notin Terminal
    /\ Lookup(Call("cancel", i))

MarkCancelled(h) ==
    /\ call[h].step = "cancel"
    /\ Advance(h, "cancel_clear")
    /\ SetStatusOf(call[h].item, "failed")
    /\ UNCHANGED <<items, dlq, submit, attempts, budgetVars, workerVars, poll, diskVars>>

\* The item stays in (or, cancelled in the dead letter queue, returns to) items.
ClearCancelled(h) ==
    /\ call[h].step = "cancel_clear"
    /\ Return(h)
    /\ work' = [work EXCEPT ![call[h].item].owner = NoWorker]
    /\ items' = items \cup {call[h].item}
    /\ budget' = Release(call[h].item)
    /\ UNCHANGED <<dlq, submit, attempts, workerSpent, workerVars, poll, diskVars>>

-----------------------------------------------------------------------------
(* Time and maintenance. *)

\* RetryAfter has passed.
BackoffElapsed(i) ==
    /\ work[i].backoff
    /\ work' = [work EXCEPT ![i].backoff = FALSE]
    /\ UNCHANGED <<items, dlq, submit, attempts, budgetVars, workerVars, poll, callVars, diskVars>>

\* Mutant: items that run are reclaimed as well.
ReclaimActive(i) ==
    /\ i \in items
    /\ work[i].status \in Active
    /\ work' = [work EXCEPT ![i] = Unassigned(@)]
    /\ UNCHANGED <<items, dlq, submit, attempts, budgetVars, workerVars, poll, callVars, diskVars>>

\* A claim older than ClaimTimeout, as the maintenance loop finds it.
\* AssignedAt, which it needs, is set and cleared together with the owner.
ReclaimTimedOut(i) ==
    /\ i \in items
    /\ work[i].status = "assigned"
    /\ work[i].owner # NoWorker
    /\ work' = [work EXCEPT ![i] = Unassigned(@)]
    /\ UNCHANGED <<items, dlq, submit, attempts, budgetVars, workerVars, poll, callVars, diskVars>>

\* ReapStale and ReapPhantomRepos: the record keeps its pending status and
\* its reservation.
Reap(i) ==
    /\ i \in items
    /\ work[i].status = "pending"
    /\ items' = items \ {i}
    /\ dlq' = dlq \cup {i}
    /\ UNCHANGED <<work, submit, attempts, budgetVars, workerVars, poll, callVars, diskVars>>

\* SaveTo, by the maintenance loop and by Stop.  Only taken while a restart
\* can still follow.
Checkpoint ==
    /\ restarts < MaxRestarts
    /\ disk' = [items |-> items, dlq |-> dlq,
                work |-> [i \in Items |-> IF i \in items \cup dlq THEN work[i] ELSE NewWork]]
    /\ UNCHANGED <<queueVars, submit, attempts, budgetVars, workerVars, poll, callVars, restarts>>

-----------------------------------------------------------------------------
(* The operator. *)

\* Mutant: the retry reserves, also for an item that was reaped with what it holds.
RetryReserving(i) ==
    /\ i \in dlq
    /\ work' = [work EXCEPT ![i] = NewWork]
    /\ items' = items \cup {i}
    /\ dlq' = dlq \ {i}
    /\ budget' = Reserve(i)
    /\ UNCHANGED <<submit, attempts, workerSpent, workerVars, poll, callVars, diskVars>>

\* The retry tracker keeps its count and nothing is reserved.
RetryFromDLQ(i) ==
    /\ i \in dlq
    /\ work' = [work EXCEPT ![i] = NewWork]
    /\ items' = items \cup {i}
    /\ dlq' = dlq \ {i}
    /\ UNCHANGED <<submit, attempts, budgetVars, workerVars, poll, callVars, diskVars>>

PurgeDLQ ==
    /\ dlq # {}
    /\ dlq' = {}
    /\ submit' = [i \in Items |-> IF i \in dlq \ items THEN "purged" ELSE submit[i]]
    /\ UNCHANGED <<items, work, attempts, budgetVars, workerVars, poll, callVars, diskVars>>

SetBudgetLimit(l) ==
    /\ budget.limit # l
    /\ budget' = [budget EXCEPT !.limit = l]
    /\ UNCHANGED <<queueVars, submit, attempts, workerSpent, workerVars, poll, callVars, diskVars>>

\* Mutant: the dead letter queue is not read back.
LoadActive ==
    /\ items' = disk.items
    /\ dlq' = {}
    /\ work' = disk.work

\* LoadFrom.
Load ==
    /\ items' = disk.items
    /\ dlq' = disk.dlq
    /\ work' = disk.work

\* A new process: only the queue comes back.
Restart ==
    /\ restarts < MaxRestarts
    /\ restarts' = restarts + 1
    /\ Load
    /\ submit' = [i \in Items |->
                    CASE i \in disk.items \cup disk.dlq -> "accepted"
                      [] i \notin disk.items \cup disk.dlq /\ submit[i] \in Stored -> "lost"
                      [] i \notin disk.items \cup disk.dlq /\ submit[i] = "checked" -> "new"
                      [] OTHER -> submit[i]]
    /\ attempts' = [i \in Items |-> 0]
    /\ budget' = [limit |-> InitLimit, spent |-> 0, reserved |-> 0]
    /\ workerSpent' = [w \in Workers |-> 0]
    /\ worker' = [w \in Workers |-> "absent"]
    /\ full' = [w \in Workers |-> FALSE]
    /\ poll' = [w \in Workers |-> NoPoll]
    /\ call' = [h \in Handlers |-> Idle]
    /\ clearing' = {}
    /\ disk' = disk

-----------------------------------------------------------------------------
\* The steps of a handler past its lookup.
HandlerStep(h) ==
    \/ MarkRunning(h)
    \/ TakeOver(h)
    \/ MarkCompleted(h)
    \/ BookCompleted(h)
    \/ JudgeFailed(h)
    \/ MarkRequeued(h)
    \/ ClearRequeued(h)
    \/ MarkFailed(h)
    \/ FileFailed(h)
    \/ MarkCancelled(h)
    \/ ClearCancelled(h)

ItemStep(i) ==
    \/ SubmitCheck(i)
    \/ SubmitReject(i)
    \/ SubmitPush(i)
    \/ SubmitReserve(i)
    \/ \E r \in Costs \cup {NoResult} : LookupCompleted(i, r)
    \/ LookupFailed(i)
    \/ LookupCancel(i)
    \/ ClearDeregistered(i)
    \/ BackoffElapsed(i)
    \/ ReclaimTimedOut(i)
    \/ Reap(i)
    \/ RetryFromDLQ(i)

WorkerStep(w) ==
    \/ Register(w)
    \/ \E f \in BOOLEAN : Heartbeat(w, f)
    \/ PauseWorker(w)
    \/ DrainWorker(w)
    \/ ResumeWorker(w)
    \/ DeregisterWorker(w)
    \/ PollAdmit(w)
    \/ PollEmpty(w)
    \/ \E i \in Items : AssignBest(w, i) \/ LookupStart(w, i)

Next ==
    \/ \E i \in Items : ItemStep(i)
    \/ \E w \in Workers : WorkerStep(w)
    \/ \E h \in Handlers : HandlerStep(h)
    \/ Checkpoint
    \/ PurgeDLQ
    \/ \E l \in Limits : SetBudgetLimit(l)
    \/ Restart

Spec == Init /\ [][Next]_vars
-----------------------------------------------------------------------------
(* Properties. *)

\* Two failure reports of one item that overlap can both find its counter
\* below MaxRetries before either counts, so MaxRetries alone is no bound.
\* But an item never gets more automatic retries than MaxRetries and one for
\* each other request served at the same time: no order of reports, cancels,
\* restarts and dead letter retries adds up to more.
RetriesBounded ==
    \A i \in Items : work[i].retries <= MaxRetries + Cardinality(Handlers) - 1

\* An item that was pushed stays in the active queue or the dead letter queue
\* until an operator purges it or a crash forgets what was never checkpointed:
\* no race of a reaper, a report, a cancel and a dead letter retry drops it.
NoWorkLost ==
    \A i \in Items : submit[i] \in Stored => i \in items \cup dlq
=============================================================================
