----------------------------- MODULE FleetSystem -----------------------------
(***************************************************************************)
(* The fleet: the coordinator of FleetCoordinator together with the worker *)
(* agents of internal/fleet/worker.go that poll it, run sessions and       *)
(* report, over HTTP calls (client.go) that may be lost.                   *)
(*                                                                         *)
(* An agent never repeats a call: an error of StartWork or CompleteWork is *)
(* logged and forgotten, so a call is either lost without an effect or     *)
(* handled once.  Executions of one item on one worker are interchangeable *)
(* and are counted.                                                        *)
(*                                                                         *)
(* Everything but the ordinary flow of work is a disturbance.  The         *)
(* constant Disturbances says which kinds occur, MaxDisturbed how many.    *)
(***************************************************************************)
EXTENDS FleetCoordinator, Functions

CONSTANTS
    Disturbances,   \* the kinds of disturbance that occur
    MaxDisturbed,   \* bound: disturbances in a behaviour
    MaxSessions     \* sessions a worker registers for

AllDisturbances ==
    {"fail",          \* a launch fails or a session ends in error, stops or stalls
     "poll_lost",     \* the response that carries an assignment is lost
     "start_lost",    \* StartWork fails
     "report_lost",   \* CompleteWork fails
     "slow_launch",   \* a launch outlives ClaimTimeout
     "worker_crash",  \* an agent's process dies with its sessions
     "race",          \* two submissions overlap
     "torn",          \* a poll or the reaper takes a half requeued item
     "cancel", "reap", "retry_dlq", "purge", "hold", "deregister", "limit",
     "restart"}       \* the coordinator restarts

ASSUME DisturbanceAssumption ==
    /\ Disturbances \subseteq AllDisturbances
    /\ MaxDisturbed \in Nat
    /\ MaxSessions \in Nat

\* The budget is a sum over the items and the ledger one over the workers.
ASSUME FiniteAssumption == IsFiniteSet(Items) /\ IsFiniteSet(Workers)

VARIABLES
    up,          \* workers whose agent runs
    launching,   \* executions that were handed out and launch their session
    running,     \* executions whose session runs
    disturbed    \* disturbances so far

agentVars == <<up, launching, running>>
sysVars   == <<vars, agentVars, disturbed>>

Live(w, i) == launching[w][i] + running[w][i]

\* The types of the coordinator and of the agents: no execution ends that was
\* not begun, and no reservation released twice makes the budget negative.
SystemTypeOK ==
    /\ TypeOK
    /\ up \subseteq Workers
    /\ launching \in [Workers -> [Items -> Nat]]
    /\ running \in [Workers -> [Items -> Nat]]
    /\ disturbed \in Nat

SystemInit ==
    /\ Init
    /\ up = {}
    /\ launching = [w \in Workers |-> [i \in Items |-> 0]]
    /\ running = [w \in Workers |-> [i \in Items |-> 0]]
    /\ disturbed = 0

Ordinary == UNCHANGED disturbed

Disturb(kind) ==
    /\ kind \in Disturbances
    /\ disturbed < MaxDisturbed
    /\ disturbed' = disturbed + 1

Begun(counts, w, i) == [counts EXCEPT ![w][i] = @ + 1]
Ended(counts, w, i) == [counts EXCEPT ![w][i] = @ - 1]

-----------------------------------------------------------------------------
(* The agent: Run, heartbeatLoop, pollLoop and executeWork. *)

\* Run registers once; a later 404 does not make the agent register again.
AgentStart(w) ==
    /\ w \notin up
    /\ Register(w)
    /\ up' = up \cup {w}
    /\ UNCHANGED <<launching, running>>
    /\ Ordinary

AtCapacity(w) == SumFunction(running[w]) >= MaxSessions

AgentHeartbeat(w) ==
    /\ w \in up
    /\ full[w] # AtCapacity(w)
    /\ Heartbeat(w, AtCapacity(w))
    /\ UNCHANGED agentVars
    /\ Ordinary

AgentPoll(w) ==
    /\ w \in up
    /\ PollAdmit(w)
    /\ UNCHANGED agentVars
    /\ Ordinary

At(h, steps, i) == call[h].step \in steps /\ call[h].item = i

\* A handler has made the item pending and has its owner still to clear: a
\* window of a few instructions.
Clearing(i) == i \in clearing \/ \E h \in Handlers : At(h, {"fail_clear"}, i)

Assign(w, i) ==
    /\ AssignBest(w, i)
    /\ IF Clearing(i) THEN Disturb("torn") ELSE Ordinary

HandOut(w, i) ==
    /\ w \in up
    /\ Assign(w, i)
    /\ launching' = Begun(launching, w, i)
    /\ UNCHANGED <<up, running>>

HandOutLost(w, i) ==
    /\ \/ w \in up /\ ~Clearing(i) /\ AssignBest(w, i) /\ Disturb("poll_lost")
       \/ w \notin up /\ Assign(w, i)
    /\ UNCHANGED agentVars

PollNothing(w) ==
    /\ PollEmpty(w)
    /\ UNCHANGED agentVars
    /\ Ordinary

\* SubmitWork reserves within a moment of its Push; a launch takes longer.
Reserved(i) == submit[i] # "pushed"

\* The session is up and StartWork is sent; the session runs whatever comes
\* of the call.
LaunchSucceeds(w, i) ==
    /\ launching[w][i] > 0
    /\ Reserved(i)
    /\ launching' = Ended(launching, w, i)
    /\ running' = Begun(running, w, i)
    /\ up' = up
    /\ \/ LookupStart(w, i) /\ Ordinary
       \/ /\ i \notin items \/ work[i].status \in Terminal
          /\ UNCHANGED vars
          /\ Ordinary
       \/ UNCHANGED vars /\ Disturb("start_lost")

\* The completion an agent reports.
ReportCompleted(i, r) ==
    \/ LookupCompleted(i, r) /\ Ordinary
    \/ i \notin items /\ UNCHANGED vars /\ Ordinary
    \/ UNCHANGED vars /\ Disturb("report_lost")

\* The failure an agent reports; a failure whose report is lost has the
\* effect of a completion whose report is lost.
ReportFailed(i) ==
    /\ LookupFailed(i) \/ (i \notin items /\ UNCHANGED vars)
    /\ Disturb("fail")

LaunchFails(w, i) ==
    /\ launching[w][i] > 0
    /\ Reserved(i)
    /\ launching' = Ended(launching, w, i)
    /\ UNCHANGED <<up, running>>
    /\ \/ ReportFailed(i)
       \/ UNCHANGED vars /\ Disturb("report_lost")

\* The StartWork calls of w about i that have not returned.
Starting(w, i) == {h \in Handlers : At(h, {"start", "start_owner"}, i) /\ call[h].worker = w}

\* StartWork has returned when the session is watched.  A session stops at
\* its MaxBudgetUSD.
SessionEnds(w, i) ==
    /\ running[w][i] > Cardinality(Starting(w, i))
    /\ running' = Ended(running, w, i)
    /\ UNCHANGED <<up, launching>>
    /\ \/ \E r \in Costs : (MaxBudget[i] > 0 => r <= MaxBudget[i]) /\ ReportCompleted(i, r)
       \/ ReportFailed(i)

WorkerCrash(w) ==
    /\ w \in up
    /\ Disturb("worker_crash")
    /\ up' = up \ {w}
    /\ launching' = [launching EXCEPT ![w] = [i \in Items |-> 0]]
    /\ running' = [running EXCEPT ![w] = [i \in Items |-> 0]]
    /\ UNCHANGED vars

-----------------------------------------------------------------------------
(* The coordinator's side. *)

SubmissionOpen(i) == submit[i] \in {"checked", "pushed"}

Submission(i) ==
    /\ \/ SubmitCheck(i) /\ (IF \E j \in Items : SubmissionOpen(j)
                             THEN Disturb("race") ELSE Ordinary)
       \/ (SubmitReject(i) \/ SubmitPush(i) \/ SubmitReserve(i)) /\ Ordinary
    /\ UNCHANGED agentVars

Serve(h) ==
    /\ HandlerStep(h)
    /\ UNCHANGED agentVars
    /\ Ordinary

DeregisterClears(i) ==
    /\ ClearDeregistered(i)
    /\ UNCHANGED agentVars
    /\ Ordinary

BackoffEnds(i) ==
    /\ BackoffElapsed(i)
    /\ UNCHANGED agentVars
    /\ Ordinary

\* A claim times out when no launch and no report will end it any more, or,
\* with a launch slower than ClaimTimeout, too early.
ClaimHeld(i) ==
    \/ \E w \in Workers : launching[w][i] > 0
    \/ \E h \in Handlers : At(h, CallSteps, i)

ClaimExpires(i) ==
    /\ ReclaimTimedOut(i)
    /\ IF ClaimHeld(i) THEN Disturb("slow_launch") ELSE Ordinary
    /\ UNCHANGED agentVars

\* The caller of cancel has learned the item's identifier from its submission.
Operator ==
    /\ \/ \E i \in Items :
             \/ submit[i] = "accepted" /\ LookupCancel(i) /\ Disturb("cancel")
             \/ Reap(i) /\ Disturb(IF Clearing(i) THEN "torn" ELSE "reap")
             \/ RetryFromDLQ(i) /\ Disturb("retry_dlq")
       \/ \E w \in Workers :
             \/ (PauseWorker(w) \/ DrainWorker(w) \/ ResumeWorker(w)) /\ Disturb("hold")
             \/ DeregisterWorker(w) /\ Disturb("deregister")
       \/ PurgeDLQ /\ Disturb("purge")
       \/ \E l \in Limits : SetBudgetLimit(l) /\ Disturb("limit")
       \/ "restart" \in Disturbances /\ disturbed < MaxDisturbed /\ Checkpoint /\ Ordinary
       \/ Restart /\ Disturb("restart")
    /\ UNCHANGED agentVars

SystemNext ==
    \/ \E w \in Workers :
          \/ AgentStart(w)
          \/ AgentHeartbeat(w)
          \/ AgentPoll(w)
          \/ PollNothing(w)
          \/ WorkerCrash(w)
          \/ \E i \in Items :
                \/ HandOut(w, i)
                \/ HandOutLost(w, i)
                \/ LaunchSucceeds(w, i)
                \/ LaunchFails(w, i)
                \/ SessionEnds(w, i)
    \/ \E i \in Items :
          Submission(i) \/ DeregisterClears(i) \/ BackoffEnds(i) \/ ClaimExpires(i)
    \/ \E h \in Handlers : Serve(h)
    \/ Operator

SystemSpec == SystemInit /\ [][SystemNext]_sysVars

\* The tickers of the loops, the Go scheduler and the maintenance loop keep
\* running; a session ends, at the latest when its worker finds it stalled.
\* Nothing obliges an operator, or a fault, to act.
AgentFairness(w) ==
    /\ WF_sysVars(AgentStart(w))
    /\ WF_sysVars(AgentHeartbeat(w))
    /\ WF_sysVars(AgentPoll(w))
    /\ WF_sysVars(PollNothing(w) \/ \E i \in Items : HandOut(w, i))
    /\ \A i \in Items : /\ WF_sysVars(LaunchSucceeds(w, i))
                        /\ WF_sysVars(SessionEnds(w, i))

ItemFairness(i) ==
    /\ WF_sysVars(Submission(i))
    /\ WF_sysVars(DeregisterClears(i))
    /\ WF_sysVars(BackoffEnds(i))
    /\ WF_sysVars(ClaimExpires(i))

Fairness ==
    /\ \A w \in Workers : AgentFairness(w)
    /\ \A i \in Items : ItemFairness(i)
    /\ \A h \in Handlers : WF_sysVars(Serve(h))

FairSystemSpec == SystemSpec /\ Fairness

-----------------------------------------------------------------------------
(* Properties. *)

\* At most one execution of an item exists in the whole fleet: the claim, the
\* takeover by StartWork, the retry and the reclaim of dead claims never let
\* two workers, or one worker twice, work on the same item.  It needs launches
\* shorter than ClaimTimeout and StartWork calls that arrive.
SingleExecution ==
    \A i \in Items : \A v, w \in Workers :
        /\ Live(w, i) <= 1
        /\ Live(v, i) > 0 /\ Live(w, i) > 0 => v = w

\* When IsWorkerDrained says so, no session of the worker is left, so the
\* coordinator's books are a sound reason to take the machine down.
DrainedMeansIdle ==
    \A w \in Workers : Drained(w) => \A i \in Items : Live(w, i) = 0

\* The active item is the worker's, and not about to be taken over.
Answers(w, i) ==
    /\ i \in items
    /\ work[i].owner = w
    /\ work[i].status \in Active
    /\ \A h \in Handlers : ~At(h, {"start_owner"}, i)

\* Nothing of a worker's earlier life can make it busy again.
Quiet(w) ==
    /\ worker[w] = "draining"
    /\ poll[w] = NoPoll
    /\ \A i \in Items : launching[w][i] = 0 /\ Starting(w, i) = {} /\ ~Answers(w, i)

\* A drained worker with no poll in progress stays drained until an operator
\* or a registration changes its status, whatever else fails meanwhile: no
\* late report, takeover, retry or reclaim makes it answer for work again.
DrainHolds ==
    [][\A w \in Workers : Quiet(w) /\ worker'[w] = "draining" => Quiet(w)']_sysVars

OwnedSoundly(r) ==
    /\ r.status = "pending" => r.owner = NoWorker
    /\ r.status \in Active => r.owner \in Workers

\* A pending item is owned by nobody and active work has the worker that
\* answers for it, which drains, reclaims and deregistrations rely on.
OwnerDiscipline == \A i \in Items : Clearing(i) \/ OwnedSoundly(work[i])

\* Work is only ever claimed by, or running for, a worker that meets the
\* item's constraints, although StartWork accepts any worker: what is in
\* flight always goes back to an assignment that checked them.
PlacementKept ==
    \A i \in Items : work[i].status \in Active => work[i].owner \in CanRun[i]

\* The fleet-wide ceiling: what was spent and what is reserved fit in it.
BudgetCeiling == budget.spent + budget.reserved <= budget.limit

\* What was spent alone fits in it.
SpendCeiling == budget.spent <= budget.limit

\* The spend booked on the workers, which each worker's own limit is checked
\* against, never exceeds the fleet's: a completion books both, one of an item
\* without an owner only the latter, and a restart forgets both.
WorkerLedger == SumFunction(workerSpent) <= budget.spent

\* The outcome is in and its reservation released.
Closed(i) ==
    /\ work[i].status \in Terminal
    /\ \A h \in Handlers : ~At(h, {"complete_book"}, i)

\* Exactly the budgets of the accepted items that have no outcome yet are
\* reserved: none leaks and none is released twice.
ReservationsExact ==
    budget.reserved =
        SumFunctionOnSet(MaxBudget, {i \in Items : submit[i] = "accepted"
                                                     /\ ~Closed(i)})

\* The item has no outcome yet, or the call that brought it has still to release
\* what was reserved.
Owing(i) ==
    \/ work[i].status \notin Terminal
    \/ \E h \in Handlers : At(h, {"complete_book", "fail_file", "cancel_clear"}, i)

\* Nothing else is ever reserved: whatever fails, is cancelled, reaped, retried,
\* purged or restarted, the reservations never exceed the budgets of the items
\* that were accepted and are owing.  What a reaped item leaves reserved for good
\* is its own budget, once.
ReservationsCovered ==
    budget.reserved <=
        SumFunctionOnSet(MaxBudget, {i \in Items : submit[i] \in {"accepted", "purged"}
                                                     /\ Owing(i)})

\* The item is done and its cost booked.
Paid(i) ==
    /\ work[i].status = "completed"
    /\ \A h \in Handlers : ~At(h, {"complete_book"}, i)

\* An item is paid for at most once, and no more than its budget, however often
\* it was tried: the fleet's spend can pass the ceiling, which retries do, but not
\* the budgets of what it completed.
PaidOnce == budget.spent <= SumFunctionOnSet(MaxBudget, {i \in Items : Paid(i)})

\* A failed item outside the dead letter queue is a cancelled one.
Cancelled(i) == i \in items \ dlq /\ work[i].status = "failed"

\* A cancelled item stays failed: no report that arrives later changes the
\* outcome or runs the item again.
CancelIsFinal ==
    [][\A i \in Items : Cancelled(i) => work'[i].status = "failed"]_sysVars

Settled(i) == work[i].status \in Terminal \/ i \in dlq

\* Every accepted item that some worker could take for good is completed or
\* ends up in the dead letter queue: polls, retries with backoff, reclaimed
\* claims and heartbeats never leave it waiting for ever.
Settles ==
    \A i \in Items :
        <>[](\E w \in CanRun[i] : worker[w] = "online")
            => (submit[i] = "accepted" ~> Settled(i))

\* Each item lives the life of a TaskLifecycle task.
StageOf(i) ==
    IF submit[i] \in {"new", "checked"} THEN "new"
    ELSE IF i \in dlq THEN "dead"
    ELSE CASE work[i].status = "pending"   -> "queued"
           [] work[i].status = "assigned"  -> "claimed"
           [] work[i].status = "running"   -> "running"
           [] work[i].status = "completed" -> "done"
           [] work[i].status = "failed"    -> "dead"

Lifecycle == INSTANCE TaskLifecycle WITH
    Tasks <- Items,
    MaxTries <- MaxRetries,
    stage <- [i \in Items |-> StageOf(i)],
    tries <- [i \in Items |-> work[i].retries]

\* The fleet with its polls, calls and budgets implements the plain life of
\* its items when calls that change an item arrive and launches are prompt:
\* an item is never claimed twice, retried too often or revived once done.
ImplementsLifecycle == Lifecycle!LifeSpec

\* A live agent that the coordinator does not know, after a restart or a
\* deregistration, gets registered again, as the answer to its heartbeat asks.
Reregisters ==
    \A w \in Workers : (w \in up /\ worker[w] = "absent") ~> (w \notin up \/ worker[w] # "absent")
=============================================================================
