# ralphglasses: specifications of the fleet and of a node

TLA+ specifications of the parts of ralphglasses where processes, goroutines,
handlers and machines interleave: the fleet (coordinator and worker agents), and
the components of one ralphglasses process, called a node here. They model the
Go code under `src/`; where a comment, a document or a test says something else,
the code is followed and the difference is described (section 4).

## 1. The system and its parts

ralphglasses launches coding agents (Claude, Codex, Gemini, ...) as child
processes, watches and budgets them, and can spread work over machines.

| Part | State it keeps | Operations | What is hard | Module |
|---|---|---|---|---|
| Fleet coordinator (`internal/fleet/server*.go`, `queue.go`, `retry.go`, `budget.go`) | work queue, dead letter queue (DLQ), fleet budget, worker registry, retry counts, spend per worker, `fleet-queue.json` | submit, register, heartbeat, poll, start, complete, cancel, pause/drain/resume/deregister, DLQ retry and purge, set limit; maintenance loop (expire, reclaim, reap, save) | handlers write shared records with no lock; check-then-act on the budget; late and repeated reports; restart | `FleetCoordinator` |
| Fleet worker agent (`fleet/worker.go`, `client.go`) | sessions it runs, cursor into its event bus | register, heartbeat loop, poll loop, one goroutine per item, event forwarding | lost calls, crashes, slow launches, no retries | `FleetSystem`, `EventBus` |
| Event bus (`internal/events/bus.go`) | history, total count, subscriber channels, asynchronous file writer | publish, subscribe, unsubscribe, history after a cursor, start and stop the writer | full channels; a cursor over a history that moves; publish during the stop of the writer | `EventBus` |
| Process manager (`internal/process`) | table of loops, PID files | start, stop with a kill sequence, stop all, pause, recover; one reaper per child, which restarts it | a reaper cleans up after, or brings back, what another call has changed; a crash and re-adoption | `LoopProcesses` |
| Session manager and runner (`session/manager_lifecycle.go`, `runner.go`) | session table, rows of the store | launch with a startup probe, stop, natural end, save, reload, restart | stop, runner and end of the process decide the final status; saves overtake each other | `SessionLifecycle` |
| Session loops (`session/loop.go`, `loop_steps.go`, `depth.go`, `stall_detector.go`) | status and iterations of a loop | run, step, stop, pause, resume | stop against a step in progress; recoveries, limits and extensions must end | `LoopRuns` |
| Team runtime (`session/team_runtime.go`, `team_controller.go`, `coordination.go`, `manager_team.go`) | tasks, workers, planner, question, path claims | controller step, tool step, status query, answer, stop and start of the controller | two steppers; queries that write stale statuses; workers of earlier attempts; claims released late | `TeamRuntime` |
| Subscription automation (`session/subscription_automation.go`) | queue, usage window, active and parked job, schedule | tick, enqueue, remove, policy, restart | launches outside the lock; late reports; parked sessions and exhausted windows | `SubscriptionAutomation` |
| Leader failover (`session/leader_failover.go`) | lock file | acquire, stamp, take over, shut down | read, write and check between processes; clocks | `LeaderFailover` |
| Leader lease (`session/leader.go`) | lease file | acquire, renew, resign | the same as above | no: only its tests construct it |
| Everything else (MCP tools, TUI, enhancer, evaluation, sandboxes, cloud, desktop, exporters, packaging) | - | - | sequential, presentation, or adapters to external programs | no; reasons in `PROJECT.json` |

How they interact: an operator or an MCP tool submits work items to the
coordinator over HTTP. Worker agents poll it, launch sessions with their local
session manager, and call `StartWork` and `CompleteWork`. The coordinator never
calls a worker. Agents forward their local event bus to the coordinator's. The
coordinator's maintenance loop runs every 30 s. Within a node, the automation, the
team runtime and session loops launch sessions and ask for their status; the
process manager runs the shell loop of a repository and knows nothing of sessions.

What makes the parts correct:

* fleet: no accepted item disappears; an item has one execution at a time; the
  spend stays under the fleet's limit and reservations are exact; retries are
  bounded; a drained worker is idle; work runs where it may run; every item is
  eventually finished or buried;
* event bus: forwarded events arrive once and in order; so do a subscriber's; what
  was accepted for the file is in it when the writer has stopped;
* process manager: every live loop is tracked and has a reaper, a stopped loop
  does not come back and dies, a PID file names the repository's own loop, a dead
  loop is forgotten;
* sessions: an end is final and reaches the store, no live process is forgotten;
* session loops: a stopped loop takes no more steps of its own, a loop ends;
* team: steps keep the concurrency limit, results belong to the current attempt,
  claims have an owner at work, ended workers are taken in;
* automation: no item is lost or doubled, one job at a time, the target of the
  window holds, the queue moves;
* failover: one leader as long as nobody is late, and a leader in bounded time.

`PROJECT.json` lists the hazards of this code at the lines where they bite, with
the properties that cover them.

## 2. Modules

### The fleet

* `FleetCoordinator` - the coordinator as an open system: any request may come
  at any time. One action per handler step, operator call, maintenance step.
* `FleetSystem` - extends it with the agents and the network; every request now
  has a sender, and faults are explicit and counted.
* `TaskLifecycle` - the abstract specification: the life of an item without
  queues, budgets, polls or calls. `FleetSystem!ImplementsLifecycle` is the
  refinement, by the mapping `StageOf`.
* `MCFleetCoordinator`, `MCFleetSystem` - instances for TLC.
* `FleetCoordinator_proofs`, `FleetSystem_proofs` - theorems about the two, for
  every value of their constants (section 5).

### State of the fleet

| Variable | Code |
|---|---|
| `items`, `dlq` | key sets of `WorkQueue.items`, `WorkQueue.dlq`; both maps hold pointers to the same records |
| `work` | the records: `status`, `owner` (`AssignedTo`; `AssignedAt` is set and cleared with it), `retries` (`RetryCount`), `backoff` (`RetryAfter` is in the future) |
| `submit` | how far the submission of an item has come; `purged` and `lost` record why it is gone |
| `attempts` | `RetryTracker.attempts` |
| `budget`, `workerSpent` | `GlobalBudget`; `WorkerBudget.Spent` of the budget manager |
| `worker`, `full` | status of each registered worker; `ActiveSessions >= MaxSessions` as last reported |
| `poll` | polls in progress, with the available budget they have read |
| `call` | what each of the `Handlers` (goroutines that serve start, complete and cancel) does: `Idle`, or the request it has looked up and the step it takes next |
| `clearing` | items that `DeregisterWorker` has made pending and whose owner it has not cleared yet |
| `disk`, `restarts` | `fleet-queue.json`; restarts so far |
| `up`, `launching`, `running` | agents that run; executions per worker and item before and after the session is up |
| `disturbed` | disturbances so far (a bound, not in the code) |

### Grain of atomicity of the fleet

A section under `q.mu` or `c.mu` is one action. A handler that takes a record's
pointer from the queue and then works without a lock is a sequence of actions:
`handleWorkStart` looks up and checks, writes the status (`MarkRunning`), writes
the owner and puts the item back (`TakeOver`). `handleWorkComplete`,
`CancelWork` and `DeregisterWorker` are split alike: status first, owner and
money later. Between two such steps any other action can happen.

Three choices make the grain coarser or looser than the code: `RetryCount++` and
the write of `WorkPending` next to it are one action; the writes of owner,
`AssignedAt`, `RetryAfter` and the budget after it are one action; and
`DeregisterWorker`, which holds `c.mu` throughout and makes its worker's claims
pending and ownerless one after the other, makes them all pending in one action
and then clears the owners one by one, with other registry operations possible in
between (but no second deregistration). A start that comes between its test of a
claim and its write (`server.go:334-335`) is therefore not reached. Tearing inside a locked section (a
handler's unlocked write while another goroutine scans the queue under `q.mu`) is
not modelled, nor is a record that is saved half written.

`Handlers` bounds how many of those requests are served at once. Nothing else
limits them: in `FleetCoordinator` any of them may be about the same item, from
the same worker, at the same time. In `FleetSystem` an execution sends its
completion after its `StartWork` has returned, and sends each call once
(`executeWork` never retries a call); two executions of one item on one worker,
which slow launches can cause, report independently.

### Data of the fleet

Money is natural numbers. A score is `100 * Priority` plus at most 50, so the
highest priority wins and ties are nondeterministic; constraints and locality are
the set `CanRun[i]`. The statuses online, stale and disconnected are one. The router
and the health tracker restrict assignments in one case only, which the model
leaves open: a poll first heals unhealthy workers except disconnected ones
(`server_dispatch.go:45-74`), so a disconnected worker gets nothing before its next
heartbeat. The model may hand it an item: it has more behaviours than the code, and
the worker's heartbeats are fair where `Settles` is checked. The router's preference
shifts all scores of a poll alike. An item is pushed once: the code accepts an ID
that a client chose a second time, and `Push` then replaces the record; that is not
modelled. Deadlines (backoff, claim timeout,
staleness) are events that may happen at any time in `FleetCoordinator`;
`FleetSystem` says when they happen in a healthy fleet.

### Disturbances of the fleet

`FleetSystem` calls everything but the ordinary flow of work a disturbance. The
constant `Disturbances` says which kinds a run has and `MaxDisturbed` how many
occur in a behaviour:

`fail` (a launch fails, a session errs, stops or stalls), `poll_lost`,
`start_lost`, `report_lost` (a call or its response is lost), `slow_launch` (a
launch outlives `ClaimTimeout`), `worker_crash`, `race` (submissions overlap),
`torn` (a poll or the reaper takes a half requeued item), `cancel`, `reap`,
`retry_dlq`, `purge`, `hold` (pause, drain, resume), `deregister`, `limit`,
`restart`.

The properties of the fleet do not all hold under all disturbances; which
combination a run allows is part of what it states.

### The node

Seven modules, one per component. Each has its own variables, actions and
specification and extends no other; the code gives them no shared state that the
properties are about. `MCNode` instantiates all of them: a behaviour belongs to
the component that the variable `part` names, and the others rest in their
initial states. What is checked is thus the sum of the components, not their
product; the product would add interleavings of steps that commute.

* `LoopProcesses` - one action per locked section. `Start`, `StopAll` and
  `Recover` hold `m.mu` throughout and are one action each; a reaper takes the
  lock several times and is the sequence `ReaperWaits`, `ReaperDecides`,
  `ReaperWakes`, `ReaperRelaunches`, `ReaperAdopts`, `ReaperForgets`,
  `ReaperRemovesPidFile`. Process numbers are never reused. A crash leaves the
  processes and PID files and forgets everything else.

  | Variable | Code |
  |---|---|
  | `procs`, `pidFile` | `Manager.procs`; `.ralph/ralphglasses.pid` |
  | `os`, `home`, `children`, `frozen`, `signalled`, `failed` | what the kernel knows of a process, and who launched it |
  | `reaper`, `killers`, `grace` | goroutines: the reaper of a process, kill sequences, `StopAllGraceful` |
  | `cancelled`, `exiting` | the context every `Start` is given; the end of the interface |

* `SessionLifecycle` - the launch with its probe, the runner, `Stop` and the
  reload are goroutines on a session; a save is a clone taken under `s.mu` and a
  write that comes later (`saves`), so writes overtake each other.

  | Variable | Code |
  |---|---|
  | `status`, `ended`, `hooked`, `cancelledSessions` | `Session.Status`, `EndedAt`, `onComplete`, its context |
  | `known`, `disk` | `Manager.sessions`; the row in the store |
  | `launcher`, `runner`, `stopper`, `proc` | goroutines and process of a session |

* `LoopRuns` - a step is the sequence of its looks at the loop under `run.mu`
  (`analyzing`, `planning`, `executing`, `verifying`, acceptance), RunLoop another
  one around it (limits, step, failure, backoff). Steps by hand (`hand`) and
  RunLoop (`run`) may overlap as they do in the code.

  | Variable | Code |
  |---|---|
  | `loopStatus`, `iterations`, `loopPaused` | `LoopRun.Status`, the status of each iteration, `Paused` |
  | `runCall` | where RunLoop is; `recoveryCount`, `restartCount`, `adaptiveMax` |
  | `loopCancelled`, `stopCall` | RunLoop's context; where `StopLoop` is and whether it found a channel to wait for |
  | `stepCall` | where each step is, and the iteration it makes |

* `TeamRuntime` - a step of the controller or of `team_step` is a sequence of
  actions of its stepper, one for each section under `workersMu`; what the planner
  wants is any sequence of at most `MaxActions` actions, right or wrong. A status
  query (`getTeamByKey`: `team_status`, the views of the TUI) is two actions. It
  reads the statuses of the team's sessions (`QueryLooks`) and, after it has let go of
  the lock, writes them into the tasks (`QueryWrites`): `in-progress`, `completed` or
  `errored`, whatever steps have made of the tasks since. A worker's prompt quotes its
  task, a planner's every task, and the sessions are read in the order of a map, so
  the status a task gets is any of theirs. The goroutines that release claims are a
  set of tasks: one goroutine of a task stands for any number of them.

  | Variable | Code |
  |---|---|
  | `task`, `question`, `runState`, `lead`, `autoStart` | the fields of `TeamStatus` |
  | `worker`, `planner`, `uncalled` | the sessions the team launched, and `onComplete` callbacks still to run |
  | `claim`, `releases` | `team-path-claims.json`, and goroutines that give claims back |
  | `control`, `stopping`, `stepper` | the entry of `teamControllers`; a stop that waits for the controller; where each stepper is |
  | `looked`, `queried` | what a query under way has read; history: the tasks whose status a query wrote last |

* `SubscriptionAutomation` - a tick decides under `c.mu` (`Tick`) and launches
  afterwards (`hand`); goroutines of loops and cycles report in their own time.
  Amounts are natural numbers: an item has an estimate, a job spends anything up to
  `MaxSpend`, more than its estimate or nothing. The estimates and the target do not
  change in the model, while in the code a policy change moves the target and a
  learned prediction can move an estimate. A target of 0 does not occur:
  `normalizeSubscriptionPolicy` (lines 207-211), which every policy passes (lines
  1308-1313, 1361, 1396), replaces a budget or a utilization that is not positive.
* `LeaderFailover` - time in quarters of the heartbeat interval (divided by
  `Quarter`). A step that is due happens before time passes, unless its instance
  is late, which is a disruption. The jitter is any time the code may draw.
* `EventBus` - events are numbers in the order of the history. `Publish` is one
  action; an asynchronous one lets go of `b.mu` before it sends to the writer, as
  the code does. The start of the writer is two actions, because `StartAsyncWrites`
  lets go of the lock before the writer reads its channel. The forwarder reads a batch and sends it later; the coordinator
  may refuse it.

The theorems about the components of the node are in `Processes_proofs`
(`LoopProcesses`, `SessionLifecycle` and `LoopRuns`), `TeamRuntime_proofs`,
`SubscriptionAutomation_proofs`, `LeaderFailover_proofs` and `EventBus_proofs`, those
about the node they make up in `Node_proofs`.

Everything a user or a model decides (start, stop, answers of planners, results of
workers, ends of sessions) is a nondeterministic choice. What is left out of each
module is listed in its header comment.

## 3. Runs

| Run | Instance | Shows |
|---|---|---|
| `coordinator` | 1 item without a budget, 1 worker, 2 handlers at a time, completions without a cost, a limit that changes, 1 restart; constraint `OverlapUntilSaved` | `RetriesBounded` under arbitrary requests that overlap |
| `fleet_budget` | 3 items (budgets 2, 1, 1; limit 3), 2 workers, 3 of poll_lost, report_lost, worker_crash | `BudgetCeiling`, `ReservationsExact`, `PaidOnce` |
| `fleet_reliable` | 2 items (one goes first, one is tied to a worker; no budgets), 2 workers, 3 of fail, poll_lost, race, hold, reap, retry_dlq | `SingleExecution`, `DrainedMeansIdle`, `OwnerDiscipline`, `PlacementKept`, `ImplementsLifecycle` |
| `fleet_settles` | 1 item, 2 workers, 4 of fail, poll_lost, hold, reap, retry_dlq, with fairness | `Settles` |
| `fleet_faults` | 1 item, 2 workers, 2 of all kinds, checkpoints | `SystemTypeOK`, `WorkerLedger`, `ReservationsCovered`, `NoWorkLost`, `DrainHolds` |
| `node_safety` | per component, see below | the safety properties of the node's components |
| `node_progress` | per component, with fairness | their liveness; `TerminalIsFinal`; `WorkerIsCurrent`, `ClaimsHaveAReason` |
| `fleet_ceiling`, `fleet_cancel`, `fleet_drained`, `fleet_reregister`, `team_slots` | the smallest that show it | a disagreement each, see below |

Why the bounds of the fleet suffice. Most hazards concern one record and two handlers that
interleave on it, so one item with two handlers reaches them; the runs of the
fleet have three handlers (the two with a liveness property and
`fleet_cancel` two), at least as many as one execution each on two workers and a canceller
keep busy. A second item matters for the choice between items and for placement,
three items for a budget that does not fit all. `MaxRetries = 1` has both a retry
and a refusal of one. A behaviour with two or three disturbances covers every
pair of faults; the four of `fleet_settles` are enough to fail an item into the
DLQ, retry it, and lose an assignment on the way. `MaxAttempts` and `MaxSpent`
bound counters that the code lets grow, by stopping new reports, never a handler
that has begun; in the runs of the fleet they are 9, above anything the
disturbances allow. `OverlapUntilSaved` keeps `coordinator` small: states with a
handler at work after something was saved, and what follows a restart, are not
followed further. `fleet_faults` has both, with up to three handlers.

Handlers are interchangeable, and so are workers where any worker may run any
item; the fleet's runs with safety properties use these symmetries, the runs with
liveness properties none.

Deadlock is not checked: when all items are settled and the bounds on
disturbances are used up, the system has nothing left to do.

The node's instances:

| Component | `node_safety` | `node_progress` |
|---|---|---|
| loop processes | 1 repository, 2 processes, 1 automatic restart, 1 crash | the same, no crash |
| team | 2 tasks, 1 at a time, controller, tool and a query, 1 worker, 2 planners, 1 action per answer | 1 task with a path, controller and a query, 2 workers, 1 planner, 3 actions |
| sessions | 1 session, 1 restart | the same |
| automation | 2 requests of 4 kinds, 1 scheduled run, target and estimates 1, jobs spend 0 to 2, 1 mishap, 1 restart | 3 requests that are sessions or cycles, with estimates 1, 2 and 3, target 2, jobs spend 0 or 1, no schedule, 1 mishap, 1 restart |
| session loop | RunLoop and a hand; 2 iterations, 1 turn, extensions, 2 cycles of 1 recovery | RunLoop; 3 iterations, 2 turns |
| failover | 2 instances, 2 disruptions | - |
| bus | 2 publishers, 1 subscriber, 3 events over a history of 2, channels of 1 | - |

Why they suffice. The hazards of the process manager concern a process and its
successor in the same repository: two processes. With three, the safety of the
loops holds as well (1.3 million states without a crash; 3.0 million with one for
`PidFileNamesTheLoop`), which is too large to run each time. Two requests and one
scheduled run make an automation queue with a job active, a job parked and a job
waiting. Two iterations and one turn make a session loop reach its limit of turns,
extend it, and end; with `RetryLimit` 0, as in `node_progress`, a failed iteration
makes every further step fail, so that recoveries and their cycles are used up.
Two events overflow channels of one, and three the history. Publishers and
instances are model values with no symmetry used. Two tasks compete for one slot,
and two planners let a step of the controller and one of the tool each bring an
answer.

Three estimates are the cases there are: an item that fits a window beside another, one
that takes a whole window, and one that no window can afford. `node_safety` has jobs
that spend twice their estimate.

Three state constraints keep the node's runs small. Every state that is reached is
checked, also where it is not followed further.

* `TeamPlans` (`node_safety`, the team): states where a question is pending, where the
  controller is being stopped, or where no planner is left to launch and no answer is
  being carried out are not followed, and a query that has looked only while a stepper
  is between its two looks of a launch. `ConcurrencyBound`, the team's property of that
  run, can only be broken by `StartTask`, which puts a task in progress, looks for a
  pending question again before it does, and needs an answer that is being carried
  out. What is given up are behaviours that go on after a question was answered or a
  controller was stopped: they start tasks by the same action and from tasks that are
  pending or blocked as they are without the detour. The theorem `ConcurrencyIsBounded`
  has no such limit.
* `TeamQueries` (`node_progress`, the team): a query is followed only while the stepper
  is idle, takes workers in or is about to launch; one query writes; and what follows
  a stop of the controller is not followed.
* `DearKinds` (`node_progress`, the automation): an item that no window can afford is
  of kind session; it is never launched, so its kind does not matter.

A constraint cuts behaviours off, and TLC judges a liveness property on those that go
on within it. `WorkersAccounted` is thus checked for behaviours with queries at those
moments, and `QueueMoves`, about items some window can afford, for every behaviour
of the instance but for the names of kinds.

`TypeOK` of the coordinator is checked as the first conjunct of `SystemTypeOK`.

`AutoRestart` is TRUE although only tests set that option, because it makes the
reapers do all they can; with FALSE they do less.

### What the properties need

* `BudgetCeiling`, `ReservationsExact`: no failures (a retry is not reserved
  again) and no purge (what a purged item had reserved stays reserved). They hold
  across lost assignments, lost reports and crashes; leaked reservations of lost
  items count as reserved. `BudgetCeiling` also needs that submissions do not
  overlap (the check and the reservation are separate steps), that the limit stays
  and that every item has a budget. Section 5 proves both with exactly these
  assumptions; the run has fewer disturbances.
* `ReservationsCovered` needs nothing: it is what is left of `ReservationsExact` when
  sessions fail and items are cancelled, purged or forgotten. Nothing is ever
  reserved but for an accepted item that is still owing an outcome, and once.
* `PaidOnce`: what `SingleExecution` needs, and that every item has a budget. The
  limit can be overspent (`fleet_ceiling`), the budgets of what was completed
  cannot. The run retries items by reclaiming them; failures, reaping and the dead
  letter queue are only covered by the proof.
* `SingleExecution`, `DrainedMeansIdle`, `ImplementsLifecycle`: `StartWork` and
  reports arrive and launches are shorter than `ClaimTimeout`. Lost assignments
  are allowed: nobody executes those.
* `OwnerDiscipline` exempts an item while a handler is between its two writes;
  with `torn` in the set it fails, which is what `fleet_drained` shows.
* A session stops at its `MaxBudgetUSD` (the session manager's job), and reports
  a cost up to it.
* A launch outlasts the moment between a submission's `Push` and its
  reservation.

What the node's properties leave out, and why:

* `NoUntrackedLoop`, `PidFileNamesTheLoop`: repositories `StopAll` took an entry
  from (`swept`): a later `Start` and the reaper of the first process collide
  there, and the code loses track of the second process.
* `DeadLoopsAreForgotten`: loops adopted by `Recover`, which have no reaper;
  `StopKills`: a crash in the middle of the kill sequence.
* `ConcurrencyBound`: tasks that a status query has put in progress (`queried`), which
  the code does not count against the slots (section 4, run `team_slots`). It says
  that steps keep the limit among the tasks they started, whatever queries write
  between the two looks of a launch.
* `WorkerIsCurrent`, `ClaimsHaveAReason`: a single stepper. With two, a step can
  write the handle of an earlier attempt back. `ClaimsHaveAReason` also exempts tasks
  whose status a query wrote last: a query that takes a task out of progress releases
  nothing, and no later step does (section 4).
* `WorkersAccounted`: nobody takes steps after the controller was stopped. It says that
  the task leaves progress; a query may take it out first, and then no step ever reads
  what the worker left.
* `OneJobAtATime`: one ticker. With two it fails (section 4).
* `SpendWithinTarget`: what jobs spend beyond their estimates, and what loops and cycles
  report after a tick has cleared them (`extra`).
* `QueueMoves`: a `Wedged` automation, of which `Wedged` names the three kinds: a parked
  session without a provider's id, a loop or cycle that was active at a crash, and a
  queued item whose estimate exceeds the target of a window, which is neither launched
  nor passed over once it heads the queue (`subscription_automation.go:786-790`).
* `SubscriberInOrder`: asynchronous writes (`everAsync`), for which the code lets
  go of the lock between the history and the subscribers. No caller uses both.
* `StopDrains`: a stop that overlaps a start and does not return (section 4).
* `OneLeaderInTime`: instances that were late (section 4).
* `TakeoverInTime`: the time an election may take is the threshold, an interval,
  two random waits and the wait for the check. The second random wait is that of
  an instance that starts just before the first claim is written: it finds the
  lock vacant as well, and its claim replaces the first.
* `StopSettles`: steps by hand, which `StopLoop` neither cancels nor awaits.
* `RunLoopEnds`: a loop that is paused need not end before it is resumed or
  stopped.

### Fairness

`FairSystemSpec` assumes weak fairness of each agent's start, heartbeat, poll,
launch and end of session, of each handler, of the end of a deregistration, of
backoffs and of the maintenance loop's reclaim. The loops run on tickers and the
Go scheduler runs every goroutine; a session that does nothing for ten minutes is
stopped by its worker (`executeWork`), provided it ever recorded an activity: a
session whose `LastActivity` is zero is never judged stalled. Nothing is assumed
of operators, faults, or launches that fail. `Settles` asks only for items that
some eligible worker is, from some time on, online for.

Not covered by `Settles`, because the code does not provide it: a running item
whose worker crashed or whose final report was lost (nothing reclaims it), an
item whose budget exceeds what is left beside its own reservation (the gate
counts the reservation against the item), and a worker whose spend has reached
its $10 default limit.

`NodeFairSpec` assumes of the component that moves weak fairness of what its
goroutines do without waiting for anyone: the kill sequences and reapers of a
process manager; the launcher, runner, stopper and reload of a session, and the
kill of a process whose context was cancelled; the team's controller, which gives
a planner up after a time of its own; the ticks and launches of a supervisor, the
end and the report of a job, the passing of a backoff and of a usage window;
RunLoop and the stages of its step, each of which has a time limit. Nothing is
assumed of users, of shell loops that should end by themselves, of planners and
workers, of launches that succeed, nor of steps by hand.

## 4. Disagreements between the code and what it says

* `fleet_ceiling`: the fleet can spend more than its limit, since a retried item
  has released its reservation and never reserves again.
* `fleet_cancel`: a cancelled item becomes completed by the report of the session
  that was still running.
* `fleet_drained`: unlocked writes of a failure report let a poll assign an item
  whose owner is then cleared; the worker that executes it counts as drained, and
  the claim is never reclaimed.
* `fleet_reregister`: the coordinator asks an unknown worker to register again;
  the agent only logs the answer.
* `team_slots`: more tasks are in progress than `max_concurrency` allows, because a
  status query wrote back what it had seen before a step retired one of them.

`PROJECT.json` quotes the lines.

Others were met while modelling. They are not runs of the project; each can be
seen by checking the named module with the formula or constants given here.

* Two supervisors of one automation. `automation/runtime.go:68` starts a
  supervisor for a repository, and raising the autonomy level starts another one
  (`session/manager.go:360`) that ticks the same controller. With
  `Tickers = {"supervisor", "runtime"}` and `Target = 2`, `OneJobAtATime` fails:
  one clears or replaces the job the other has launched, although
  `docs/MCP-TOOLS.md:2418` says that only one automated session is supported.
* A late leader. `leader_failover.go:144` writes the heartbeat before it reads the
  lock, so the check for a takeover (lines 149-150) always finds its own record.
  A leader that was suspended past the threshold overwrites its successor's lock
  and both lead for good: without `~everLate`, `OneLeader` fails.
* A stopped loop that is not stopped. The step `StopLoop` cancels fails and
  `failLoopIteration` (`loop.go:577`) writes `failed` over `stopped`, a limit met at
  that moment writes `completed` (`loop.go:179`): `stopCall.at = "returned" =>
  loopStatus = "stopped"` fails in `LoopRuns`, and a later `StepLoop` is accepted.
  `loop.go:518` says "StopLoop marks a loop run as stopped"; `loop_test.go:287`
  expects that it prevents further steps, of a loop at rest.
* Two steps at once. `loop_steps.go:33` refuses a step while the last iteration is
  planning, executing or verifying, and leaves out `analyzing`, in which every
  iteration begins: a step by hand and one of RunLoop overlap.
* Status queries that settle tasks. `manager_team.go:334-342` makes a task `completed` or
  `errored` when its session has ended, before a step has taken the session in. The
  step then passes the task over (`team_runtime.go:895`): its result is never read,
  its path claims are never released
  (`ClaimsHaveAReason` without its third disjunct fails), and an `errored` task is
  neither retried nor done, so the team never comes to an end by itself. A planner that
  is not the lead counts as a worker of every task, since its prompt quotes them all:
  its end completes or errs tasks that were never started. `manager_team.go:269` says
  that `GetTeam` "returns team status by name"; `manager_team_test.go:164-206` expects
  the writes.
* A queue behind an item that is too dear. `subscription_automation.go:786-790` neither
  launches nor passes over the head of the queue when its own estimate exceeds the
  target of a window, so nothing is launched until it is removed: `QueueMoves` without
  the third disjunct of `Wedged` fails.
* A stop of the event writer that never returns. `StartAsyncWrites` lets go of the lock
  before the writer reads its channel (`bus.go:592-593`, 636); a `StopAsyncWrites` in
  between takes the channel away, the writer waits on none, and the stop waits for
  the writer (state `stuck` of `EventBus`), although `bus.go:610-611` says that it
  waits until the remaining events are drained.
* A loop saved in mid-iteration, which `PauseLoop` does, is loaded after a restart
  with that iteration active, and every `StepLoop` is refused for good. (Not in the
  model, which has no file of the loop.)


## 5. Proofs

Everything below is proved for every value of the constants that satisfies the
named `ASSUME`s of the modules: any numbers of items, workers, handlers,
sessions, instances, processes, tasks, events; any budgets, limits, capacities
and retries. Each `_proofs` module describes its inductive invariant in its
header. Every safety property that a passing run checks is a theorem, with the
hypotheses given here.

Hypotheses of theorems, beside the `ASSUME`s:

| Hypothesis | Theorems | Without it |
|---|---|---|
| `Reliable`: no `start_lost`, `slow_launch`, `torn`, `cancel`, `deregister`, `restart` | custody of items in the fleet, and what follows from it | each of the six makes two executions, a pending item with an owner, or an unknown session: a lost or late `StartWork` leaves a session whose item is given away again |
| every item has a budget | `ItemsArePaidOnce`, beside `Reliable` | a session without a budget may cost anything |
| `"purge"` is no disturbance | `FleetImplementsLifecycle` | the life cycle has no purge |
| `Unfailing`: no `fail`, no `purge` | `ReservationsAreExact`, `BudgetIsKept` | run `fleet_ceiling` |
| `Bounded`: no `race`, no `limit`, every item has a budget | `BudgetIsKept` | two submissions are both admitted before either reserves; an item without a budget costs anything |
| `SingleTicker` | `OneJobRuns`, `SpendIsBounded`, `NoItemIsLost`, also as part of the node | two supervisors (section 4) |
| finitely many tickers | `LossesAreBounded` | nothing is bounded |
| `OneStepper` | `WorkersAreCurrent`, `ClaimsAreReasoned` | a second stepper acts between the looks of a step, whose snapshot is then stale |

### The coordinator

`TypeCorrect`, `RetriesAreBounded`, `WorkIsKept`, of any environment.

`RetriesBounded` is not inductive: from a state where the counter is at the bound
and another handler has already found the item retryable, counting breaks it. The
invariant `IInv` therefore adds `RetryRoom`: the counter plus the number of
handlers that have judged the item retryable and have not counted the retry
(`Requeuing(i)`) is at most `MaxRetries + |Handlers| - 1`. When a handler judges,
the counter is below `MaxRetries` and at most every handler is in `Requeuing(i)`,
so there is room; when it counts, one member of `Requeuing(i)` becomes one retry.
`DiskBounded` carries the bound across a restart, which makes the records on disk
the queue in memory. `NoWorkLost` and `TypeOK` are inductive by themselves.

With one handler at a time the bound is `MaxRetries`; with more the code does
exceed `MaxRetries` when failure reports of one item overlap, which takes a
second execution of an item that was reclaimed too early.

`NoWorkLost` says of a restart only that it records as `lost` what was not on
disk; that nothing which was saved is dropped when it is loaded is part of it.

### The fleet

* `FleetImplementsCoordinator`: every step of the fleet is a step of the
  coordinator, so the three theorems hold of it (`FleetKeepsWork`).
* `SystemTypeCorrect`, `LedgerIsKept`, `DrainedStayDrained`: under every
  disturbance. The last rests on `AllVacated`: an active item outside the queue is
  there for the calls that put it back or that cancel it.
* `ExecutionsAreSingle`, `DrainedAreIdle`, `OwnersAreSound`, `PlacementIsKept`,
  `FleetImplementsLifecycle`: of a reliable fleet, by the invariant `InCustody`.
  `SingleExecution` alone is not inductive: the step that hands an item out looks
  only at its record. `InCustody` relates record, calls and executions: what an
  agent launches is assigned to it and no call is about it, what it runs is
  running and its own or has its `StartWork` on the way, a call under way is about
  an item whose record it may still change, and what is pending is executed by
  nobody.
* `ReservationsAreExact`, `BudgetIsKept`: the sums are folds over finite sets, and
  the laws they need (`SumWithout`, `SumGrows`, `SumAgrees`) are proved by descent
  on the cardinality of the set, with the well-foundedness of the naturals as a
  first-order fact. While nothing fails, an item is neither run nor called about
  before its submission is accepted (`OrderIsKept`), so each step moves money in one
  of four ways (`MoneyMoves`): it leaves the reservations alone, admits a
  submission, reserves for one, or pays and releases. The ceiling adds `Fits`: what
  a submission found available is still available when it reserves.

* `ReservationsAreCovered`: under every disturbance. With failures the sums are
  only bounds, so the proof needs the sum of a subset (`SumSubset`) and what each
  step does to the owing items (`CoverMoves`): it keeps the reservations and drops
  none of them, reserves for one that was not owing, or releases for at most one,
  and the release never takes more than that item's budget off, whether anything
  was reserved for it or not. That a reservation is for an item without an outcome,
  and that a completion which arrives releases, is `AllEarly` (`EarlyAlways`):
  nothing runs and no call is served about an item before it is accepted. It holds
  across failures, cancels and restarts, as `AllOrderly` does not.
* `ItemsArePaidOnce`: of a reliable fleet. A booking is of an item that was not paid
  for, since at most one call is about it (`InCustody`), and what is paid for stays
  completed: no call about it is under way, and nothing completed is in the dead
  letter queue (`BuriedStaysUndone`), from which alone it could be run again.

`FiniteAssumption` (finitely many items and workers) is used by the sums only.

### The components of a node

* Process manager: `EntriesAreReaped`, `LoopsAreTracked`, `PidFilesAreOwn`,
  `StopsAreFinal`, by `LoopIInv`, whose other parts say what a reaper on its way to
  an adoption holds, and that a reaper which has not run its cleanup is that of the
  tracked loop.
* Sessions: `NoSessionIsForgotten`, `EndsAreFinal`. What is missing from the first
  is that `EndedAt` tells of the process: an end that this run set was set by a
  runner past its wait (`AtSession`).
* Session loops: `StopsSettle`. RunLoop has a step under way exactly while it waits
  for one, and a stop before RunLoop's next look leaves a loop that it finds
  stopped (`StopIsSeen`). The type theorem bounds iterations, recoveries and cycles.
* Team, with any status queries: `ConcurrencyIsBounded` with any steppers;
  `WorkersAreCurrent` and `ClaimsAreReasoned` with one, by `InStep` (what a step holds
  in its snapshot stays true between two of its actions) and `Accounts` (what takes a
  task out of progress leaves a release of its paths behind, or is a query, which
  `queried` records). The first bounds the tasks in progress that are not `queried`:
  more cannot be said of this code (run `team_slots`).
* Automation: `OneJobRuns`, `SpendIsBounded`, `NoItemIsLost`. The invariant says
  where the item of a job in each state is, that what a ticker is about to launch
  found no other job, and that there is room for its estimate below the target. These three
  are false with a second supervisor, which the program may start (section 4). What
  remains true then is proved without the hypothesis: `AutoTypeCorrect`;
  `ScheduleIsKept`, since a tick records the runs it accepts under the lock, and
  neither controller nor ticker holds an item that was not accepted
  (`HeldAccepted`); and `LossesAreBounded`, as a crash loses only launches in hand.
* Failover: `LeadersAreSingle`, `TakeoversAreInTime`. The first is the argument of a
  timed mutual exclusion: who wrote the lock last and waits to read it back waits
  longer than those who are about to write, since random waits are shorter than a
  quarter of the interval (`CandidateWaits`); and a leader stamps the lock before it
  is stale. The second bounds the time since the last disruption by what each
  instance is doing (`Timed`), and needs nothing of the past: it holds also after
  instances were late. The proof found the bound: the threshold,
  an interval and two quarters hold when a quarter is two units of time, as in the
  run, and fail when it is three, where three quarters less two units are needed
  (section 3, `TakeoverInTime`).
* Event bus: `ForwardingIsInOrder`, `SubscribersAreInOrder`, `StopsDrain`. What was
  taken for the file is in it or in the writer's queue, once; what was forwarded or
  sent to a subscriber is no newer than the cursor or the history; and while writes
  are synchronous no publisher lets go of the lock.

### The node

`MCNode` moves one component in a behaviour and lets the others rest, for the sake of
the number of states. `Node_proofs` shows that nothing is lost by it. In
`TogetherSpec` every component may move in every step, alone or with others;
`NodeIsPartOfTogether` says that the behaviours of `MCNode` are among its own. A step
of `TogetherSpec` is for each component a step of its own specification or none, so
the conjunction of the components' invariants is inductive (`NodeIInv`), and
`NodeTypeCorrect`, `NodeIsSafe`, `NodeEndsAreFinal` and, with `SingleTicker`,
`NodeAutomationIsSafe` hold of the components together. They do not show that the
components of the program share no state: that is how they were modelled, one module
for each set of structures behind a lock of its own.

### Only model-checked

Liveness under fairness (`Settles`, `StopKills`, `DeadLoopsAreForgotten`,
`EndsAreSaved`, `QueueMoves`, `WorkersAccounted`, `RunLoopEnds`) is out of the
prover's reach and stays with TLC, as do the five disagreements that runs of section 4
show, which are counterexamples.

## 6. Not modelled

* `internal/distributed`, `internal/batch`, `internal/workflow`: task engines that
  no other package of the program imports. `session/leader.go`: only its tests
  construct it.
* A restart of a node's teams: `RehydrateTeams` (`team_runtime.go:291-366`) reads the
  saved teams back and starts those that start by themselves; the model's teams live
  in one run of the program.
* The parts of modelled components that hold no state of the protocol (endpoints of
  the fleet that only read, scans of the process table, log tailing, event filters,
  rotation), and the persisted files whose order of writes no property tells apart.
* Budgets over several sessions, migration and resumption of sessions, remote team
  backends, delegated tasks and promotion: candidates for more actions of
  `SessionLifecycle` and `TeamRuntime`.
* MCP tools, the interface, prompt processing, evaluation, clouds, packaging:
  handlers and adapters without a protocol of their own; `PROJECT.json` gives the
  reason for each. They are most of the repository's lines.

## 7. Plan

1. Done: the fleet, its abstract life cycle, the seven components of a node; the
   runs; a theorem for every safety property they check.
2. Weaker hypotheses: custody with `deregister` and `cancel` but for the items they
   touch; the bound that the account of a window keeps with two supervisors.
3. Facts about time in the failover that no property states yet: how long two
   leaders may coexist after one was late.
4. More of the code: budgets over several sessions, resumption of sessions and
   delegated tasks (section 6).
