------------------------ MODULE SubscriptionAutomation ------------------------
(***************************************************************************)
(* The subscription automation of one repository (src/internal/session/    *)
(* subscription_automation.go): a queue of work that is launched one item  *)
(* at a time against the budget of a usage window, parks a session that    *)
(* ran out of quota and resumes it after the reset, and takes in the runs  *)
(* of a schedule.                                                          *)
(*                                                                         *)
(* Supervisors tick it, from start to end one tick at a time.  A tick      *)
(* decides under c.mu and launches after it has let go of it; a loop or a  *)
(* cycle that was launched reports at its end from a goroutine of its own. *)
(*                                                                         *)
(* Priorities may change at any time, so the head of the queue is any of   *)
(* its items.  Each has an estimate that stays what it is, and what a job  *)
(* spends is any amount: nothing, as when the manager no longer knows it,  *)
(* or more than was estimated.  The target stays, and is not 0             *)
(* (normalizeSubscriptionPolicy).  A cycle has written its first state     *)
(* before the next tick.  Left out: other sessions and cycles of the       *)
(* repository, failing writes and a crash between the files of one save.   *)
(***************************************************************************)
EXTENDS Integers, FiniteSets

CONSTANTS
  Requests,       \* items that may be enqueued by hand
  MaxRuns,        \* bound: runs of the schedule
  Kinds,          \* job kinds, of "session", "loop", "cycle" and "research"
  Tickers,        \* the supervisors that tick the controller
  Target,         \* the share of the window's budget to use
  Estimate,       \* what an item is estimated to cost
  MaxSpend,       \* bound: what a job spends
  NoItem,         \* no queue item
  MaxMishaps,     \* bound: failed launches, exhausted sessions, failed resumes
  MaxAutoCrashes  \* bound: restarts of the program

Runs == 1..MaxRuns
Entries == Requests \cup Runs
ItemOrNone == Entries \cup {NoItem}

ASSUME AutomationAssumption ==
  /\ MaxRuns \in 0..5 /\ Target \in Nat \ {0}
  /\ Estimate \in [Entries -> Nat] /\ MaxSpend \in Nat
  /\ MaxMishaps \in Nat /\ MaxAutoCrashes \in Nat
  /\ Kinds \subseteq {"session", "loop", "cycle", "research"}
  /\ NoItem \notin Entries /\ Requests \cap Runs = {}
  /\ Tickers \cap {"queue", "active", "parked", "settled", "lost"} = {}

VARIABLES
  ctl,         \* queue, UsageWindowState and policy of the controller
  kind,        \* JobKind of an item, "none" before it is accepted
  job,         \* what became of an item
  hand,        \* what a ticker does after it has let go of c.mu
  reporters,   \* goroutines of loops and cycles that have not reported
  windowOver,  \* the reset of the window has passed, and no call has seen it
  dueRun,      \* the last run of the schedule that is due
  mishaps,
  autoCrashes

autoVars == <<ctl, kind, job, hand, reporters, windowOver, dueRun, mishaps, autoCrashes>>

Idle == [does |-> "nothing", item |-> NoItem]

AutomationTypeOK ==
  /\ ctl \in [on : BOOLEAN, queue : SUBSET Entries, active : ItemOrNone,
              parked : ItemOrNone, resumable : BOOLEAN, backoff : BOOLEAN,
              exhausted : BOOLEAN, spend : Nat, extra : Nat, lastRun : 0..MaxRuns]
  /\ kind \in [Entries -> Kinds \cup {"none"}]
  /\ job \in [Entries -> {"new", "waiting", "running", "ended", "stale", "settled", "lost"}]
  /\ hand \in [Tickers -> [does : {"nothing", "launch", "resume"}, item : ItemOrNone]]
  /\ reporters \subseteq Entries
  /\ windowOver \in BOOLEAN
  /\ dueRun \in 0..MaxRuns
  /\ mishaps \in 0..MaxMishaps /\ autoCrashes \in 0..MaxAutoCrashes

AutomationInit ==
  /\ ctl = [on |-> TRUE, queue |-> {}, active |-> NoItem, parked |-> NoItem,
            resumable |-> FALSE, backoff |-> FALSE, exhausted |-> FALSE, spend |-> 0,
            extra |-> 0, lastRun |-> 0]
  /\ kind = [i \in Entries |-> "none"]
  /\ job = [i \in Entries |-> "new"]
  /\ hand = [t \in Tickers |-> Idle]
  /\ reporters = {} /\ windowOver = FALSE
  /\ dueRun = 0 /\ mishaps = 0 /\ autoCrashes = 0

Mishap == mishaps < MaxMishaps /\ mishaps' = mishaps + 1

----------------------------------------------------------------------------
(* The controller under c.mu: one operator per ...Locked function, from a
   state of the controller to the next.  extra is a history: what jobs spent
   beyond their estimate, and what the reporters added after a tick had
   already cleared their job. *)

\* Mutant: the reset does not lift an exhaustion.
EnsureWindowExhausted(c) ==
  IF c.on /\ windowOver THEN [c EXCEPT !.spend = 0, !.extra = 0] ELSE c

\* ensureWindowLocked: the reset empties the account and lifts an exhaustion.
EnsureWindow(c) ==
  IF c.on /\ windowOver
  THEN [c EXCEPT !.spend = 0, !.extra = 0, !.exhausted = FALSE]
  ELSE c
SeesWindow(c) == windowOver' = (windowOver /\ ~c.on)

\* Mutant: whatever is active is cleared.
ClearActiveAny(c, i) == [c EXCEPT !.active = NoItem]

\* clearActiveJobLocked: only for the job that is the active one.
ClearActive(c, i) == IF c.active = i THEN [c EXCEPT !.active = NoItem] ELSE c

\* The job of item i spent this.
Overrun(i, spent) == IF spent > Estimate[i] THEN spent - Estimate[i] ELSE 0
Paid(c, i, spent) == [c EXCEPT !.spend = @ + spent, !.extra = @ + Overrun(i, spent)]

\* handleActiveWorkLocked: a job that has ended is cleared, a session and a
\* loop with their spend.  quota tells whether the output of a session speaks
\* of an exhausted quota, and id whether the provider's id of it is known.
ActiveEnded(c) == c.active # NoItem /\ job[c.active] = "ended"
HandleActive(c, spent, quota, id) ==
  LET cleared == ClearActive(c, c.active)
      paid == Paid(cleared, c.active, spent)
  IN CASE ~ActiveEnded(c) -> c
       [] ActiveEnded(c) /\ kind[c.active] = "cycle" -> cleared
       [] ActiveEnded(c) /\ kind[c.active] # "cycle" /\ ~quota -> paid
       [] ActiveEnded(c) /\ kind[c.active] # "cycle" /\ quota ->
            [paid EXCEPT !.exhausted = TRUE, !.parked = c.active, !.resumable = id,
                         !.backoff = FALSE]

\* enqueueDueSchedulesLocked: the runs since the last one recorded, unless a
\* session of the schedule is parked.
DueRuns(c) == IF c.parked \in Runs THEN {} ELSE c.lastRun + 1 .. dueRun
EnqueueDue(c) ==
  IF DueRuns(c) = {} THEN c
  ELSE [c EXCEPT !.queue = @ \cup DueRuns(c), !.lastRun = dueRun]

\* nextActionLocked.
SessionRuns == \E i \in Entries : job[i] = "running" /\ kind[i] = "session"
MayDispatch(c) == c.on /\ c.active = NoItem /\ ~SessionRuns
\* Mutant: the spend so far is compared alone.
AffordableSoFar(c, i) == c.spend <= Target

Affordable(c, i) == c.spend + Estimate[i] <= Target
NextActions(c) ==
  IF ~MayDispatch(c) \/ c.exhausted THEN {Idle}
  ELSE IF c.parked # NoItem
       THEN {IF c.backoff THEN Idle ELSE [does |-> "resume", item |-> c.parked]}
  ELSE IF c.queue = {} THEN {Idle}
  ELSE {IF Affordable(c, i) THEN [does |-> "launch", item |-> i] ELSE Idle : i \in c.queue}
Dispatched(c, a) == IF a.does = "launch" THEN [c EXCEPT !.queue = @ \ {a.item}] ELSE c

----------------------------------------------------------------------------
(* Tick and what it launches. *)

Tick(t) ==
  /\ hand[t] = Idle
  /\ \E quota, id \in BOOLEAN, spent \in 0..MaxSpend :
       LET handled == HandleActive(EnsureWindow(ctl), spent, quota, id)
           ready == EnqueueDue(handled)
           done == IF ActiveEnded(ctl) THEN {ctl.active} ELSE {}
       IN /\ id => quota
          /\ IF quota
             THEN ActiveEnded(ctl) /\ kind[ctl.active] = "session" /\ Mishap
             ELSE UNCHANGED mishaps
          /\ \E a \in NextActions(ready) :
               ctl' = Dispatched(ready, a) /\ hand' = [hand EXCEPT ![t] = a]
          /\ \E f \in [DueRuns(handled) -> Kinds] :
               kind' = [i \in Entries |-> IF i \in DueRuns(handled) THEN f[i] ELSE kind[i]]
          /\ job' = [i \in Entries |->
                      IF i \in done THEN IF quota THEN "waiting" ELSE "settled"
                      ELSE IF i \in DueRuns(handled) THEN "waiting" ELSE job[i]]
  /\ SeesWindow(ctl)
  /\ UNCHANGED <<reporters, dueRun, autoCrashes>>

Finish(t) == hand' = [hand EXCEPT ![t] = Idle]
Launching(t, kinds) == hand[t].does = "launch" /\ kind[hand[t].item] \in kinds

\* executeSessionLaunch, executeLoopLaunch, executeCycleLaunch.
LaunchJob(t) ==
  LET i == hand[t].item
  IN /\ Launching(t, {"session", "loop", "cycle"})
     /\ ctl' = [ctl EXCEPT !.active = i]
     /\ job' = [job EXCEPT ![i] = "running"]
     /\ reporters' = IF kind[i] = "session" THEN reporters ELSE reporters \cup {i}
     /\ Finish(t)
     /\ UNCHANGED <<kind, windowOver, dueRun, mishaps, autoCrashes>>

\* executeResearchLaunch: the entry goes to the research queue and is done with.
LaunchResearch(t) ==
  /\ Launching(t, {"research"})
  /\ job' = [job EXCEPT ![hand[t].item] = "settled"]
  /\ Finish(t)
  /\ UNCHANGED <<ctl, kind, reporters, windowOver, dueRun, mishaps, autoCrashes>>

\* Mutant: a failed launch is dropped.
RequeueDropped(c, i) == c

Requeue(c, i) == [c EXCEPT !.queue = @ \cup {i}]
LaunchJobFails(t) ==
  /\ Launching(t, {"session", "loop", "research"})
  /\ ctl' = Requeue(ctl, hand[t].item)
  /\ Finish(t)
  /\ Mishap
  /\ UNCHANGED <<kind, job, reporters, windowOver, dueRun, autoCrashes>>

\* executeResume: the session is active again.
ResumeParked(t) ==
  LET i == hand[t].item
  IN /\ hand[t].does = "resume" /\ ctl.resumable
     /\ ctl' = [ctl EXCEPT !.active = i, !.parked = NoItem]
     /\ job' = [job EXCEPT ![i] = "running"]
     /\ Finish(t)
     /\ UNCHANGED <<kind, reporters, windowOver, dueRun, mishaps, autoCrashes>>

ResumeFails(t) ==
  /\ hand[t].does = "resume" /\ ctl.resumable
  /\ ctl' = [ctl EXCEPT !.backoff = ctl.parked # NoItem]
  /\ Finish(t)
  /\ Mishap
  /\ UNCHANGED <<kind, job, reporters, windowOver, dueRun, autoCrashes>>

\* Without the provider's id nothing happens, on this tick or another.
ResumeSkipped(t) ==
  /\ hand[t].does = "resume" /\ ~ctl.resumable
  /\ Finish(t)
  /\ UNCHANGED <<ctl, kind, job, reporters, windowOver, dueRun, mishaps, autoCrashes>>

----------------------------------------------------------------------------
(* The jobs. *)

JobEnds(i) ==
  /\ job[i] = "running"
  /\ job' = [job EXCEPT ![i] = "ended"]
  /\ UNCHANGED <<ctl, kind, hand, reporters, windowOver, dueRun, mishaps, autoCrashes>>

\* The goroutine of a loop or a cycle adds its spend, whether or not a tick has
\* already found it ended.
Report(i) ==
  /\ i \in reporters /\ job[i] \in {"ended", "settled"}
  /\ reporters' = reporters \ {i}
  /\ \E spent \in 0..MaxSpend :
       ctl' = ClearActive(IF job[i] = "ended" THEN Paid(ctl, i, spent)
                          ELSE [ctl EXCEPT !.spend = @ + spent, !.extra = @ + spent], i)
  /\ job' = [job EXCEPT ![i] = "settled"]
  /\ UNCHANGED <<kind, hand, windowOver, dueRun, mishaps, autoCrashes>>

----------------------------------------------------------------------------
(* Operators and the clock. *)

Enqueue(i) ==
  /\ job[i] = "new"
  /\ \E k \in Kinds : kind' = [kind EXCEPT ![i] = k]
  /\ job' = [job EXCEPT ![i] = "waiting"]
  /\ ctl' = [ctl EXCEPT !.queue = @ \cup {i}]
  /\ UNCHANGED <<hand, reporters, windowOver, dueRun, mishaps, autoCrashes>>

RemoveQueueItem(i) ==
  /\ i \in ctl.queue
  /\ ctl' = [ctl EXCEPT !.queue = @ \ {i}]
  /\ job' = [job EXCEPT ![i] = "settled"]
  /\ UNCHANGED <<kind, hand, reporters, windowOver, dueRun, mishaps, autoCrashes>>

SetPolicy ==
  LET c == [ctl EXCEPT !.on = ~@]
  IN /\ ctl' = EnsureWindow(c)
     /\ SeesWindow(c)
     /\ UNCHANGED <<kind, job, hand, reporters, dueRun, mishaps, autoCrashes>>

Status ==
  /\ ctl' = EnsureWindow(ctl)
  /\ SeesWindow(ctl)
  /\ UNCHANGED <<kind, job, hand, reporters, dueRun, mishaps, autoCrashes>>

WindowPasses ==
  /\ ~windowOver
  /\ windowOver' = TRUE
  /\ UNCHANGED <<ctl, kind, job, hand, reporters, dueRun, mishaps, autoCrashes>>

BackoffPasses ==
  /\ ctl.backoff
  /\ ctl' = [ctl EXCEPT !.backoff = FALSE]
  /\ UNCHANGED <<kind, job, hand, reporters, windowOver, dueRun, mishaps, autoCrashes>>

RunFallsDue ==
  /\ dueRun < MaxRuns
  /\ dueRun' = dueRun + 1
  /\ UNCHANGED <<ctl, kind, job, hand, reporters, windowOver, mishaps, autoCrashes>>

\* load reads back what every call has saved.  An item in the hands of a ticker
\* is forgotten; a session comes back interrupted, a loop or a cycle as if it
\* still ran, with nobody who runs it.
RestartAutomation ==
  /\ autoCrashes < MaxAutoCrashes
  /\ autoCrashes' = autoCrashes + 1
  /\ hand' = [t \in Tickers |-> Idle]
  /\ reporters' = {}
  /\ job' = [i \in Entries |->
               CASE \E t \in Tickers : hand[t] = [does |-> "launch", item |-> i] -> "lost"
                 [] job[i] = "running" -> IF kind[i] = "session" THEN "ended" ELSE "stale"
                 [] OTHER -> job[i]]
  /\ UNCHANGED <<ctl, kind, windowOver, dueRun, mishaps>>

HandSteps(t) ==
  \/ LaunchJob(t) \/ LaunchResearch(t) \/ LaunchJobFails(t)
  \/ ResumeParked(t) \/ ResumeFails(t) \/ ResumeSkipped(t)

AutomationNext ==
  \/ \E t \in Tickers : Tick(t) \/ HandSteps(t)
  \/ \E i \in Entries : JobEnds(i) \/ Report(i) \/ RemoveQueueItem(i)
  \/ \E i \in Requests : Enqueue(i)
  \/ SetPolicy \/ Status
  \/ WindowPasses \/ BackoffPasses \/ RunFallsDue
  \/ RestartAutomation

\* Supervisors tick and finish their launches, jobs end and report.
WorkGoesOn ==
  /\ \A t \in Tickers : WF_autoVars(Tick(t)) /\ WF_autoVars(HandSteps(t))
  /\ \A i \in Entries : WF_autoVars(JobEnds(i)) /\ WF_autoVars(Report(i))
  /\ WF_autoVars(BackoffPasses)

\* And the clock goes on.
AutomationFairness == WorkGoesOn /\ WF_autoVars(WindowPasses)

AutomationSpec == AutomationInit /\ [][AutomationNext]_autoVars /\ AutomationFairness

----------------------------------------------------------------------------
(* Properties. *)

\* Where an accepted item may be: queued, in the hands of a ticker, active,
\* parked, or done with.
Places(i) ==
  {p \in {"queue", "active", "parked", "settled", "lost"} \cup Tickers :
     CASE p = "queue" -> i \in ctl.queue
       [] p = "active" -> i = ctl.active
       [] p = "parked" -> i = ctl.parked
       [] p \in {"settled", "lost"} -> job[i] = p
       [] p \in Tickers -> hand[p] = [does |-> "launch", item |-> i]}

\* No item is lost or doubled between the queue, the launch outside the lock,
\* the active job, the parked session and a launch that failed; every run of
\* the schedule up to the recorded one was accepted, each once; and a crash
\* costs one item at most (subscription_automation.go:360, 457).
ItemsAccounted ==
  /\ \A i \in Entries : Cardinality(Places(i)) = IF job[i] = "new" THEN 0 ELSE 1
  /\ \A r \in Runs : job[r] # "new" <=> r <= ctl.lastRun
  /\ Cardinality({i \in Entries : job[i] = "lost"}) <= autoCrashes * Cardinality(Tickers)

\* At most one job runs, and it is the one the controller watches: neither a
\* late report of an earlier job nor a window or policy change makes it forget
\* a job that runs (subscription_automation.go:1155, 1363).
OneJobAtATime ==
  \A i \in Entries : job[i] = "running" => ctl.active = i

\* The account of the window exceeds the target only by what jobs spend beyond
\* their estimate and what loops and cycles report after a tick has already
\* cleared them (subscription_automation.go:518, 735, 788).
SpendWithinTarget == ctl.spend - ctl.extra <= Target

\* The items that a window can afford.
Fitting == {i \in Entries : Estimate[i] <= Target}

\* Nothing may be launched any more: a session without an id is parked, the
\* loop or cycle of an earlier run of the program is still the active job, or an
\* item that no window can afford is queued, which the head never gets past.
Wedged ==
  \/ ctl.parked # NoItem /\ ~ctl.resumable
  \/ ctl.active # NoItem /\ job[ctl.active] = "stale"
  \/ ~(ctl.queue \subseteq Fitting)

\* An item that is queued leaves the queue, through exhausted quotas, spent
\* windows, failed launches and resumes, and restarts, unless the automation
\* is switched off or wedged (subscription_automation.go:755).
QueueMoves ==
  \A i \in Fitting : i \in ctl.queue ~> (i \notin ctl.queue \/ ~ctl.on \/ Wedged)

=============================================================================
