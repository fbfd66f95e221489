---------------------------- MODULE TeamRuntime ----------------------------
(***************************************************************************)
(* The structured team runtime of the session manager                      *)
(* (src/internal/session: team_runtime.go, team_controller.go,             *)
(* coordination.go, getTeamByKey and updateTeamOnSessionEnd of             *)
(* manager_team.go).  A step takes in what the workers of the last steps   *)
(* did, reconciles finished work, asks a planner session what to do next   *)
(* and carries its actions out.  The controller goroutine takes steps; the *)
(* team_step tool takes steps of its own at any time.  A status query      *)
(* (team_status, the views of the TUI) writes what the sessions of the     *)
(* team look like into its tasks.                                          *)
(*                                                                         *)
(* m.workersMu is held for each look at or change of the team and not in   *)
(* between, so a step or a query is a sequence of actions.                 *)
(*                                                                         *)
(* Left out: teams of another backend than local sessions, the legacy lead *)
(* runtime, tasks delegated later (they have no ID a planner could name),  *)
(* a restart of the program (RehydrateTeams reads the saved teams back and *)
(* starts the AutoStart ones), team.StepCount (it only names things) and   *)
(* team.Status, a claims file that cannot be read or written, sessions     *)
(* that the manager has forgotten.  A load, change and write of the claims *)
(* file is one action, and so are the first check of a launch and its      *)
(* claim, and the look of a query at all sessions.  Workers have the       *)
(* default prompt, which quotes their task; a planner's quotes every task. *)
(***************************************************************************)
EXTENDS Integers, FiniteSets, FiniteSetsExt

CONSTANTS
  NumTasks,        \* tasks of the team
  MaxConcurrency,  \* team.MaxConcurrency
  MaxTaskRetries,  \* team.MaxTaskRetries
  Paths,           \* paths a planner may give a task to own
  Steppers,        \* "controller", and "tool" for team_step
  Readers,         \* status queries
  Results,         \* what a worker that completed may have written
  MaxWorkers,      \* bound: worker sessions ever launched
  MaxPlanners,     \* bound: planner sessions ever launched
  MaxActions       \* bound: actions of one planner response

ASSUME TeamAssumption ==
  /\ NumTasks \in Nat /\ MaxWorkers \in Nat /\ MaxPlanners \in Nat /\ MaxActions \in Nat
  /\ MaxConcurrency \in Nat \ {0}
  /\ MaxTaskRetries \in Nat \ {0}
  /\ Steppers \subseteq {"controller", "tool"}
  /\ Results \subseteq {"completed", "blocked", "needs_retry", "failed",
                        "drift", "invalid"}

VARIABLES
  task,       \* team.Tasks
  question,   \* the task of team.PendingQuestion, 0 for none in particular
  runState,   \* team.RunState
  lead,       \* team.LeadID: the planner launched last
  autoStart,  \* team.AutoStart
  queried,    \* history: tasks whose status is a query's, not a step's
  control,    \* the entry of teamControllers: "off", "on" or "cancelled"
  stopping,   \* a stopTeamByKey waits for the controller
  worker,     \* the worker sessions
  planner,    \* the planner sessions
  uncalled,   \* planners that ended and whose onComplete is still to run
  claim,      \* team-path-claims.json: the task that owns a path, or 0
  releases,   \* tasks that releaseTeamTaskClaims goroutines are under way for
  stepper,    \* where each stepper is
  looked      \* the status a query under way has read for each task

teamTeam == <<task, question, runState, lead, autoStart, queried>>
teamControl == <<control, stopping, looked>>
teamSessions == <<worker, planner, uncalled>>
teamVars == <<teamTeam, teamControl, teamSessions, claim, releases, stepper>>

TeamTasks == 1..NumTasks
Workers == 1..MaxWorkers
Planners == 1..MaxPlanners
TaskStatuses == {"pending", "in-progress", "completed", "blocked", "failed",
                 "needs_retry", "cancelled", "errored"}
TaskType == [status : TaskStatuses, attempt : Nat, worker : 0..MaxWorkers,
             merge : {"pending", "merged", "not_merged"}]
\* A session that ended by an error or a stop is "ended".
WorkerType == [task : 0..NumTasks, attempt : Nat,
               at : {"unborn", "running", "ended"} \cup Results]
StepperStages == {"idle", "ingest", "reconcile", "decide", "launched", "planning",
                  "apply", "defer", "start", "launch", "handle", "stopped",
                  "done", "exit"}
StepperType == [at : StepperStages, todo : SUBSET (TeamTasks \X (0..MaxWorkers)),
                task : 0..NumTasks, worker : 0..MaxWorkers, plan : 0..MaxPlanners,
                left : 0..MaxActions, failed : BOOLEAN]
LookType == [TeamTasks -> {"none", "in-progress", "completed", "errored"}]
NoLook == [t \in TeamTasks |-> "none"]
IdleStepper == [at |-> "idle", todo |-> {}, task |-> 0, worker |-> 0, plan |-> 0,
                left |-> 0, failed |-> FALSE]

TeamTypeOK ==
  /\ task \in [TeamTasks -> TaskType]
  /\ question \in SUBSET (0..NumTasks) /\ Cardinality(question) <= 1
  /\ runState \in {"running", "completed", "failed", "awaiting_input"}
  /\ lead \in 0..MaxPlanners
  /\ autoStart \in BOOLEAN
  /\ queried \subseteq TeamTasks
  /\ control \in {"off", "on", "cancelled"}
  /\ stopping \in BOOLEAN
  /\ worker \in [Workers -> WorkerType]
  /\ planner \in [Planners -> {"unborn", "running", "completed", "ended"}]
  /\ uncalled \subseteq Planners
  /\ claim \in [Paths -> 0..NumTasks]
  /\ releases \subseteq TeamTasks
  /\ stepper \in [Steppers -> StepperType]
  /\ looked \in [Readers -> LookType]

TeamInit ==
  /\ task = [t \in TeamTasks |-> [status |-> "pending", attempt |-> 0,
                                  worker |-> 0, merge |-> "pending"]]
  /\ question = {} /\ runState = "running" /\ lead = 0
  /\ autoStart = FALSE /\ control = "off" /\ stopping = FALSE
  /\ queried = {} /\ looked = [r \in Readers |-> NoLook]
  /\ worker = [w \in Workers |-> [task |-> 0, attempt |-> 0, at |-> "unborn"]]
  /\ planner = [p \in Planners |-> "unborn"] /\ uncalled = {}
  /\ claim = [p \in Paths |-> 0]
  /\ releases = {}
  /\ stepper = [s \in Steppers |-> IdleStepper]

----------------------------------------------------------------------------
(* Helpers of the runtime. *)

Active(T) == {t \in TeamTasks : T[t].status = "in-progress"}
IsRunnable(T, t) == T[t].status \in {"pending", "needs_retry"}

\* recalculateTeamLocked for the tasks T and the question q.
Recalculated(T, q) ==
  IF q # {} THEN "awaiting_input"
  ELSE IF NumTasks = 0 \/ \E t \in TeamTasks :
            T[t].status \notin {"completed", "cancelled", "failed"} THEN "running"
  ELSE IF \E t \in TeamTasks : T[t].status = "failed" THEN "failed"
  ELSE "completed"

\* The team with tasks T and question q, its run state computed again.
SetTeam(T, q) ==
  /\ task' = T
  /\ question' = q
  /\ runState' = Recalculated(T, q)
  /\ UNCHANGED <<lead, autoStart>>

\* The status of task t is a step's again.
Settles(t) == queried' = queried \ {t}

\* `go m.releaseTeamTaskClaims`.
Release(t) == releases' = releases \cup {t}

\* A question is asked only when none is pending.
Asked(t) == IF question = {} THEN {t} ELSE question

RetryOrFailed(t) ==
  IF task[t].attempt >= MaxTaskRetries THEN "failed" ELSE "needs_retry"

MarkTaskRetryOrFailed(t) ==
  /\ SetTeam([task EXCEPT ![t].status = RetryOrFailed(t)], question)
  /\ Settles(t) /\ Release(t)

StepperAt(s, a) == stepper[s].at = a
StepperGoto(s, a) == stepper' = [stepper EXCEPT ![s].at = a]
Return(s, e) == stepper' = [stepper EXCEPT
                  ![s] = [IdleStepper EXCEPT !.at = "done", !.failed = e]]

\* The step ends in an error that is written to the team, which keeps its
\* tasks.
Fail(s) ==
  /\ runState' = "failed"
  /\ Return(s, TRUE)
  /\ UNCHANGED <<task, question, lead, autoStart, queried>>

----------------------------------------------------------------------------
(* stepTeamByKey, up to the planner. *)

InHand(T) == {<<t, T[t].worker>> : t \in {u \in Active(T) : T[u].worker # 0}}

\* The workers to look at are taken from a snapshot.
StepBegin(s) ==
  /\ StepperAt(s, "idle")
  /\ s = "controller" => control # "off"
  /\ runState' = Recalculated(task, question)
  /\ stepper' = [stepper EXCEPT ![s] = [IdleStepper EXCEPT
                   !.at = "ingest", !.todo = InHand(task)]]
  /\ UNCHANGED <<task, question, lead, autoStart, queried, teamControl, teamSessions,
                 claim, releases>>

\* The tasks of the snapshot are looked at in their order.
FirstOf(s) == CHOOSE e \in stepper[s].todo : \A f \in stepper[s].todo : e[1] <= f[1]
Looked(s) == stepper' = [stepper EXCEPT ![s].todo = @ \ {FirstOf(s)}]

\* What applyWorkerResult makes of the result r for task t: the session the
\* snapshot named is written back.
Applied(t, w, r) ==
  LET now == [task EXCEPT ![t].worker = w] IN
    CASE r = "completed" -> [now EXCEPT ![t].status = "completed", ![t].merge = "pending"]
      [] r = "blocked" -> [now EXCEPT ![t].status = "blocked"]
      [] r = "drift" -> [now EXCEPT ![t].status = "blocked", ![t].merge = "not_merged"]
      [] r = "needs_retry" -> [now EXCEPT ![t].status = RetryOrFailed(t), ![t].merge = "pending"]
      [] r = "failed" -> [now EXCEPT ![t].status = "failed", ![t].merge = "pending"]

\* A blocked worker need not put it as a question.
QuestionsOf(t, r) ==
  CASE r = "drift" -> {Asked(t)}
    [] r = "blocked" -> {question, Asked(t)}
    [] OTHER -> {question}

ApplyWorkerResult(t, w, r) ==
  /\ \E q \in QuestionsOf(t, r) : SetTeam(Applied(t, w, r), q)
  /\ Settles(t) /\ Release(t)

\* The worker still runs; nothing is done.
IngestRunning(s) ==
  /\ StepperAt(s, "ingest") /\ stepper[s].todo # {}
  /\ worker[FirstOf(s)[2]].at = "running"
  /\ Looked(s)
  /\ UNCHANGED <<teamTeam, teamControl, teamSessions, claim, releases>>

\* The worker has been silent for too long: it is stopped, and IngestFailed
\* goes on with it.
IngestStalled(s) ==
  /\ StepperAt(s, "ingest") /\ stepper[s].todo # {}
  /\ worker[FirstOf(s)[2]].at = "running"
  /\ worker' = [worker EXCEPT ![FirstOf(s)[2]].at = "ended"]
  /\ UNCHANGED <<teamTeam, teamControl, planner, uncalled, claim, releases, stepper>>

\* Mutant: a worker without a result is passed over.
IngestPassesOver(s) ==
  /\ StepperAt(s, "ingest") /\ stepper[s].todo # {}
  /\ worker[FirstOf(s)[2]].at # "running"
  /\ Looked(s)
  /\ UNCHANGED <<teamTeam, teamControl, teamSessions, claim, releases>>

\* The worker ended without a result that counts, or its changes could not be
\* committed.
IngestFailed(s) ==
  /\ StepperAt(s, "ingest") /\ stepper[s].todo # {}
  /\ worker[FirstOf(s)[2]].at # "running"
  /\ MarkTaskRetryOrFailed(FirstOf(s)[1])
  /\ Looked(s)
  /\ UNCHANGED <<teamControl, teamSessions, claim>>

IngestResult(s) ==
  /\ StepperAt(s, "ingest") /\ stepper[s].todo # {}
  /\ worker[FirstOf(s)[2]].at \in Results \ {"invalid"}
  /\ ApplyWorkerResult(FirstOf(s)[1], FirstOf(s)[2], worker[FirstOf(s)[2]].at)
  /\ Looked(s)
  /\ UNCHANGED <<teamControl, teamSessions, claim>>

\* A second snapshot tells the completed tasks that are still to be merged.
Unmerged(T) == {<<t, 0>> : t \in {u \in TeamTasks : T[u].status = "completed"
                                                 /\ T[u].merge = "pending"}}

IngestDone(s) ==
  /\ StepperAt(s, "ingest") /\ stepper[s].todo = {}
  /\ stepper' = [stepper EXCEPT ![s].at = "reconcile", ![s].todo = Unmerged(task)]
  /\ UNCHANGED <<teamTeam, teamControl, teamSessions, claim, releases>>

\* The work is merged, or it conflicts or is not there: a human is asked.
Reconcile(s) ==
  /\ StepperAt(s, "reconcile") /\ stepper[s].todo # {}
  /\ LET t == FirstOf(s)[1] IN
       \/ SetTeam([task EXCEPT ![t].merge = "merged"], question)
       \/ SetTeam([task EXCEPT ![t].merge = "not_merged", ![t].status = "blocked"],
                  Asked(t))
  /\ Looked(s)
  /\ UNCHANGED <<queried, teamControl, teamSessions, claim, releases>>

\* git fails: the step ends with an error and the team stays as it is.
ReconcileFails(s) ==
  /\ StepperAt(s, "reconcile") /\ stepper[s].todo # {}
  /\ Return(s, TRUE)
  /\ UNCHANGED <<teamTeam, teamControl, teamSessions, claim, releases>>

\* A planner is wanted when there is something to run and a worker slot free.
WantsPlanner ==
  /\ question = {} /\ runState \notin {"completed", "failed"}
  /\ \E t \in TeamTasks : IsRunnable(task, t)
  /\ Cardinality(Active(task)) < MaxConcurrency

StepIdles(s) ==
  /\ StepperAt(s, "reconcile") /\ stepper[s].todo = {}
  /\ ~WantsPlanner
  /\ Return(s, FALSE)
  /\ UNCHANGED <<teamTeam, teamControl, teamSessions, claim, releases>>

LaunchPlanner(s) ==
  /\ StepperAt(s, "reconcile") /\ stepper[s].todo = {}
  /\ WantsPlanner
  /\ \E p \in Planners :
       /\ planner[p] = "unborn" /\ \A q \in Planners : q < p => planner[q] # "unborn"
       /\ planner' = [planner EXCEPT ![p] = "running"]
       /\ stepper' = [stepper EXCEPT ![s].at = "launched", ![s].plan = p]
  /\ UNCHANGED <<teamTeam, teamControl, worker, uncalled, claim, releases>>

LaunchPlannerFails(s) ==
  /\ StepperAt(s, "reconcile") /\ stepper[s].todo = {}
  /\ WantsPlanner
  /\ Fail(s)
  /\ UNCHANGED <<teamControl, teamSessions, claim, releases>>

SetLead(s) ==
  /\ StepperAt(s, "launched")
  /\ lead' = stepper[s].plan
  /\ StepperGoto(s, "planning")
  /\ UNCHANGED <<task, question, runState, autoStart, queried, teamControl, teamSessions,
                 claim, releases>>

\* The planner completed with a response that parses.
PlannerAnswered(s) ==
  /\ StepperAt(s, "planning")
  /\ planner[stepper[s].plan] = "completed"
  /\ stepper' = [stepper EXCEPT ![s].at = "apply", ![s].left = MaxActions, ![s].plan = 0]
  /\ UNCHANGED <<teamTeam, teamControl, teamSessions, claim, releases>>

\* The planner failed, timed out or wrote something else, or the step's context
\* is done.
PlannerFails(s) ==
  /\ StepperAt(s, "planning")
  /\ Fail(s)
  /\ UNCHANGED <<teamControl, teamSessions, claim, releases>>

----------------------------------------------------------------------------
(* applyPlannerActions.  The planner names any tasks in any order. *)

Applying(s) == StepperAt(s, "apply") /\ stepper[s].left > 0
\* The next action of the response, after one that took no more than this.
NextAction(s) == stepper' = [stepper EXCEPT ![s].left = @ - 1]
NextTask(s) == stepper' = [stepper EXCEPT ![s].at = "apply", ![s].task = 0, ![s].worker = 0]

SlotFree == Cardinality(Active(task)) < MaxConcurrency
MayLaunch == question = {} /\ SlotFree

\* launch_worker wants a pending task, retry_worker one that failed.
CanBegin(t) == task[t].status \in {"pending", "needs_retry", "failed"}

\* ClaimResources: every path or none.
Conflicts(t, P) == \E p \in P : claim[p] \notin {0, t}

\* The first look at the team, and the claim.
BeginTask(s, t) ==
  /\ Applying(s)
  /\ MayLaunch /\ CanBegin(t)
  /\ \E P \in SUBSET Paths :
       \/ /\ Conflicts(t, P)
          /\ stepper' = [stepper EXCEPT ![s].at = "defer", ![s].task = t, ![s].left = @ - 1]
          /\ UNCHANGED claim
       \/ /\ ~Conflicts(t, P)
          /\ claim' = [p \in Paths |-> IF p \in P THEN t ELSE claim[p]]
          /\ stepper' = [stepper EXCEPT ![s].at = "start", ![s].task = t, ![s].left = @ - 1]
  /\ UNCHANGED <<teamTeam, teamControl, teamSessions, releases>>

\* Task 0 stands for one that the team does not have.
BeginRefused(s, t) ==
  /\ Applying(s)
  /\ t # 0 => ~(MayLaunch /\ CanBegin(t))
  /\ Fail(s)
  /\ UNCHANGED <<teamControl, teamSessions, claim, releases>>

\* deferTaskForClaimConflict, whatever became of the task since.
DeferTask(s) ==
  /\ StepperAt(s, "defer")
  /\ SetTeam([task EXCEPT ![stepper[s].task].status = "pending"], question)
  /\ NextTask(s)
  /\ UNCHANGED <<queried, teamControl, teamSessions, claim, releases>>

\* Mutant: the slots are not counted again.
StartTaskAtOnce(s) ==
  /\ StepperAt(s, "start")
  /\ LET t == stepper[s].task IN
       task' = [task EXCEPT ![t] = [status |-> "in-progress", attempt |-> @.attempt + 1,
                                    worker |-> 0, merge |-> "pending"]]
  /\ Settles(stepper[s].task)
  /\ StepperGoto(s, "launch")
  /\ UNCHANGED <<question, runState, lead, autoStart, teamControl, teamSessions,
                 claim, releases>>

\* Mutant: the handle of the attempt before is kept.
StartTaskOldHandle(s) ==
  /\ StepperAt(s, "start")
  /\ MayLaunch
  /\ LET t == stepper[s].task IN
       task' = [task EXCEPT ![t].status = "in-progress", ![t].attempt = @ + 1]
  /\ Settles(stepper[s].task)
  /\ StepperGoto(s, "launch")
  /\ UNCHANGED <<question, runState, lead, autoStart, teamControl, teamSessions,
                 claim, releases>>

\* The second look: the question and the slots are checked again, the task is
\* not.
StartTask(s) ==
  /\ StepperAt(s, "start")
  /\ MayLaunch
  /\ LET t == stepper[s].task IN
       task' = [task EXCEPT ![t] = [status |-> "in-progress", attempt |-> @.attempt + 1,
                                    worker |-> 0, merge |-> "pending"]]
  /\ Settles(stepper[s].task)
  /\ StepperGoto(s, "launch")
  /\ UNCHANGED <<question, runState, lead, autoStart, teamControl, teamSessions,
                 claim, releases>>

StartRefused(s) ==
  /\ StepperAt(s, "start")
  /\ ~MayLaunch
  /\ Release(stepper[s].task)
  /\ Fail(s)
  /\ UNCHANGED <<teamControl, teamSessions, claim>>

LaunchWorker(s) ==
  /\ StepperAt(s, "launch")
  /\ \E w \in Workers :
       /\ worker[w].at = "unborn" /\ \A v \in Workers : v < w => worker[v].at # "unborn"
       /\ worker' = [worker EXCEPT ![w] = [task |-> stepper[s].task, at |-> "running",
                                           attempt |-> task[stepper[s].task].attempt]]
       /\ stepper' = [stepper EXCEPT ![s].at = "handle", ![s].worker = w]
  /\ UNCHANGED <<teamTeam, teamControl, planner, uncalled, claim, releases>>

\* The worktree cannot be prepared or the session does not start.
LaunchWorkerFails(s) ==
  /\ StepperAt(s, "launch")
  /\ LET t == stepper[s].task IN
       /\ task' = [task EXCEPT ![t].status = RetryOrFailed(t)]
       /\ Settles(t) /\ Release(t)
  /\ runState' = "failed"
  /\ Return(s, TRUE)
  /\ UNCHANGED <<question, lead, autoStart, teamControl, teamSessions, claim>>

UpdateTaskHandle(s) ==
  /\ StepperAt(s, "handle")
  /\ task' = [task EXCEPT ![stepper[s].task].worker = stepper[s].worker]
  /\ NextTask(s)
  /\ UNCHANGED <<question, runState, lead, autoStart, queried, teamControl, teamSessions,
                 claim, releases>>

\* stop_worker names a task, a session or both; the session is the one of the
\* task if it has one, and none of a worker if w is 0.
Stoppable(t, w) ==
  /\ t # 0 => task[t].worker \in {0, w}
  /\ w # 0 => worker[w].at = "running"

StopWorker(s, t, w) ==
  /\ Applying(s)
  /\ Stoppable(t, w)
  /\ worker' = [v \in Workers |-> IF v = w THEN [worker[v] EXCEPT !.at = "ended"]
                                 ELSE worker[v]]
  /\ stepper' = [stepper EXCEPT ![s].at = IF t = 0 THEN "apply" ELSE "stopped",
                                ![s].task = t, ![s].left = @ - 1]
  /\ UNCHANGED <<teamTeam, teamControl, planner, uncalled, claim, releases>>

\* And the task it named is marked.
StopMarks(s) ==
  /\ StepperAt(s, "stopped")
  /\ MarkTaskRetryOrFailed(stepper[s].task)
  /\ NextTask(s)
  /\ UNCHANGED <<teamControl, teamSessions, claim>>

\* No session is named, or it does not run any more: that is an error.
StopRefused(s, t) ==
  /\ Applying(s)
  /\ (t # 0 /\ task[t].worker # 0) => worker[task[t].worker].at # "running"
  /\ Fail(s)
  /\ UNCHANGED <<teamControl, teamSessions, claim, releases>>

MarkComplete(s, t) ==
  /\ Applying(s)
  /\ SetTeam([task EXCEPT ![t].status = "completed"], question)
  /\ Settles(t) /\ Release(t)
  /\ NextAction(s)
  /\ UNCHANGED <<teamControl, teamSessions, claim>>

\* Mutant: a blocked task keeps its paths.
MarkBlockedKeepsPaths(s, t) ==
  /\ Applying(s)
  /\ SetTeam([task EXCEPT ![t].status = "blocked"], Asked(t))
  /\ Settles(t)
  /\ NextAction(s)
  /\ UNCHANGED <<teamControl, teamSessions, claim, releases>>

\* mark_blocked, with a question or a reason to ask about, or without.
MarkBlocked(s, t) ==
  /\ Applying(s)
  /\ \E q \in {question, Asked(t)} : SetTeam([task EXCEPT ![t].status = "blocked"], q)
  /\ Settles(t) /\ Release(t)
  /\ NextAction(s)
  /\ UNCHANGED <<teamControl, teamSessions, claim>>

\* ask_human, about a task or none, replaces a pending question.
AskHuman(s, t) ==
  /\ Applying(s)
  /\ SetTeam(task, {t})
  /\ NextAction(s)
  /\ UNCHANGED <<queried, teamControl, teamSessions, claim, releases>>

ApplyDone(s) ==
  /\ StepperAt(s, "apply")
  /\ Return(s, FALSE)
  /\ UNCHANGED <<teamTeam, teamControl, teamSessions, claim, releases>>

----------------------------------------------------------------------------
(* Sessions and release goroutines. *)

\* A session ends by itself.
WorkerEnds(w) ==
  /\ worker[w].at = "running"
  /\ \E r \in Results \cup {"ended"} : worker' = [worker EXCEPT ![w].at = r]
  /\ UNCHANGED <<teamTeam, teamControl, planner, uncalled, claim, releases, stepper>>

PlannerEnds(p) ==
  /\ planner[p] = "running"
  /\ \E r \in {"completed", "ended"} : planner' = [planner EXCEPT ![p] = r]
  /\ uncalled' = uncalled \cup {p}
  /\ UNCHANGED <<teamTeam, teamControl, worker, claim, releases, stepper>>

\* updateTeamOnSessionEnd: the planner is the lead of its team.
PlannerCallback(p) ==
  /\ p \in uncalled
  /\ uncalled' = uncalled \ {p}
  /\ task' = IF lead # p THEN task
             ELSE [t \in TeamTasks |-> IF task[t].status = "pending"
                                       THEN [task[t] EXCEPT !.status = "cancelled"]
                                       ELSE task[t]]
  /\ UNCHANGED <<question, runState, lead, autoStart, queried, teamControl, worker, planner,
                 claim, releases, stepper>>

\* It was the last such goroutine, or another one is still under way.
ReleaseClaims(t) ==
  /\ t \in releases
  /\ \E more \in SUBSET {t} : releases' = (releases \ {t}) \cup more
  /\ claim' = [p \in Paths |-> IF claim[p] = t THEN 0 ELSE claim[p]]
  /\ UNCHANGED <<teamTeam, teamControl, teamSessions, stepper>>

----------------------------------------------------------------------------
(* Status queries: getTeamByKey. *)

\* What the status of a session says of its task.
Shown(at) ==
  CASE at = "running" -> "in-progress"
    [] at = "ended" -> "errored"
    [] OTHER -> "completed"

WorkersOf(t) == {w \in Workers : worker[w].at # "unborn" /\ worker[w].task = t}
\* Planners count as workers once they are not the lead, or not yet.
Past == {p \in Planners : planner[p] # "unborn" /\ p # lead}

\* The sessions are read in the order of a Go map.  A task gets the first that
\* quotes it: one of its workers, or q, the first planner.
ReadsFor(t, q) ==
  LET own == {Shown(worker[w].at) : w \in WorkersOf(t)}
      past == IF q = 0 THEN {} ELSE {Shown(planner[q])}
  IN IF own \cup past = {} THEN {"none"} ELSE own \cup past

QueryLooks(r) ==
  /\ looked[r] = NoLook
  /\ \E q \in IF Past = {} THEN {0} ELSE Past :
       \E look \in LookType :
         /\ \A t \in TeamTasks : look[t] \in ReadsFor(t, q)
         /\ looked' = [looked EXCEPT ![r] = look]
  /\ UNCHANGED <<teamTeam, control, stopping, teamSessions, claim, releases, stepper>>

\* Then the tasks are written, whatever became of them since.
Rewritten(r) ==
  {t \in TeamTasks : /\ task[t].status \notin {"completed", "errored"}
                     /\ looked[r][t] \notin {"none", task[t].status}}
QueryWrites(r) ==
  /\ looked[r] # NoLook
  /\ task' = [t \in TeamTasks |-> IF t \in Rewritten(r)
                                  THEN [task[t] EXCEPT !.status = looked[r][t]]
                                  ELSE task[t]]
  /\ queried' = queried \cup Rewritten(r)
  /\ looked' = [looked EXCEPT ![r] = NoLook]
  /\ UNCHANGED <<question, runState, lead, autoStart, control, stopping, teamSessions,
                 claim, releases, stepper>>

----------------------------------------------------------------------------
(* The controller and the tools. *)

HasController == "controller" \in Steppers

\* startTeamByKey: there is one controller of a team at a time.
StartTeam ==
  /\ HasController
  /\ control = "off"
  /\ control' = "on"
  /\ autoStart' = TRUE
  /\ UNCHANGED <<task, question, runState, lead, queried, stopping, looked, teamSessions,
                 claim, releases, stepper>>

\* stopTeamByKey cancels the context the controller steps with, if there is one,
StopTeam ==
  /\ HasController
  /\ ~stopping
  /\ stopping' = TRUE
  /\ control' = IF control = "on" THEN "cancelled" ELSE control
  /\ UNCHANGED <<teamTeam, looked, teamSessions, claim, releases, stepper>>

\* and when the controller is done, or after five seconds, it goes on.
StopTeamReturns ==
  /\ stopping
  /\ stopping' = FALSE
  /\ autoStart' = FALSE
  /\ UNCHANGED <<task, question, runState, lead, queried, control, looked, teamSessions,
                 claim, releases, stepper>>

\* A step of the tool returns.  The controller exits after an error, and when
\* the team is done or waits for an answer.
StepReturns(s) ==
  /\ StepperAt(s, "done")
  /\ stepper' = [stepper EXCEPT ![s] =
       [IdleStepper EXCEPT !.at =
          IF s = "controller" /\ (stepper[s].failed \/ runState # "running")
          THEN "exit" ELSE "idle"]]
  /\ UNCHANGED <<teamTeam, teamControl, teamSessions, claim, releases>>

\* The cancelled context is seen between two steps, unless the ticker is.
ControllerCancelled ==
  /\ HasController
  /\ StepperAt("controller", "idle") /\ control = "cancelled"
  /\ StepperGoto("controller", "exit")
  /\ UNCHANGED <<teamTeam, teamControl, teamSessions, claim, releases>>

ControllerExits ==
  /\ HasController
  /\ StepperAt("controller", "exit")
  /\ control' = "off"
  /\ StepperGoto("controller", "idle")
  /\ UNCHANGED <<teamTeam, stopping, looked, teamSessions, claim, releases>>

\* answerTeamByKey: the answer unblocks the task that was asked about, and a
\* team that starts by itself is started again.
AnswerTeam ==
  /\ question # {}
  /\ LET T == [t \in TeamTasks |-> IF t \in question /\ task[t].status = "blocked"
                                   THEN [task[t] EXCEPT !.status = "pending"]
                                   ELSE task[t]]
     IN /\ task' = T
        /\ runState' = Recalculated(T, {})
  /\ question' = {}
  /\ control' = IF autoStart /\ control = "off" THEN "on" ELSE control
  /\ UNCHANGED <<lead, autoStart, queried, stopping, looked, teamSessions, claim,
                 releases, stepper>>

StepperStep(s) ==
  \/ StepBegin(s)
  \/ IngestRunning(s) \/ IngestStalled(s) \/ IngestFailed(s) \/ IngestResult(s) \/ IngestDone(s)
  \/ Reconcile(s) \/ ReconcileFails(s)
  \/ StepIdles(s) \/ LaunchPlanner(s) \/ LaunchPlannerFails(s) \/ SetLead(s)
  \/ PlannerAnswered(s) \/ PlannerFails(s)
  \/ DeferTask(s) \/ StartTask(s) \/ StartRefused(s)
  \/ LaunchWorker(s) \/ LaunchWorkerFails(s) \/ UpdateTaskHandle(s) \/ StopMarks(s)
  \/ ApplyDone(s) \/ StepReturns(s)

PlannerAction(s) ==
  \/ \E t \in TeamTasks : BeginTask(s, t) \/ MarkComplete(s, t) \/ MarkBlocked(s, t)
  \/ \E t \in 0..NumTasks : \/ BeginRefused(s, t) \/ StopRefused(s, t) \/ AskHuman(s, t)
                           \/ \E w \in 0..MaxWorkers : StopWorker(s, t, w)

TeamNext ==
  \/ \E s \in Steppers : StepperStep(s) \/ PlannerAction(s)
  \/ \E w \in Workers : WorkerEnds(w)
  \/ \E p \in Planners : PlannerEnds(p) \/ PlannerCallback(p)
  \/ \E t \in TeamTasks : ReleaseClaims(t)
  \/ \E r \in Readers : QueryLooks(r) \/ QueryWrites(r)
  \/ StartTeam \/ StopTeam \/ StopTeamReturns
  \/ ControllerCancelled \/ ControllerExits \/ AnswerTeam

\* The controller goroutine goes on; what planners and workers do is up to
\* them, but a planner is given up in the end (PlannerFails).
TeamFairness ==
  \A s \in Steppers \cap {"controller"} :
    WF_teamVars(StepperStep(s) \/ ControllerCancelled \/ ControllerExits)

TeamSpec == TeamInit /\ [][TeamNext]_teamVars /\ TeamFairness

----------------------------------------------------------------------------
(* Properties. *)


\* Of the tasks in progress those that a status query did not put there
\* (manager_team.go:336) are never more than MaxConcurrency, whatever a planner
\* and its workers answer, however steps of the controller and of team_step
\* overlap and whatever queries write between the two looks of a launch:
\* StartTask looks again (team_runtime.go:1028-1043).
ConcurrencyBound == Cardinality(Active(task) \ queried) <= MaxConcurrency

\* With a single stepper: what a step takes in was written by the worker of the
\* task's current attempt, never by one of an attempt before it
\* (team_runtime.go:1063, 773).
WorkerIsCurrent ==
  \A t \in TeamTasks : task[t].worker # 0 =>
    /\ worker[task[t].worker].task = t
    /\ worker[task[t].worker].attempt = task[t].attempt

\* A path whose owner is not worked on is about to be given back, or about to be
\* worked on: no claim outlives its task (team_runtime.go:757, 843, 1041), unless a
\* status query took the task out of progress (manager_team.go:338-342).
ClaimsHaveAReason ==
  \A p \in Paths : claim[p] # 0 =>
    \/ claim[p] \in Active(task)
    \/ claim[p] \in releases
    \/ claim[p] \in queried
    \/ \E s \in Steppers : StepperAt(s, "start") /\ stepper[s].task = claim[p]

\* Once the worker of a task in progress has ended, a later step takes that in:
\* the task does not stay in progress as long as the controller goes on, even
\* when the worker left no result or the step that finds it is cut short
\* (team_runtime.go:941, 1304).
WorkersAccounted ==
  \A t \in TeamTasks, w \in Workers :
    (/\ task[t].status = "in-progress" /\ task[t].worker = w
     /\ worker[w].at \notin {"unborn", "running"})
      ~> (\/ task[t].status # "in-progress" \/ task[t].worker # w
          \/ control = "off")

=============================================================================
