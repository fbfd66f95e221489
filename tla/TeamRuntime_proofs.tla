------------------------- MODULE TeamRuntime_proofs -------------------------
(***************************************************************************)
(* Safety of the team runtime for any number of tasks, paths, sessions and *)
(* retries.                                                                *)
(*                                                                         *)
(* Types and ConcurrencyBound hold with any steppers and queries.  Types   *)
(* alone are not inductive: that a stepper past its first look names a     *)
(* task, and past its launch a session, is a fact about its stage          *)
(* (Engaged).  The bound is on the tasks that steps put in progress        *)
(* (Counted): a status query writes what it read earlier and counts no     *)
(* slots, but whatever it writes the second look of a launch counts again. *)
(*                                                                         *)
(* WorkerIsCurrent and ClaimsHaveAReason are of a team that one stepper    *)
(* moves (OneStepper): m.workersMu is given up between a step's looks, and *)
(* what a step found in its snapshot is not looked at again.  With it what *)
(* the stepper holds stays true between two of its actions (InStep).  Each *)
(* handle of a task, of its snapshot and of a launch under way then names  *)
(* the session of the current attempt; and a task is not in progress when  *)
(* the step reconciles or defers it, unless a query put it there, so that  *)
(* what takes a task out of progress leaves a release of its paths or the  *)
(* mark of a query behind (Accounts).                                      *)
(***************************************************************************)
EXTENDS TeamRuntime, FiniteSetTheorems, WellFoundedInduction, TLAPS

\* The snapshot's first entry is one of it.
LEMMA FirstIsOne ==
  ASSUME NEW s, stepper[s].todo # {}, stepper[s].todo \subseteq TeamTasks \X (0..MaxWorkers)
  PROVE  FirstOf(s) \in stepper[s].todo
<1> DEFINE todo == stepper[s].todo
           first == {e[1] : e \in todo}
<1>1. first \subseteq Nat /\ first # {}
  BY TeamAssumption DEF TeamTasks
<1>2. PICK n \in first : \A m \in first : <<m, n>> \notin OpToRel(<, Nat)
  BY <1>1, NatLessThanWellFounded, WFMin, Zenon
<1>3. \A m \in first : ~(m < n)
  BY <1>1, <1>2, Zenon DEF OpToRel
<1>4. PICK e \in todo : e[1] = n
  OBVIOUS
<1>5. \A f \in todo : e[1] <= f[1]
  BY <1>1, <1>3, <1>4
<1>6. \E d \in todo : \A f \in todo : d[1] <= f[1]
  BY <1>5
<1> HIDE DEF todo
<1>7. (CHOOSE d \in todo : \A f \in todo : d[1] <= f[1]) \in todo
  BY <1>6
<1> QED
  BY <1>7 DEF FirstOf, todo

\* The snapshot as far as the types go.
LEMMA TodoTypes ==
  ASSUME TeamTypeOK, NEW s \in Steppers
  PROVE  /\ stepper[s] \in StepperType
         /\ stepper[s].todo \subseteq TeamTasks \X (0..MaxWorkers)
         /\ stepper[s].todo # {} => /\ FirstOf(s) \in stepper[s].todo
                                    /\ FirstOf(s)[1] \in TeamTasks
                                    /\ FirstOf(s)[2] \in 0..MaxWorkers
<1>1. stepper[s] \in StepperType /\ stepper[s].todo \subseteq TeamTasks \X (0..MaxWorkers)
  BY DEF TeamTypeOK, StepperType
<1>2. stepper[s].todo # {} => FirstOf(s) \in stepper[s].todo
  BY <1>1, FirstIsOne
<1> QED
  BY <1>1, <1>2

----------------------------------------------------------------------------
(* Types. *)

\* The types of the variables by themselves, each under a name.
TaskTypes == [TeamTasks -> TaskType]
\* No question or the one of a task.
QuestionTypes == {q \in SUBSET (0..NumTasks) : Cardinality(q) <= 1}
\* What team.RunState may be.
RunStates == {"running", "completed", "failed", "awaiting_input"}
\* Where the steppers may be.
StepperTypes == [Steppers -> StepperType]

\* The run state computed again is one.
LEMMA RecalculatedType ==
  ASSUME NEW T, NEW q
  PROVE  Recalculated(T, q) \in RunStates
BY DEF Recalculated, RunStates

\* One question at most is asked.
LEMMA AskedType ==
  ASSUME question \in QuestionTypes, NEW t \in 0..NumTasks
  PROVE  /\ Asked(t) \in QuestionTypes
         /\ {t} \in QuestionTypes /\ {} \in QuestionTypes
<1>1. Cardinality({t}) = 1 /\ Cardinality({}) = 0
  BY FS_Singleton, FS_EmptySet
<1> QED
  BY <1>1 DEF Asked, QuestionTypes

\* A status, a handle or the state of a merge is set.
LEMMA TaskSets ==
  ASSUME task \in TaskTypes, NEW t \in TeamTasks
  PROVE  /\ \A st \in TaskStatuses : [task EXCEPT ![t].status = st] \in TaskTypes
         /\ \A w \in 0..MaxWorkers : [task EXCEPT ![t].worker = w] \in TaskTypes
         /\ [task EXCEPT ![t].merge = "merged"] \in TaskTypes
         /\ [task EXCEPT ![t].merge = "not_merged", ![t].status = "blocked"] \in TaskTypes
         /\ RetryOrFailed(t) \in TaskStatuses
<1>1. \A st \in TaskStatuses : [task EXCEPT ![t].status = st] \in TaskTypes
  BY DEF TaskTypes, TaskType
<1>2. \A w \in 0..MaxWorkers : [task EXCEPT ![t].worker = w] \in TaskTypes
  BY DEF TaskTypes, TaskType
<1>3. [task EXCEPT ![t].merge = "merged"] \in TaskTypes
  BY DEF TaskTypes, TaskType
<1>4. "blocked" \in TaskStatuses /\ RetryOrFailed(t) \in TaskStatuses
  BY DEF TaskStatuses, RetryOrFailed
<1>5. [task EXCEPT ![t].merge = "not_merged", ![t].status = "blocked"] \in TaskTypes
  BY <1>4 DEF TaskTypes, TaskType
<1> QED
  BY <1>1, <1>2, <1>3, <1>4, <1>5

\* A worker's result is one of the statuses.
LEMMA AppliedType ==
  ASSUME task \in TaskTypes, NEW t \in TeamTasks, NEW w \in 0..MaxWorkers,
         NEW r \in Results \ {"invalid"}
  PROVE  Applied(t, w, r) \in TaskTypes
<1> DEFINE now == [task EXCEPT ![t].worker = w]
<1>1. now \in TaskTypes
  BY TaskSets
<1>2. r \in {"completed", "blocked", "drift", "needs_retry", "failed"}
  BY TeamAssumption
<1>3. RetryOrFailed(t) \in TaskStatuses
  BY TaskSets
<1> HIDE DEF now
<1>4. ASSUME NEW st \in TaskStatuses PROVE [now EXCEPT ![t].status = st] \in TaskTypes
  BY <1>1 DEF TaskTypes, TaskType
<1>5. ASSUME NEW st \in TaskStatuses, NEW m \in {"pending", "not_merged"}
      PROVE  [now EXCEPT ![t].status = st, ![t].merge = m] \in TaskTypes
  <2> DEFINE next == [now EXCEPT ![t].status = st]
  <2>1. next \in TaskTypes
    BY <1>4
  <2> HIDE DEF next
  <2>2. [next EXCEPT ![t].merge = m] \in TaskTypes
    BY <2>1 DEF TaskTypes, TaskType
  <2> QED
    BY <2>2 DEF next
<1>6. "completed" \in TaskStatuses /\ "blocked" \in TaskStatuses /\ "failed" \in TaskStatuses
  BY DEF TaskStatuses
<1> QED
  BY <1>2, <1>3, <1>4, <1>5, <1>6 DEF Applied, now

\* The type of what m.workersMu guards, of the controller and of the queries.
TeamHalf ==
  /\ task \in TaskTypes /\ question \in QuestionTypes /\ runState \in RunStates
  /\ lead \in 0..MaxPlanners /\ autoStart \in BOOLEAN
  /\ queried \subseteq TeamTasks
  /\ control \in {"off", "on", "cancelled"} /\ stopping \in BOOLEAN
  /\ looked \in [Readers -> LookType]

\* The type of the sessions.
SessionHalf ==
  /\ worker \in [Workers -> WorkerType]
  /\ planner \in [Planners -> {"unborn", "running", "completed", "ended"}]
  /\ uncalled \subseteq Planners

\* The type of the claims and of the goroutines that give them back.
ClaimHalf == claim \in [Paths -> 0..NumTasks] /\ releases \subseteq TeamTasks

\* The type invariant in its parts.
LEMMA TypeHalves ==
  TeamTypeOK <=> TeamHalf /\ SessionHalf /\ ClaimHalf /\ stepper \in StepperTypes
BY DEF TeamTypeOK, TeamHalf, SessionHalf, ClaimHalf, StepperTypes, TaskTypes, QuestionTypes,
       RunStates

\* How a step moves its stepper.
LEMMA StepperSets ==
  ASSUME stepper \in StepperTypes, NEW s \in Steppers
  PROVE  /\ \A a \in StepperStages : [stepper EXCEPT ![s].at = a] \in StepperTypes
         /\ \A e \in BOOLEAN : Return(s, e) => stepper' \in StepperTypes
         /\ Looked(s) => stepper' \in StepperTypes
         /\ NextTask(s) => stepper' \in StepperTypes
         /\ stepper[s].left > 0 /\ NextAction(s) => stepper' \in StepperTypes
<1>1. stepper[s] \in StepperType /\ IdleStepper \in StepperType
  BY TeamAssumption DEF StepperTypes, StepperType, IdleStepper, StepperStages
<1>2. \A a \in StepperStages : [stepper[s] EXCEPT !.at = a] \in StepperType
  BY <1>1 DEF StepperType
<1>3. ASSUME NEW e \in BOOLEAN
      PROVE  [IdleStepper EXCEPT !.at = "done", !.failed = e] \in StepperType
  BY <1>1 DEF StepperType, StepperStages
<1>4. [stepper[s] EXCEPT !.todo = stepper[s].todo \ {FirstOf(s)}] \in StepperType
  BY <1>1 DEF StepperType
<1>5. [stepper[s] EXCEPT !.at = "apply", !.task = 0, !.worker = 0] \in StepperType
  <2>1. 0 \in 0..NumTasks /\ 0 \in 0..MaxWorkers /\ "apply" \in StepperStages
    BY TeamAssumption DEF StepperStages
  <2> QED
    BY <1>1, <2>1 DEF StepperType
<1>6. stepper[s].left > 0 => [stepper[s] EXCEPT !.left = stepper[s].left - 1] \in StepperType
  BY <1>1, TeamAssumption DEF StepperType
<1>7. \A a \in StepperStages : [stepper EXCEPT ![s].at = a] \in StepperTypes
  BY <1>2 DEF StepperTypes
<1>8. \A e \in BOOLEAN : Return(s, e) => stepper' \in StepperTypes
  BY <1>3 DEF StepperTypes, Return
<1>9. Looked(s) => stepper' \in StepperTypes
  BY <1>4 DEF StepperTypes, Looked
<1>10. NextTask(s) => stepper' \in StepperTypes
  BY <1>5 DEF StepperTypes, NextTask
<1>11. stepper[s].left > 0 /\ NextAction(s) => stepper' \in StepperTypes
  BY <1>6 DEF StepperTypes, NextAction
<1> QED
  BY <1>7, <1>8, <1>9, <1>10, <1>11

\* What a change of the tasks under m.workersMu leaves well-formed.
LEMMA TeamSets ==
  ASSUME TeamHalf, UNCHANGED teamControl, queried' \subseteq queried
  PROVE  /\ \A T \in TaskTypes, q \in QuestionTypes : SetTeam(T, q) => TeamHalf'
         /\ \A s \in Steppers : Fail(s) => TeamHalf'
         /\ UNCHANGED teamTeam => TeamHalf'
BY RecalculatedType DEF TeamHalf, SetTeam, Fail, teamTeam, teamControl, RunStates

\* A release goroutine more.
LEMMA ReleaseTypes ==
  ASSUME ClaimHalf, NEW t \in TeamTasks, Release(t), claim' = claim
  PROVE  ClaimHalf'
BY DEF ClaimHalf, Release

\* The task is given up for now.
LEMMA RetryTypes ==
  ASSUME TeamHalf, ClaimHalf, NEW t \in TeamTasks, MarkTaskRetryOrFailed(t),
         UNCHANGED <<teamControl, claim>>
  PROVE  TeamHalf' /\ ClaimHalf'
<1>1. [task EXCEPT ![t].status = RetryOrFailed(t)] \in TaskTypes /\ question \in QuestionTypes
  BY TaskSets DEF TeamHalf
<1> QED
  BY <1>1, TeamSets, ReleaseTypes DEF MarkTaskRetryOrFailed, Settles

\* What a step leaves alone keeps its types.
LEMMA HalvesKept ==
  ASSUME TeamTypeOK
  PROVE  /\ UNCHANGED <<teamTeam, teamControl>> => TeamHalf'
         /\ UNCHANGED teamSessions => SessionHalf'
         /\ UNCHANGED <<claim, releases>> => ClaimHalf'
         /\ UNCHANGED stepper => stepper' \in StepperTypes
BY TypeHalves DEF TeamHalf, SessionHalf, ClaimHalf, teamTeam, teamControl, teamSessions

\* The steps that take in work.
TakesIn(s) ==
  \/ IngestRunning(s) \/ IngestStalled(s) \/ IngestFailed(s) \/ IngestResult(s)
  \/ Reconcile(s)

\* The steps that move a stepper and change nothing of the tasks.
Moves(s) ==
  \/ StepBegin(s) \/ IngestDone(s) \/ ReconcileFails(s) \/ StepIdles(s) \/ LaunchPlanner(s)
  \/ LaunchPlannerFails(s) \/ SetLead(s) \/ PlannerAnswered(s) \/ PlannerFails(s)
  \/ ApplyDone(s) \/ StepReturns(s)

\* The steps that carry an action of the planner out.
CarriesOut(s) ==
  \/ DeferTask(s) \/ StartTask(s) \/ StartRefused(s)
  \/ LaunchWorker(s) \/ LaunchWorkerFails(s) \/ UpdateTaskHandle(s) \/ StopMarks(s)

\* The ends of sessions, the release goroutines, the status queries, the controller
\* and the tools.
Others ==
  \/ \E w \in Workers : WorkerEnds(w)
  \/ \E p \in Planners : PlannerEnds(p) \/ PlannerCallback(p)
  \/ \E t \in TeamTasks : ReleaseClaims(t)
  \/ \E r \in Readers : QueryLooks(r) \/ QueryWrites(r)
  \/ StartTeam \/ StopTeam \/ StopTeamReturns
  \/ ControllerCancelled \/ ControllerExits \/ AnswerTeam

\* These are all the steps.
LEMMA StepCases ==
  TeamNext => \/ \E s \in Steppers : TakesIn(s) \/ Moves(s) \/ CarriesOut(s) \/ PlannerAction(s)
              \/ Others
BY DEF TeamNext, StepperStep, TakesIn, Moves, CarriesOut, Others

\* Types under the steps that take in work.
LEMMA TypeIngest ==
  ASSUME TeamTypeOK, NEW s \in Steppers, TakesIn(s)
  PROVE  TeamHalf' /\ SessionHalf' /\ ClaimHalf' /\ stepper' \in StepperTypes
<1>0. TeamHalf /\ SessionHalf /\ ClaimHalf /\ stepper \in StepperTypes
  BY TypeHalves
<1>1. /\ stepper[s].todo # {} /\ (Looked(s) \/ stepper' = stepper)
      /\ FirstOf(s)[1] \in TeamTasks /\ FirstOf(s)[2] \in 0..MaxWorkers
  BY TodoTypes DEF TakesIn, IngestRunning, IngestStalled, IngestFailed, IngestResult, Reconcile
<1>2. stepper' \in StepperTypes
  BY <1>0, <1>1, StepperSets
<1>3. CASE IngestRunning(s)
  BY <1>2, <1>3, HalvesKept DEF IngestRunning
<1>4. CASE IngestStalled(s)
  <2>1. SessionHalf'
    BY <1>0, <1>4 DEF IngestStalled, SessionHalf, WorkerType
  <2> QED
    BY <1>2, <1>4, <2>1, HalvesKept DEF IngestStalled
<1>5. CASE IngestFailed(s)
  <2>1. TeamHalf' /\ ClaimHalf'
    BY <1>0, <1>1, <1>5, RetryTypes DEF IngestFailed
  <2> QED
    BY <1>2, <1>5, <2>1, HalvesKept DEF IngestFailed
<1>6. CASE IngestResult(s)
  <2> DEFINE t == FirstOf(s)[1]
             w == FirstOf(s)[2]
             r == worker[w].at
  <2>1. Applied(t, w, r) \in TaskTypes
    BY <1>0, <1>1, <1>6, AppliedType DEF IngestResult, TeamHalf
  <2>2. QuestionsOf(t, r) \subseteq QuestionTypes
    <3>1. t \in 0..NumTasks
      BY <1>1, TeamAssumption DEF TeamTasks
    <3> QED
      BY <1>0, <3>1, AskedType DEF TeamHalf, QuestionsOf
  <2>3. /\ \E q \in QuestionsOf(t, r) : SetTeam(Applied(t, w, r), q)
        /\ Settles(t) /\ Release(t) /\ UNCHANGED <<teamControl, teamSessions, claim>>
    BY <1>6 DEF IngestResult, ApplyWorkerResult
  <2> HIDE DEF r
  <2>4. TeamHalf'
    BY <1>0, <2>1, <2>2, <2>3, TeamSets DEF Settles
  <2>5. ClaimHalf'
    BY <1>0, <1>1, <2>3, ReleaseTypes
  <2> QED
    BY <1>2, <2>3, <2>4, <2>5, HalvesKept
<1>7. CASE Reconcile(s)
  <2> DEFINE t == FirstOf(s)[1]
  <2>1. /\ [task EXCEPT ![t].merge = "merged"] \in TaskTypes
        /\ [task EXCEPT ![t].merge = "not_merged", ![t].status = "blocked"] \in TaskTypes
    BY <1>0, <1>1, TaskSets DEF TeamHalf
  <2>2. question \in QuestionTypes /\ Asked(t) \in QuestionTypes
    <3>1. t \in 0..NumTasks
      BY <1>1, TeamAssumption DEF TeamTasks
    <3> QED
      BY <1>0, <3>1, AskedType DEF TeamHalf
  <2>3. /\ \/ SetTeam([task EXCEPT ![t].merge = "merged"], question)
           \/ SetTeam([task EXCEPT ![t].merge = "not_merged", ![t].status = "blocked"], Asked(t))
        /\ UNCHANGED <<queried, teamControl, teamSessions, claim, releases>>
    BY <1>7 DEF Reconcile
  <2>4. TeamHalf'
    BY <1>0, <2>1, <2>2, <2>3, TeamSets
  <2> QED
    BY <1>2, <2>3, <2>4, HalvesKept
<1> QED
  BY <1>3, <1>4, <1>5, <1>6, <1>7 DEF TakesIn

\* Types under the moves.
LEMMA TypeMoves ==
  ASSUME TeamTypeOK, NEW s \in Steppers, Moves(s)
  PROVE  TeamHalf' /\ SessionHalf' /\ ClaimHalf' /\ stepper' \in StepperTypes
<1>0. TeamHalf /\ SessionHalf /\ ClaimHalf /\ stepper \in StepperTypes
  BY TypeHalves
<1>1. stepper[s] \in StepperType /\ IdleStepper \in StepperType
  BY <1>0, TeamAssumption DEF StepperTypes, StepperType, IdleStepper, StepperStages
<1>2. CASE StepBegin(s)
  <2>1. \A t \in TeamTasks : task[t].worker \in 0..MaxWorkers
    BY <1>0 DEF TeamHalf, TaskTypes, TaskType
  <2>2. InHand(task) \subseteq TeamTasks \X (0..MaxWorkers)
    BY <2>1 DEF InHand, Active
  <2>3. [IdleStepper EXCEPT !.at = "ingest", !.todo = InHand(task)] \in StepperType
    BY <1>1, <2>2 DEF StepperType, StepperStages
  <2>4. stepper' \in StepperTypes
    BY <1>0, <1>2, <2>3 DEF StepBegin, StepperTypes
  <2>5. TeamHalf'
    BY <1>0, <1>2, RecalculatedType DEF StepBegin, TeamHalf, teamControl
  <2> QED
    BY <1>2, <2>4, <2>5, HalvesKept DEF StepBegin
<1>3. CASE IngestDone(s)
  <2>1. Unmerged(task) \subseteq TeamTasks \X (0..MaxWorkers)
    BY TeamAssumption DEF Unmerged
  <2>2. [stepper[s] EXCEPT !.at = "reconcile", !.todo = Unmerged(task)] \in StepperType
    BY <1>1, <2>1 DEF StepperType, StepperStages
  <2>3. stepper' \in StepperTypes
    BY <1>0, <1>3, <2>2 DEF IngestDone, StepperTypes
  <2> QED
    BY <1>3, <2>3, HalvesKept DEF IngestDone
<1>4. CASE ReconcileFails(s) \/ StepIdles(s) \/ ApplyDone(s)
  <2>1. (Return(s, TRUE) \/ Return(s, FALSE))
        /\ UNCHANGED <<teamTeam, teamControl, teamSessions, claim, releases>>
    BY <1>4 DEF ReconcileFails, StepIdles, ApplyDone
  <2>2. stepper' \in StepperTypes
    BY <1>0, <2>1, StepperSets
  <2> QED
    BY <2>1, <2>2, HalvesKept
<1>5. CASE LaunchPlanner(s)
  <2>1. PICK p \in Planners :
          /\ planner' = [planner EXCEPT ![p] = "running"]
          /\ stepper' = [stepper EXCEPT ![s].at = "launched", ![s].plan = p]
    BY <1>5 DEF LaunchPlanner
  <2>2. p \in 0..MaxPlanners
    BY TeamAssumption DEF Planners
  <2>3. [stepper[s] EXCEPT !.at = "launched", !.plan = p] \in StepperType
    BY <1>1, <2>2 DEF StepperType, StepperStages
  <2>4. stepper' \in StepperTypes
    BY <1>0, <2>1, <2>3 DEF StepperTypes
  <2>5. SessionHalf'
    BY <1>0, <1>5, <2>1 DEF LaunchPlanner, SessionHalf
  <2> QED
    BY <1>5, <2>4, <2>5, HalvesKept DEF LaunchPlanner
<1>6. CASE LaunchPlannerFails(s) \/ PlannerFails(s)
  <2>1. Fail(s) /\ UNCHANGED <<teamControl, teamSessions, claim, releases>>
    BY <1>6 DEF LaunchPlannerFails, PlannerFails
  <2>2. stepper' \in StepperTypes
    BY <1>0, <2>1, StepperSets DEF Fail
  <2>3. TeamHalf'
    BY <1>0, <2>1, TeamSets DEF Fail
  <2> QED
    BY <2>1, <2>2, <2>3, HalvesKept
<1>7. CASE SetLead(s)
  <2>1. "planning" \in StepperStages
    BY DEF StepperStages
  <2>2. stepper' \in StepperTypes
    BY <1>0, <1>7, <2>1, StepperSets DEF SetLead, StepperGoto
  <2>3. stepper[s].plan \in 0..MaxPlanners
    BY <1>1 DEF StepperType
  <2>4. TeamHalf' /\ SessionHalf'
    BY <1>0, <1>7, <2>3, HalvesKept DEF SetLead, TeamHalf, teamControl
  <2> QED
    BY <1>7, <2>2, <2>4, HalvesKept DEF SetLead
<1>8. CASE PlannerAnswered(s)
  <2>1. MaxActions \in 0..MaxActions /\ 0 \in 0..MaxPlanners /\ "apply" \in StepperStages
    BY TeamAssumption DEF StepperStages
  <2>2. [stepper[s] EXCEPT !.at = "apply", !.left = MaxActions, !.plan = 0] \in StepperType
    BY <1>1, <2>1 DEF StepperType
  <2>3. stepper' \in StepperTypes
    BY <1>0, <1>8, <2>2 DEF PlannerAnswered, StepperTypes
  <2> QED
    BY <1>8, <2>3, HalvesKept DEF PlannerAnswered
<1>9. CASE StepReturns(s)
  <2>1. \A a \in {"exit", "idle"} : [IdleStepper EXCEPT !.at = a] \in StepperType
    BY <1>1 DEF StepperType, StepperStages
  <2>2. \E a \in {"exit", "idle"} : stepper' = [stepper EXCEPT ![s] = [IdleStepper EXCEPT !.at = a]]
    BY <1>9 DEF StepReturns
  <2>3. stepper' \in StepperTypes
    BY <1>0, <2>1, <2>2 DEF StepperTypes
  <2> QED
    BY <1>9, <2>3, HalvesKept DEF StepReturns
<1> QED
  BY <1>2, <1>3, <1>4, <1>5, <1>6, <1>7, <1>8, <1>9 DEF Moves

\* The stages of a stepper that works on a task.
TaskStages == {"defer", "start", "launch", "handle", "stopped"}

\* A stepper that works on a task has one, and a worker for it once it launched
\* one.
Engaged ==
  \A s \in Steppers :
    /\ stepper[s].at \in TaskStages => stepper[s].task \in TeamTasks
    /\ stepper[s].at = "handle" => stepper[s].worker \in Workers

\* Types when an action of the planner is carried out.
LEMMA TypeActions ==
  ASSUME TeamTypeOK, Engaged, NEW s \in Steppers, CarriesOut(s)
  PROVE  TeamHalf' /\ SessionHalf' /\ ClaimHalf' /\ stepper' \in StepperTypes
<1>0. TeamHalf /\ SessionHalf /\ ClaimHalf /\ stepper \in StepperTypes
  BY TypeHalves
<1>1. stepper[s] \in StepperType
  BY <1>0 DEF StepperTypes
<1> DEFINE t == stepper[s].task
<1>2. t \in TeamTasks
  BY DEF Engaged, TaskStages, CarriesOut, DeferTask, StartTask, StartRefused, LaunchWorker,
         LaunchWorkerFails, UpdateTaskHandle, StopMarks, StepperAt
<1>3. task[t] \in TaskType
  BY <1>0, <1>2 DEF TeamHalf, TaskTypes
<1>4. CASE DeferTask(s)
  <2>1. "pending" \in TaskStatuses
    BY DEF TaskStatuses
  <2>2. [task EXCEPT ![t].status = "pending"] \in TaskTypes /\ question \in QuestionTypes
    BY <1>0, <1>2, <2>1, TaskSets DEF TeamHalf
  <2>3. TeamHalf'
    BY <1>0, <1>4, <2>2, TeamSets DEF DeferTask
  <2>4. stepper' \in StepperTypes
    BY <1>0, <1>4, StepperSets DEF DeferTask
  <2> QED
    BY <1>4, <2>3, <2>4, HalvesKept DEF DeferTask
<1>5. CASE StartTask(s)
  <2>1. task[t].attempt + 1 \in Nat /\ 0 \in 0..MaxWorkers
    BY <1>3, TeamAssumption DEF TaskType
  <2>2. [status |-> "in-progress", attempt |-> task[t].attempt + 1, worker |-> 0,
         merge |-> "pending"] \in TaskType
    BY <2>1 DEF TaskType, TaskStatuses
  <2>3. task' \in TaskTypes
    BY <1>0, <1>5, <2>2 DEF StartTask, TeamHalf, TaskTypes
  <2>4. "launch" \in StepperStages
    BY DEF StepperStages
  <2>5. stepper' \in StepperTypes
    BY <1>0, <1>5, <2>4, StepperSets DEF StartTask, StepperGoto
  <2>6. TeamHalf'
    BY <1>0, <1>5, <2>3 DEF StartTask, Settles, TeamHalf, teamControl
  <2> QED
    BY <1>5, <2>5, <2>6, HalvesKept DEF StartTask
<1>6. CASE StartRefused(s)
  <2>1. stepper' \in StepperTypes
    BY <1>0, <1>6, StepperSets DEF StartRefused, Fail
  <2>2. TeamHalf'
    BY <1>0, <1>6, TeamSets DEF StartRefused, Fail
  <2>3. ClaimHalf'
    BY <1>0, <1>2, <1>6, ReleaseTypes DEF StartRefused
  <2> QED
    BY <1>6, <2>1, <2>2, <2>3, HalvesKept DEF StartRefused
<1>7. CASE LaunchWorker(s)
  <2>1. PICK w \in Workers :
          /\ worker' = [worker EXCEPT ![w] = [task |-> t, at |-> "running",
                                              attempt |-> task[t].attempt]]
          /\ stepper' = [stepper EXCEPT ![s].at = "handle", ![s].worker = w]
    BY <1>7 DEF LaunchWorker
  <2>2. w \in 0..MaxWorkers /\ t \in 0..NumTasks /\ task[t].attempt \in Nat
    BY <1>2, <1>3, TeamAssumption DEF Workers, TeamTasks, TaskType
  <2>3. [stepper[s] EXCEPT !.at = "handle", !.worker = w] \in StepperType
    BY <1>1, <2>2 DEF StepperType, StepperStages
  <2>4. stepper' \in StepperTypes
    BY <1>0, <2>1, <2>3 DEF StepperTypes
  <2>5. [task |-> t, at |-> "running", attempt |-> task[t].attempt] \in WorkerType
    BY <2>2 DEF WorkerType
  <2>6. worker' \in [Workers -> WorkerType]
    BY <1>0, <2>1, <2>5 DEF SessionHalf
  <2>7. SessionHalf'
    BY <1>0, <1>7, <2>6 DEF LaunchWorker, SessionHalf
  <2> QED
    BY <1>7, <2>4, <2>7, HalvesKept DEF LaunchWorker
<1>8. CASE LaunchWorkerFails(s)
  <2>1. task' \in TaskTypes
    BY <1>0, <1>2, <1>8, TaskSets DEF LaunchWorkerFails, TeamHalf
  <2>2. stepper' \in StepperTypes
    BY <1>0, <1>8, StepperSets DEF LaunchWorkerFails
  <2>3. TeamHalf'
    BY <1>0, <1>8, <2>1 DEF LaunchWorkerFails, Settles, TeamHalf, RunStates, teamControl
  <2>4. ClaimHalf'
    BY <1>0, <1>2, <1>8, ReleaseTypes DEF LaunchWorkerFails
  <2> QED
    BY <1>8, <2>2, <2>3, <2>4, HalvesKept DEF LaunchWorkerFails
<1>9. CASE UpdateTaskHandle(s)
  <2>1. stepper[s].worker \in 0..MaxWorkers
    BY <1>1 DEF StepperType
  <2>2. task' \in TaskTypes
    BY <1>0, <1>2, <1>9, <2>1, TaskSets DEF UpdateTaskHandle, TeamHalf
  <2>3. stepper' \in StepperTypes
    BY <1>0, <1>9, StepperSets DEF UpdateTaskHandle
  <2>4. TeamHalf'
    BY <1>0, <1>9, <2>2 DEF UpdateTaskHandle, TeamHalf, teamControl
  <2> QED
    BY <1>9, <2>3, <2>4, HalvesKept DEF UpdateTaskHandle
<1>10. CASE StopMarks(s)
  <2>1. TeamHalf' /\ ClaimHalf'
    BY <1>0, <1>2, <1>10, RetryTypes DEF StopMarks
  <2>2. stepper' \in StepperTypes
    BY <1>0, <1>10, StepperSets DEF StopMarks
  <2> QED
    BY <1>10, <2>1, <2>2, HalvesKept DEF StopMarks
<1> QED
  BY <1>4, <1>5, <1>6, <1>7, <1>8, <1>9, <1>10 DEF CarriesOut

\* Types under the actions of the planner.
LEMMA TypePlanner ==
  ASSUME TeamTypeOK, NEW s \in Steppers, PlannerAction(s)
  PROVE  TeamHalf' /\ SessionHalf' /\ ClaimHalf' /\ stepper' \in StepperTypes
<1>0. TeamHalf /\ SessionHalf /\ ClaimHalf /\ stepper \in StepperTypes
  BY TypeHalves
<1>1. stepper[s] \in StepperType
  BY <1>0 DEF StepperTypes
<1>2. \A t \in TeamTasks : t \in 0..NumTasks
  BY TeamAssumption DEF TeamTasks
<1>3. ASSUME NEW t \in TeamTasks, BeginTask(s, t)
      PROVE  TeamHalf' /\ SessionHalf' /\ ClaimHalf' /\ stepper' \in StepperTypes
  <2>0. stepper[s].left \in 0..MaxActions /\ stepper[s].left > 0
    BY <1>1, <1>3 DEF BeginTask, Applying, StepperType
  <2>1. stepper[s].left - 1 \in 0..MaxActions
    BY <2>0, TeamAssumption
  <2>2. ASSUME NEW a \in {"defer", "start"}
        PROVE  [stepper[s] EXCEPT !.at = a, !.task = t, !.left = stepper[s].left - 1]
                 \in StepperType
    BY <1>1, <1>2, <2>1 DEF StepperType, StepperStages
  <2>3. \E a \in {"defer", "start"} :
          stepper' = [stepper EXCEPT ![s].at = a, ![s].task = t, ![s].left = stepper[s].left - 1]
    BY <1>3 DEF BeginTask
  <2>4. stepper' \in StepperTypes
    BY <1>0, <2>2, <2>3 DEF StepperTypes
  <2>5. claim' \in [Paths -> 0..NumTasks]
    BY <1>0, <1>2, <1>3 DEF BeginTask, ClaimHalf
  <2>6. ClaimHalf'
    BY <1>0, <1>3, <2>5 DEF BeginTask, ClaimHalf
  <2> QED
    BY <1>3, <2>4, <2>6, HalvesKept DEF BeginTask
<1>4. ASSUME NEW t \in 0..NumTasks, BeginRefused(s, t) \/ StopRefused(s, t)
      PROVE  TeamHalf' /\ SessionHalf' /\ ClaimHalf' /\ stepper' \in StepperTypes
  <2>1. Fail(s) /\ UNCHANGED <<teamControl, teamSessions, claim, releases>>
    BY <1>4 DEF BeginRefused, StopRefused
  <2>2. stepper' \in StepperTypes
    BY <1>0, <2>1, StepperSets DEF Fail
  <2>3. TeamHalf'
    BY <1>0, <2>1, TeamSets DEF Fail
  <2> QED
    BY <2>1, <2>2, <2>3, HalvesKept
<1>5. ASSUME stepper[s].left > 0, NextAction(s) PROVE stepper' \in StepperTypes
  BY <1>0, <1>5, StepperSets
<1>6. ASSUME NEW t \in 0..NumTasks, NEW w \in 0..MaxWorkers, StopWorker(s, t, w)
      PROVE  TeamHalf' /\ SessionHalf' /\ ClaimHalf' /\ stepper' \in StepperTypes
  <2>0. stepper[s].left \in 0..MaxActions /\ stepper[s].left > 0
    BY <1>1, <1>6 DEF StopWorker, Applying, StepperType
  <2>1. stepper[s].left - 1 \in 0..MaxActions
    BY <2>0, TeamAssumption
  <2>2. ASSUME NEW a \in {"apply", "stopped"}
        PROVE  [stepper[s] EXCEPT !.at = a, !.task = t, !.left = stepper[s].left - 1]
                 \in StepperType
    BY <1>1, <2>1 DEF StepperType, StepperStages
  <2>3. \E a \in {"apply", "stopped"} :
          stepper' = [stepper EXCEPT ![s].at = a, ![s].task = t, ![s].left = stepper[s].left - 1]
    BY <1>6 DEF StopWorker
  <2>4. stepper' \in StepperTypes
    BY <1>0, <2>2, <2>3 DEF StepperTypes
  <2>5. \A v \in Workers : worker[v] \in WorkerType
                           /\ [worker[v] EXCEPT !.at = "ended"] \in WorkerType
    BY <1>0 DEF SessionHalf, WorkerType
  <2>6. SessionHalf'
    BY <1>0, <1>6, <2>5 DEF StopWorker, SessionHalf
  <2> QED
    BY <1>6, <2>4, <2>6, HalvesKept DEF StopWorker
<1>7. ASSUME NEW t \in TeamTasks, MarkComplete(s, t) \/ MarkBlocked(s, t)
      PROVE  TeamHalf' /\ SessionHalf' /\ ClaimHalf' /\ stepper' \in StepperTypes
  <2>1. "completed" \in TaskStatuses /\ "blocked" \in TaskStatuses
    BY DEF TaskStatuses
  <2>2. /\ [task EXCEPT ![t].status = "completed"] \in TaskTypes
        /\ [task EXCEPT ![t].status = "blocked"] \in TaskTypes
        /\ question \in QuestionTypes
    BY <1>0, <2>1, TaskSets DEF TeamHalf
  <2>3. Asked(t) \in QuestionTypes
    BY <1>0, <1>2, AskedType DEF TeamHalf
  <2>4. /\ \/ SetTeam([task EXCEPT ![t].status = "completed"], question)
           \/ SetTeam([task EXCEPT ![t].status = "blocked"], Asked(t))
           \/ SetTeam([task EXCEPT ![t].status = "blocked"], question)
        /\ Settles(t) /\ Release(t) /\ Applying(s) /\ NextAction(s)
        /\ UNCHANGED <<teamControl, teamSessions, claim>>
    BY <1>7 DEF MarkComplete, MarkBlocked
  <2>5. TeamHalf'
    BY <1>0, <2>2, <2>3, <2>4, TeamSets DEF Settles
  <2>6. ClaimHalf'
    BY <1>0, <2>4, ReleaseTypes
  <2> QED
    BY <1>5, <2>4, <2>5, <2>6, HalvesKept DEF Applying
<1>8. ASSUME NEW t \in 0..NumTasks, AskHuman(s, t)
      PROVE  TeamHalf' /\ SessionHalf' /\ ClaimHalf' /\ stepper' \in StepperTypes
  <2>1. {t} \in QuestionTypes /\ task \in TaskTypes
    BY <1>0, AskedType DEF TeamHalf
  <2>2. TeamHalf'
    BY <1>0, <1>8, <2>1, TeamSets DEF AskHuman
  <2> QED
    BY <1>5, <1>8, <2>2, HalvesKept DEF AskHuman, Applying
<1> QED
  BY <1>3, <1>4, <1>6, <1>7, <1>8 DEF PlannerAction

\* Types under the other steps.
LEMMA TypeOthers ==
  ASSUME TeamTypeOK, Others
  PROVE  TeamHalf' /\ SessionHalf' /\ ClaimHalf' /\ stepper' \in StepperTypes
<1>0. TeamHalf /\ SessionHalf /\ ClaimHalf /\ stepper \in StepperTypes
  BY TypeHalves
<1>1. ASSUME NEW w \in Workers, WorkerEnds(w)
      PROVE  TeamHalf' /\ SessionHalf' /\ ClaimHalf' /\ stepper' \in StepperTypes
  <2>1. \E r \in Results \cup {"ended"} : worker' = [worker EXCEPT ![w].at = r]
    BY <1>1 DEF WorkerEnds
  <2>2. worker' \in [Workers -> WorkerType]
    BY <1>0, <2>1 DEF SessionHalf, WorkerType
  <2>3. SessionHalf'
    BY <1>0, <1>1, <2>2 DEF WorkerEnds, SessionHalf
  <2> QED
    BY <1>1, <2>3, HalvesKept DEF WorkerEnds
<1>2. ASSUME NEW p \in Planners, PlannerEnds(p)
      PROVE  TeamHalf' /\ SessionHalf' /\ ClaimHalf' /\ stepper' \in StepperTypes
  <2>1. SessionHalf'
    BY <1>0, <1>2 DEF PlannerEnds, SessionHalf
  <2> QED
    BY <1>2, <2>1, HalvesKept DEF PlannerEnds
<1>3. ASSUME NEW p \in Planners, PlannerCallback(p)
      PROVE  TeamHalf' /\ SessionHalf' /\ ClaimHalf' /\ stepper' \in StepperTypes
  <2>1. \A t \in TeamTasks : /\ task[t] \in TaskType
                             /\ [task[t] EXCEPT !.status = "cancelled"] \in TaskType
    BY <1>0 DEF TeamHalf, TaskTypes, TaskType, TaskStatuses
  <2>2. task' \in TaskTypes
    BY <1>0, <1>3, <2>1 DEF PlannerCallback, TeamHalf, TaskTypes
  <2>3. TeamHalf' /\ SessionHalf'
    BY <1>0, <1>3, <2>2 DEF PlannerCallback, TeamHalf, SessionHalf, teamControl
  <2> QED
    BY <1>3, <2>3, HalvesKept DEF PlannerCallback
<1>4. ASSUME NEW t \in TeamTasks, ReleaseClaims(t)
      PROVE  TeamHalf' /\ SessionHalf' /\ ClaimHalf' /\ stepper' \in StepperTypes
  <2>1. 0 \in 0..NumTasks
    BY TeamAssumption
  <2>2. ClaimHalf'
    BY <1>0, <1>4, <2>1 DEF ReleaseClaims, ClaimHalf
  <2> QED
    BY <1>4, <2>2, HalvesKept DEF ReleaseClaims
<1>5. CASE StartTeam \/ StopTeam \/ StopTeamReturns
  <2>1. TeamHalf'
    BY <1>0, <1>5 DEF StartTeam, StopTeam, StopTeamReturns, TeamHalf, teamTeam
  <2> QED
    BY <1>5, <2>1, HalvesKept DEF StartTeam, StopTeam, StopTeamReturns
<1>6. CASE ControllerCancelled \/ ControllerExits
  <2>1. "controller" \in Steppers /\ "exit" \in StepperStages /\ "idle" \in StepperStages
    BY <1>6 DEF ControllerCancelled, ControllerExits, HasController, StepperStages
  <2>2. stepper' \in StepperTypes
    BY <1>0, <1>6, <2>1, StepperSets DEF ControllerCancelled, ControllerExits, StepperGoto
  <2>3. TeamHalf'
    BY <1>0, <1>6 DEF ControllerCancelled, ControllerExits, TeamHalf, teamTeam, teamControl
  <2> QED
    BY <1>6, <2>2, <2>3, HalvesKept DEF ControllerCancelled, ControllerExits
<1>7. CASE AnswerTeam
  <2>1. \A t \in TeamTasks : /\ task[t] \in TaskType
                             /\ [task[t] EXCEPT !.status = "pending"] \in TaskType
    BY <1>0 DEF TeamHalf, TaskTypes, TaskType, TaskStatuses
  <2>2. task' \in TaskTypes
    BY <1>0, <1>7, <2>1 DEF AnswerTeam, TeamHalf, TaskTypes
  <2>3. {} \in QuestionTypes
    BY FS_EmptySet DEF QuestionTypes
  <2>4. TeamHalf'
    BY <1>0, <1>7, <2>2, <2>3, RecalculatedType DEF AnswerTeam, TeamHalf
  <2> QED
    BY <1>7, <2>4, HalvesKept DEF AnswerTeam
<1>8. ASSUME NEW r \in Readers, QueryLooks(r) \/ QueryWrites(r)
      PROVE  TeamHalf' /\ SessionHalf' /\ ClaimHalf' /\ stepper' \in StepperTypes
  <2>1. \A t \in TeamTasks, st \in {"in-progress", "completed", "errored"} :
          [task[t] EXCEPT !.status = st] \in TaskType
    BY <1>0 DEF TeamHalf, TaskTypes, TaskType, TaskStatuses
  <2>2. NoLook \in LookType /\ looked[r] \in LookType /\ looked \in [Readers -> LookType]
    BY <1>0 DEF TeamHalf, LookType, NoLook
  <2>3. CASE QueryLooks(r)
    <3>1. looked' \in [Readers -> LookType]
      BY <2>2, <2>3 DEF QueryLooks
    <3> QED
      BY <1>0, <2>3, <3>1, HalvesKept DEF QueryLooks, TeamHalf, teamTeam
  <2>4. CASE QueryWrites(r)
    <3>1. \A t \in Rewritten(r) : looked[r][t] \in {"in-progress", "completed", "errored"}
      BY <2>2 DEF Rewritten, LookType
    <3>2. task' \in TaskTypes
      BY <1>0, <2>1, <2>4, <3>1 DEF QueryWrites, TeamHalf, TaskTypes
    <3>3. queried' \subseteq TeamTasks /\ looked' \in [Readers -> LookType]
      BY <1>0, <2>2, <2>4 DEF QueryWrites, Rewritten, TeamHalf
    <3> QED
      BY <1>0, <2>4, <3>2, <3>3, HalvesKept DEF QueryWrites, TeamHalf
  <2> QED
    BY <1>8, <2>3, <2>4
<1> QED
  BY <1>1, <1>2, <1>3, <1>4, <1>5, <1>6, <1>7, <1>8 DEF Others

----------------------------------------------------------------------------
(* Steppers with a task, and the bound on the tasks in progress. *)

\* How a stepper moves and that the others do not.
LEMMA StepperMoves ==
  ASSUME TeamTypeOK, NEW s \in Steppers
  PROVE  /\ Return(s, TRUE) \/ Return(s, FALSE) =>
              /\ stepper'[s].at = "done"
              /\ \A r \in Steppers : r # s => stepper'[r] = stepper[r]
         /\ Looked(s) =>
              /\ stepper'[s].at = stepper[s].at
              /\ stepper'[s].todo = stepper[s].todo \ {FirstOf(s)}
              /\ stepper'[s].task = stepper[s].task
              /\ \A r \in Steppers : r # s => stepper'[r] = stepper[r]
         /\ NextTask(s) =>
              /\ stepper'[s].at = "apply"
              /\ \A r \in Steppers : r # s => stepper'[r] = stepper[r]
         /\ NextAction(s) =>
              /\ stepper'[s].at = stepper[s].at
              /\ \A r \in Steppers : r # s => stepper'[r] = stepper[r]
<1>1. stepper \in StepperTypes /\ stepper[s] \in StepperType
  BY TypeHalves DEF StepperTypes
<1>2. ASSUME NEW e \in BOOLEAN, Return(s, e)
      PROVE  /\ stepper'[s].at = "done"
             /\ \A r \in Steppers : r # s => stepper'[r] = stepper[r]
  <2>1. [IdleStepper EXCEPT !.at = "done", !.failed = e].at = "done"
    BY DEF IdleStepper
  <2> QED
    BY <1>1, <1>2, <2>1 DEF Return, StepperTypes
<1>3. ASSUME Looked(s)
      PROVE  /\ stepper'[s].at = stepper[s].at
             /\ stepper'[s].todo = stepper[s].todo \ {FirstOf(s)}
             /\ stepper'[s].task = stepper[s].task
             /\ \A r \in Steppers : r # s => stepper'[r] = stepper[r]
  BY <1>1, <1>3 DEF Looked, StepperTypes, StepperType
<1>4. ASSUME NextTask(s)
      PROVE  /\ stepper'[s].at = "apply"
             /\ \A r \in Steppers : r # s => stepper'[r] = stepper[r]
  BY <1>1, <1>4 DEF NextTask, StepperTypes, StepperType
<1>5. ASSUME NextAction(s)
      PROVE  /\ stepper'[s].at = stepper[s].at
             /\ \A r \in Steppers : r # s => stepper'[r] = stepper[r]
  BY <1>1, <1>5 DEF NextAction, StepperTypes, StepperType
<1> QED
  BY <1>2, <1>3, <1>4, <1>5

\* Where a step takes its stepper.
LEMMA WhereTo ==
  ASSUME TeamTypeOK, NEW s \in Steppers
  PROVE  /\ TakesIn(s) => /\ stepper[s].at \in {"ingest", "reconcile"}
                          /\ stepper'[s].at = stepper[s].at
                          /\ stepper'[s].todo \subseteq stepper[s].todo
                          /\ \A r \in Steppers : r # s => stepper'[r] = stepper[r]
         /\ Moves(s) => /\ stepper[s].at \notin TaskStages /\ stepper'[s].at \notin TaskStages
                        /\ \A r \in Steppers : r # s => stepper'[r] = stepper[r]
         /\ CarriesOut(s) => /\ stepper[s].at \in TaskStages
                             /\ stepper'[s].at \in {"apply", "launch", "handle", "done"}
                             /\ \A r \in Steppers : r # s => stepper'[r] = stepper[r]
         /\ PlannerAction(s) => /\ stepper[s].at = "apply"
                                /\ stepper'[s].at \in {"apply", "defer", "start", "stopped", "done"}
                                /\ \A r \in Steppers : r # s => stepper'[r] = stepper[r]
         /\ Others => \/ stepper' = stepper
                      \/ /\ "controller" \in Steppers
                         /\ stepper["controller"].at \in {"idle", "exit"}
                         /\ stepper'["controller"].at \in {"idle", "exit"}
                         /\ \A r \in Steppers : r # "controller" => stepper'[r] = stepper[r]
<1>0. stepper \in StepperTypes /\ stepper[s] \in StepperType
  BY TypeHalves DEF StepperTypes
<1>1. ASSUME TakesIn(s)
      PROVE  /\ stepper[s].at \in {"ingest", "reconcile"}
             /\ stepper'[s].at = stepper[s].at
             /\ stepper'[s].todo \subseteq stepper[s].todo
             /\ \A r \in Steppers : r # s => stepper'[r] = stepper[r]
  BY <1>1, StepperMoves DEF TakesIn, IngestRunning, IngestStalled, IngestFailed, IngestResult,
                            Reconcile, StepperAt
<1>2. ASSUME Moves(s)
      PROVE  /\ stepper[s].at \notin TaskStages /\ stepper'[s].at \notin TaskStages
             /\ \A r \in Steppers : r # s => stepper'[r] = stepper[r]
  <2>1. CASE ReconcileFails(s) \/ StepIdles(s) \/ ApplyDone(s) \/ LaunchPlannerFails(s)
             \/ PlannerFails(s)
    BY <2>1, StepperMoves DEF ReconcileFails, StepIdles, ApplyDone, LaunchPlannerFails,
                              PlannerFails, Fail, StepperAt, TaskStages
  <2>2. CASE StepBegin(s) \/ StepReturns(s)
    <3>1. \A a : [IdleStepper EXCEPT !.at = a].at = a
      BY DEF IdleStepper
    <3>2. [IdleStepper EXCEPT !.at = "ingest", !.todo = InHand(task)].at = "ingest"
      BY DEF IdleStepper
    <3>3. CASE StepBegin(s)
      BY <1>0, <3>2, <3>3 DEF StepBegin, StepperAt, StepperTypes, TaskStages
    <3>4. CASE StepReturns(s)
      <4>1. \E a \in {"exit", "idle"} :
              stepper' = [stepper EXCEPT ![s] = [IdleStepper EXCEPT !.at = a]]
        BY <3>4 DEF StepReturns
      <4>2. stepper'[s].at \in {"exit", "idle"}
            /\ \A r \in Steppers : r # s => stepper'[r] = stepper[r]
        BY <1>0, <3>1, <4>1 DEF StepperTypes
      <4> QED
        BY <3>4, <4>2 DEF StepReturns, StepperAt, TaskStages
    <3> QED
      BY <2>2, <3>3, <3>4
  <2>3. CASE IngestDone(s) \/ LaunchPlanner(s) \/ SetLead(s) \/ PlannerAnswered(s)
    BY <1>0, <2>3 DEF IngestDone, LaunchPlanner, SetLead, PlannerAnswered, StepperGoto, StepperAt,
                      StepperTypes, StepperType, TaskStages
  <2> QED
    BY <1>2, <2>1, <2>2, <2>3 DEF Moves
<1>3. ASSUME CarriesOut(s)
      PROVE  /\ stepper[s].at \in TaskStages
             /\ stepper'[s].at \in {"apply", "launch", "handle", "done"}
             /\ \A r \in Steppers : r # s => stepper'[r] = stepper[r]
  <2>1. CASE \/ DeferTask(s) \/ StartRefused(s) \/ LaunchWorkerFails(s) \/ UpdateTaskHandle(s)
             \/ StopMarks(s)
    BY <2>1, StepperMoves DEF DeferTask, StartRefused, LaunchWorkerFails, UpdateTaskHandle,
                              StopMarks, Fail, StepperAt, TaskStages
  <2>2. CASE StartTask(s) \/ LaunchWorker(s)
    BY <1>0, <2>2 DEF StartTask, LaunchWorker, StepperGoto, StepperAt, StepperTypes, StepperType,
                      TaskStages
  <2> QED
    BY <1>3, <2>1, <2>2 DEF CarriesOut
<1>4. ASSUME PlannerAction(s)
      PROVE  /\ stepper[s].at = "apply"
             /\ stepper'[s].at \in {"apply", "defer", "start", "stopped", "done"}
             /\ \A r \in Steppers : r # s => stepper'[r] = stepper[r]
  <2>1. ASSUME NEW t \in TeamTasks, BeginTask(s, t)
        PROVE  /\ stepper[s].at = "apply"
               /\ stepper'[s].at \in {"apply", "defer", "start", "stopped", "done"}
               /\ \A r \in Steppers : r # s => stepper'[r] = stepper[r]
    BY <1>0, <2>1 DEF BeginTask, Applying, StepperAt, StepperTypes, StepperType
  <2>2. ASSUME NEW t \in 0..NumTasks, NEW w, StopWorker(s, t, w)
        PROVE  /\ stepper[s].at = "apply"
               /\ stepper'[s].at \in {"apply", "defer", "start", "stopped", "done"}
               /\ \A r \in Steppers : r # s => stepper'[r] = stepper[r]
    BY <1>0, <2>2 DEF StopWorker, Applying, StepperAt, StepperTypes, StepperType
  <2>3. stepper[s].at = "apply"
    BY <1>4, <2>1, <2>2 DEF PlannerAction, BeginRefused, StopRefused, MarkComplete, MarkBlocked,
                            AskHuman, Applying, StepperAt
  <2>4. \/ \E t \in TeamTasks : BeginTask(s, t)
        \/ \E t \in 0..NumTasks, w \in 0..MaxWorkers : StopWorker(s, t, w)
        \/ NextAction(s) \/ Return(s, TRUE)
    BY <1>4 DEF PlannerAction, BeginRefused, StopRefused, MarkComplete, MarkBlocked, AskHuman, Fail
  <2> QED
    BY <2>1, <2>2, <2>3, <2>4, StepperMoves
<1>5. ASSUME Others, stepper' # stepper
      PROVE  /\ "controller" \in Steppers
             /\ stepper["controller"].at \in {"idle", "exit"}
             /\ stepper'["controller"].at \in {"idle", "exit"}
             /\ \A r \in Steppers : r # "controller" => stepper'[r] = stepper[r]
  <2>1. ControllerCancelled \/ ControllerExits
    BY <1>5 DEF Others, WorkerEnds, PlannerEnds, PlannerCallback, ReleaseClaims, QueryLooks,
                QueryWrites, StartTeam, StopTeam, StopTeamReturns, AnswerTeam
  <2>2. "controller" \in Steppers
    BY <2>1 DEF ControllerCancelled, ControllerExits, HasController
  <2>3. stepper["controller"] \in StepperType
    BY <1>0, <2>2 DEF StepperTypes
  <2> QED
    BY <1>0, <2>1, <2>2, <2>3 DEF ControllerCancelled, ControllerExits, StepperGoto, StepperAt,
                                  StepperTypes, StepperType
<1> QED
  BY <1>1, <1>2, <1>3, <1>4, <1>5

\* The tasks of the stepper are tasks.
LEMMA EngagedStep ==
  ASSUME TeamTypeOK, Engaged, TeamNext
  PROVE  Engaged'
<1>0. stepper \in StepperTypes
  BY TypeHalves
<1>1. ASSUME NEW s \in Steppers, TakesIn(s) \/ Moves(s) PROVE Engaged'
  BY <1>1, WhereTo DEF Engaged, TaskStages
<1>2. ASSUME NEW s \in Steppers, CarriesOut(s) PROVE Engaged'
  <2>1. /\ stepper'[s].at \in {"apply", "launch", "handle", "done"}
        /\ \A r \in Steppers : r # s => stepper'[r] = stepper[r]
    BY <1>2, WhereTo
  <2>2. stepper[s] \in StepperType /\ stepper[s].task \in TeamTasks
    BY <1>0, <1>2, WhereTo DEF StepperTypes, Engaged
  <2>3. CASE \/ DeferTask(s) \/ StartRefused(s) \/ LaunchWorkerFails(s) \/ UpdateTaskHandle(s)
             \/ StopMarks(s)
    <3>1. stepper'[s].at \in {"apply", "done"}
      BY <2>3, StepperMoves DEF DeferTask, StartRefused, LaunchWorkerFails, UpdateTaskHandle,
                                StopMarks, Fail
    <3> QED
      BY <2>1, <3>1 DEF Engaged, TaskStages
  <2>4. CASE StartTask(s)
    <3>1. stepper'[s].at = "launch" /\ stepper'[s].task = stepper[s].task
      BY <1>0, <2>2, <2>4 DEF StartTask, StepperGoto, StepperTypes, StepperType
    <3> QED
      BY <2>1, <2>2, <3>1 DEF Engaged, TaskStages
  <2>5. CASE LaunchWorker(s)
    <3>1. /\ stepper'[s].at = "handle" /\ stepper'[s].task = stepper[s].task
          /\ stepper'[s].worker \in Workers
      BY <1>0, <2>2, <2>5 DEF LaunchWorker, StepperTypes, StepperType
    <3> QED
      BY <2>1, <2>2, <3>1 DEF Engaged, TaskStages
  <2> QED
    BY <1>2, <2>3, <2>4, <2>5 DEF CarriesOut
<1>3. ASSUME NEW s \in Steppers, PlannerAction(s) PROVE Engaged'
  <2>1. /\ stepper'[s].at \in {"apply", "defer", "start", "stopped", "done"}
        /\ \A r \in Steppers : r # s => stepper'[r] = stepper[r]
    BY <1>3, WhereTo
  <2>2. CASE \E t \in TeamTasks : BeginTask(s, t)
    <3>1. stepper'[s].task \in TeamTasks
      BY <1>0, <2>2 DEF BeginTask, StepperTypes, StepperType
    <3> QED
      BY <2>1, <3>1 DEF Engaged, TaskStages
  <2>3. CASE NextAction(s) \/ Return(s, TRUE)
    <3>1. stepper'[s].at \in {"apply", "done"}
      BY <1>3, <2>3, StepperMoves, WhereTo
    <3> QED
      BY <2>1, <3>1 DEF Engaged, TaskStages
  <2>4. CASE \E t \in 0..NumTasks, w \in 0..MaxWorkers : StopWorker(s, t, w)
    <3>1. stepper'[s].at = "stopped" => stepper'[s].task \in 0..NumTasks /\ stepper'[s].task # 0
      BY <1>0, <2>4 DEF StopWorker, StepperTypes, StepperType
    <3>2. stepper'[s].at \in {"apply", "stopped"}
      BY <1>0, <2>4 DEF StopWorker, StepperTypes, StepperType
    <3> QED
      BY <2>1, <3>1, <3>2, TeamAssumption DEF Engaged, TaskStages, TeamTasks
  <2> QED
    BY <1>3, <2>2, <2>3, <2>4 DEF PlannerAction, BeginRefused, StopRefused, MarkComplete,
                                  MarkBlocked, AskHuman, Fail
<1>4. CASE Others
  <2>1. CASE stepper' = stepper
    BY <2>1 DEF Engaged
  <2>2. CASE /\ "controller" \in Steppers
             /\ stepper'["controller"].at \in {"idle", "exit"}
             /\ \A r \in Steppers : r # "controller" => stepper'[r] = stepper[r]
    BY <2>2 DEF Engaged, TaskStages
  <2>3. Steppers = {} => Engaged'
    BY DEF Engaged
  <2>4. ASSUME NEW s \in Steppers
        PROVE  \/ stepper' = stepper
               \/ /\ "controller" \in Steppers
                  /\ stepper'["controller"].at \in {"idle", "exit"}
                  /\ \A r \in Steppers : r # "controller" => stepper'[r] = stepper[r]
    BY <1>4, WhereTo
  <2> QED
    BY <2>1, <2>2, <2>3, <2>4
<1> QED
  BY <1>1, <1>2, <1>3, <1>4, StepCases

\* The tasks in progress that a step put there.
Counted == Active(task) \ queried

\* A step that starts no attempt: attempts stay, and no other task is counted.
TasksSteady ==
  /\ \A t \in TeamTasks : task'[t].attempt = task[t].attempt
  /\ Counted' \subseteq Counted

\* Only the second look of a launch starts an attempt.
LEMMA TasksStay ==
  ASSUME TeamTypeOK, TeamNext, ~\E s \in Steppers : StartTask(s)
  PROVE  TasksSteady
<1>0. task \in TaskTypes
  BY TypeHalves DEF TeamHalf
<1>1. ASSUME task' = task, queried' = queried PROVE TasksSteady
  BY <1>1 DEF TasksSteady, Counted, Active
<1>2. ASSUME NEW t, NEW st, st # "in-progress", task' = [task EXCEPT ![t].status = st],
             queried' = queried \/ Settles(t)
      PROVE  TasksSteady
  <2>1. \A u \in TeamTasks : /\ task'[u].attempt = task[u].attempt
                             /\ u # t => task'[u].status = task[u].status
                             /\ u = t => task'[u].status # "in-progress"
    BY <1>0, <1>2 DEF TaskTypes, TaskType
  <2> QED
    BY <1>2, <2>1 DEF TasksSteady, Counted, Active, Settles
<1>3. \A t : RetryOrFailed(t) # "in-progress"
  BY DEF RetryOrFailed
<1>4. ASSUME NEW s \in Steppers, TakesIn(s) PROVE TasksSteady
  <2>1. CASE IngestRunning(s)
    BY <1>1, <2>1 DEF IngestRunning, teamTeam
  <2>2. CASE IngestStalled(s) \/ IngestFailed(s)
    BY <1>1, <1>2, <1>3, <2>2 DEF IngestStalled, IngestFailed, MarkTaskRetryOrFailed, SetTeam,
                                  teamTeam
  <2>3. CASE IngestResult(s)
    <3> DEFINE t == FirstOf(s)[1]
               w == FirstOf(s)[2]
               r == worker[w].at
               now == [task EXCEPT ![t].worker = w]
    <3>1. task' = Applied(t, w, r) /\ r \in Results \ {"invalid"} /\ Settles(t)
      BY <2>3 DEF IngestResult, ApplyWorkerResult, SetTeam
    <3>2. r \in {"completed", "blocked", "drift", "needs_retry", "failed"}
      <4>1. r \in Results /\ r # "invalid"
        BY <3>1
      <4> QED
        BY <4>1, TeamAssumption
    <3>3. \E st \in {"completed", "blocked", "failed", RetryOrFailed(t)},
             m \in {"pending", "not_merged"} :
             \/ task' = [now EXCEPT ![t].status = st]
             \/ task' = [now EXCEPT ![t].status = st, ![t].merge = m]
      BY <3>1, <3>2 DEF Applied
    <3>4. now \in [TeamTasks -> [status : TaskStatuses, attempt : Nat,
                                 worker : {w} \cup (0..MaxWorkers),
                                 merge : {"pending", "merged", "not_merged"}]]
      BY <1>0 DEF TaskTypes, TaskType
    <3>5. \A u \in TeamTasks : now[u].attempt = task[u].attempt /\ now[u].status = task[u].status
      BY <1>0 DEF TaskTypes, TaskType
    <3> HIDE DEF now, t
    <3>6. PICK st \in {"completed", "blocked", "failed", RetryOrFailed(t)},
               m \in {"pending", "not_merged"} :
             \/ task' = [now EXCEPT ![t].status = st]
             \/ task' = [now EXCEPT ![t].status = st, ![t].merge = m]
      BY <3>3
    <3>7. st # "in-progress"
      BY <1>3, <3>6
    <3>8. \A u \in TeamTasks : /\ task'[u].attempt = task[u].attempt
                               /\ u # t => task'[u].status = task[u].status
                               /\ u = t => task'[u].status # "in-progress"
      <4>1. CASE task' = [now EXCEPT ![t].status = st]
        BY <3>4, <3>5, <3>7, <4>1
      <4>2. CASE task' = [now EXCEPT ![t].status = st, ![t].merge = m]
        BY <3>4, <3>5, <3>7, <4>2
      <4> QED
        BY <3>6, <4>1, <4>2
    <3> QED
      BY <3>1, <3>8 DEF TasksSteady, Counted, Active, Settles
  <2>4. CASE Reconcile(s)
    <3>1. \E t : \/ task' = [task EXCEPT ![t].merge = "merged"]
                 \/ task' = [task EXCEPT ![t].merge = "not_merged", ![t].status = "blocked"]
      BY <2>4 DEF Reconcile, SetTeam
    <3>2. \A u \in TeamTasks : /\ task'[u].attempt = task[u].attempt
                               /\ task'[u].status = "in-progress" => task[u].status = "in-progress"
      BY <1>0, <3>1 DEF TaskTypes, TaskType
    <3> QED
      BY <2>4, <3>2 DEF Reconcile, TasksSteady, Counted, Active
  <2> QED
    BY <1>4, <2>1, <2>2, <2>3, <2>4 DEF TakesIn
<1>5. ASSUME NEW s \in Steppers, Moves(s) PROVE TasksSteady
  BY <1>1, <1>5 DEF Moves, StepBegin, IngestDone, ReconcileFails, StepIdles, LaunchPlanner,
                    LaunchPlannerFails, SetLead, PlannerAnswered, PlannerFails, ApplyDone,
                    StepReturns, Fail, teamTeam
<1>6. ASSUME NEW s \in Steppers, CarriesOut(s) PROVE TasksSteady
  <2>1. CASE StartRefused(s) \/ LaunchWorker(s)
    BY <1>1, <2>1 DEF StartRefused, LaunchWorker, Fail, teamTeam
  <2>2. CASE LaunchWorkerFails(s) \/ StopMarks(s) \/ DeferTask(s)
    BY <1>2, <1>3, <2>2 DEF LaunchWorkerFails, StopMarks, DeferTask, MarkTaskRetryOrFailed, SetTeam
  <2>3. CASE UpdateTaskHandle(s)
    <3>1. \A u \in TeamTasks : /\ task'[u].attempt = task[u].attempt
                               /\ task'[u].status = task[u].status
      BY <1>0, <2>3 DEF UpdateTaskHandle, TaskTypes, TaskType
    <3> QED
      BY <2>3, <3>1 DEF UpdateTaskHandle, TasksSteady, Counted, Active
  <2>4. ~StartTask(s)
    OBVIOUS
  <2> QED
    BY <1>6, <2>1, <2>2, <2>3, <2>4 DEF CarriesOut
<1>7. ASSUME NEW s \in Steppers, PlannerAction(s) PROVE TasksSteady
  <2>1. ASSUME NEW t \in TeamTasks, MarkComplete(s, t) \/ MarkBlocked(s, t) PROVE TasksSteady
    BY <1>2, <2>1 DEF MarkComplete, MarkBlocked, SetTeam
  <2>2. ASSUME NEW t, \/ BeginTask(s, t) \/ BeginRefused(s, t) \/ StopRefused(s, t)
                      \/ AskHuman(s, t) \/ \E w : StopWorker(s, t, w)
        PROVE  TasksSteady
    <3>1. task' = task /\ queried' = queried
      BY <2>2 DEF BeginTask, BeginRefused, StopRefused, StopWorker, AskHuman, Fail, SetTeam, teamTeam
    <3> QED
      BY <1>1, <3>1
  <2> QED
    BY <1>7, <2>1, <2>2 DEF PlannerAction
<1>8. CASE Others
  <2>1. CASE (\E p \in Planners : PlannerCallback(p)) \/ AnswerTeam
    <3>1. \A u \in TeamTasks : /\ task'[u].attempt = task[u].attempt
                               /\ task'[u].status = "in-progress" => task[u].status = "in-progress"
      BY <1>0, <2>1 DEF PlannerCallback, AnswerTeam, TaskTypes, TaskType
    <3> QED
      BY <2>1, <3>1 DEF PlannerCallback, AnswerTeam, TasksSteady, Counted, Active
  <2>2. ASSUME NEW r \in Readers, QueryWrites(r) PROVE TasksSteady
    <3>1. \A u \in TeamTasks : /\ task'[u].attempt = task[u].attempt
                               /\ u \in Rewritten(r) \/ task'[u].status = task[u].status
      BY <1>0, <2>2 DEF QueryWrites, TaskTypes, TaskType
    <3> QED
      BY <2>2, <3>1 DEF QueryWrites, TasksSteady, Counted, Active
  <2>3. CASE \/ \E w \in Workers : WorkerEnds(w)
             \/ \E p \in Planners : PlannerEnds(p)
             \/ \E t \in TeamTasks : ReleaseClaims(t)
             \/ \E r \in Readers : QueryLooks(r)
             \/ StartTeam \/ StopTeam \/ StopTeamReturns \/ ControllerCancelled \/ ControllerExits
    BY <1>1, <2>3 DEF WorkerEnds, PlannerEnds, ReleaseClaims, QueryLooks, StartTeam, StopTeam,
                      StopTeamReturns, ControllerCancelled, ControllerExits, teamTeam
  <2> QED
    BY <1>8, <2>1, <2>2, <2>3 DEF Others
<1> QED
  BY <1>4, <1>5, <1>6, <1>7, <1>8, StepCases

\* There are finitely many tasks in progress, and no fewer than are counted.
LEMMA ActiveFinite ==
  /\ IsFiniteSet(Active(task)) /\ IsFiniteSet(Counted)
  /\ Cardinality(Active(task)) \in Nat /\ Cardinality(Counted) \in Nat
  /\ Cardinality(Counted) <= Cardinality(Active(task))
<1>1. IsFiniteSet(TeamTasks)
  BY TeamAssumption, FS_Interval DEF TeamTasks
<1>2. IsFiniteSet(Active(task))
  BY <1>1, FS_Subset DEF Active
<1>3. IsFiniteSet(Counted) /\ Cardinality(Counted) <= Cardinality(Active(task))
  BY <1>2, FS_Subset DEF Counted
<1> QED
  BY <1>2, <1>3, FS_CardinalityType

\* The bound is kept: the second look counts the tasks in progress again.
LEMMA BoundStep ==
  ASSUME TeamTypeOK, ConcurrencyBound, TeamNext
  PROVE  ConcurrencyBound'
<1>0. Cardinality(Counted) \in Nat /\ Cardinality(Counted) <= MaxConcurrency /\ MaxConcurrency \in Nat
  BY ActiveFinite, TeamAssumption DEF ConcurrencyBound, Counted
<1>1. CASE TasksSteady
  <2>1. Cardinality(Counted') <= Cardinality(Counted) /\ Cardinality(Counted') \in Nat
    BY <1>1, ActiveFinite, FS_Subset, FS_CardinalityType DEF TasksSteady
  <2> QED
    BY <1>0, <2>1 DEF ConcurrencyBound, Counted
<1>2. CASE \E s \in Steppers : StartTask(s)
  <2>1. PICK s \in Steppers : StartTask(s)
    BY <1>2
  <2> DEFINE t == stepper[s].task
  <2>2. Counted' \subseteq Counted \cup {t}
    <3>1. task \in [TeamTasks -> TaskType]
      BY DEF TeamTypeOK
    <3>2. \A u \in TeamTasks : u # t => task'[u] = task[u]
      BY <2>1, <3>1 DEF StartTask
    <3> QED
      BY <2>1, <3>2 DEF StartTask, Settles, Counted, Active
  <2>3. /\ IsFiniteSet(Counted \cup {t})
        /\ Cardinality(Counted \cup {t}) <= Cardinality(Counted) + 1
    <3>1. IsFiniteSet(Counted) /\ Cardinality(Counted) \in Nat
      BY ActiveFinite
    <3>2. /\ IsFiniteSet(Counted \cup {t})
          /\ \/ Cardinality(Counted \cup {t}) = Cardinality(Counted)
             \/ Cardinality(Counted \cup {t}) = Cardinality(Counted) + 1
      BY <3>1, FS_AddElement, Zenon
    <3> QED
      BY <3>1, <3>2
  <2>4. /\ Cardinality(Counted') <= Cardinality(Counted \cup {t})
        /\ Cardinality(Counted') \in Nat /\ Cardinality(Counted \cup {t}) \in Nat
    BY <2>2, <2>3, FS_Subset, FS_CardinalityType
  <2>5. Cardinality(Counted) < MaxConcurrency
    <3>1. Cardinality(Active(task)) < MaxConcurrency
      BY <2>1 DEF StartTask, MayLaunch, SlotFree
    <3> QED
      BY <1>0, <3>1, ActiveFinite
  <2> QED
    BY <1>0, <2>3, <2>4, <2>5 DEF ConcurrencyBound, Counted
<1> QED
  BY <1>1, <1>2, TasksStay

\* The inductive invariant for any steppers.
TeamIInv == TeamTypeOK /\ Engaged /\ ConcurrencyBound

\* The first state.
LEMMA TeamInitially == TeamInit => TeamIInv
<1> SUFFICES ASSUME TeamInit PROVE TeamIInv
  OBVIOUS
<1>1. TeamHalf
  <2>1. 0 \in 0..MaxWorkers /\ 0 \in 0..MaxPlanners
    BY TeamAssumption
  <2>2. task \in TaskTypes
    BY <2>1 DEF TeamInit, TaskTypes, TaskType, TaskStatuses
  <2>3. {} \in QuestionTypes
    BY FS_EmptySet DEF QuestionTypes
  <2>4. NoLook \in LookType
    BY DEF NoLook, LookType
  <2> QED
    BY <2>1, <2>2, <2>3, <2>4 DEF TeamInit, TeamHalf, RunStates
<1>2. SessionHalf /\ ClaimHalf
  BY TeamAssumption DEF TeamInit, SessionHalf, ClaimHalf, WorkerType
<1>3. stepper \in StepperTypes
  <2>1. IdleStepper \in StepperType
    BY TeamAssumption DEF StepperType, IdleStepper, StepperStages
  <2> QED
    BY <2>1 DEF TeamInit, StepperTypes
<1>4. Engaged
  BY DEF TeamInit, Engaged, TaskStages, IdleStepper
<1>5. ConcurrencyBound
  <2>1. Active(task) \ queried = {}
    BY DEF TeamInit, Active
  <2> QED
    BY <2>1, FS_EmptySet, TeamAssumption DEF ConcurrencyBound
<1> QED
  BY <1>1, <1>2, <1>3, <1>4, <1>5, TypeHalves DEF TeamIInv

\* The invariant is inductive.
LEMMA TeamStep == TeamIInv /\ [TeamNext]_teamVars => TeamIInv'
<1> SUFFICES ASSUME TeamIInv, [TeamNext]_teamVars PROVE TeamIInv'
  OBVIOUS
<1>0. TeamTypeOK /\ Engaged /\ ConcurrencyBound
  BY DEF TeamIInv
<1>1. CASE TeamNext
  <2>1. TeamHalf' /\ SessionHalf' /\ ClaimHalf' /\ stepper' \in StepperTypes
    BY <1>0, <1>1, StepCases, TypeIngest, TypeMoves, TypeActions, TypePlanner, TypeOthers
  <2>2. TeamTypeOK'
    BY <2>1 DEF TeamTypeOK, TeamHalf, SessionHalf, ClaimHalf, StepperTypes, TaskTypes,
                QuestionTypes, RunStates
  <2> QED
    BY <1>0, <1>1, <2>2, EngagedStep, BoundStep DEF TeamIInv
<1>2. CASE UNCHANGED teamVars
  <2>1. TeamTypeOK'
    BY <1>0, <1>2 DEF TeamTypeOK, teamVars, teamTeam, teamControl, teamSessions
  <2>2. Engaged' /\ ConcurrencyBound'
    BY <1>0, <1>2 DEF Engaged, ConcurrencyBound, Active, teamVars, teamTeam
  <2> QED
    BY <2>1, <2>2 DEF TeamIInv
<1> QED
  BY <1>1, <1>2

\* The inductive invariant holds in every state.
THEOREM TeamInvariant == TeamSpec => []TeamIInv
BY TeamInitially, TeamStep, PTL DEF TeamSpec

\* The variables keep their types whatever planners answer, workers leave and
\* steppers overlap.
THEOREM TeamTypeCorrect == TeamSpec => []TeamTypeOK
<1>1. TeamIInv => TeamTypeOK
  BY DEF TeamIInv
<1> QED
  BY <1>1, TeamInvariant, PTL

\* Of the tasks in progress no more than team.MaxConcurrency are there by a step,
\* even when steps of the controller and of team_step overlap and status queries
\* write what they read before: the slots are counted again under the lock that
\* starts the attempt (team_runtime.go:1028-1043), and nothing but a query
\* (manager_team.go:336) puts a task in progress otherwise.
THEOREM ConcurrencyIsBounded == TeamSpec => []ConcurrencyBound
<1>1. TeamIInv => ConcurrencyBound
  BY DEF TeamIInv
<1> QED
  BY <1>1, TeamInvariant, PTL

----------------------------------------------------------------------------
(* One stepper. *)

\* The controller alone, or team_step alone, moves the team.
OneStepper == \A r, s \in Steppers : r = s

\* Worker session w was launched for the current attempt of task t.
Of(w, t) ==
  /\ w \in Workers
  /\ worker[w].at # "unborn" /\ worker[w].task = t /\ worker[w].attempt = task[t].attempt

\* The handle of a task is the session of its current attempt.
HandlesCurrent == \A t \in TeamTasks : task[t].worker # 0 => Of(task[t].worker, t)

\* What the stepper holds is still so.
InStep(s) ==
  /\ stepper[s].at = "ingest" => \A e \in stepper[s].todo : Of(e[2], e[1])
  /\ stepper[s].at = "reconcile" =>
       \A e \in stepper[s].todo : e[1] \notin Counted
  /\ stepper[s].at = "defer" => stepper[s].task \notin Counted
  /\ stepper[s].at = "handle" => Of(stepper[s].worker, stepper[s].task)

\* What one stepper adds to the invariant.
Sole == HandlesCurrent /\ (\A s \in Steppers : InStep(s)) /\ ClaimsHaveAReason

\* A worker that was launched stays what it was launched for.
LEMMA WorkersStay ==
  ASSUME TeamTypeOK, TeamNext, NEW w \in Workers, worker[w].at # "unborn"
  PROVE  /\ worker'[w].at # "unborn"
         /\ worker'[w].task = worker[w].task /\ worker'[w].attempt = worker[w].attempt
<1>0. worker \in [Workers -> WorkerType] /\ "unborn" \notin Results
  BY TeamAssumption DEF TeamTypeOK
<1> DEFINE Stays == /\ worker'[w].at # "unborn"
                    /\ worker'[w].task = worker[w].task /\ worker'[w].attempt = worker[w].attempt
<1>1. CASE worker' = worker
  BY <1>1
<1>2. ASSUME NEW v, NEW r \in Results \cup {"ended"}, worker' = [worker EXCEPT ![v].at = r]
      PROVE  Stays
  BY <1>0, <1>2 DEF WorkerType
<1>3. ASSUME NEW v, \/ worker' = [worker EXCEPT ![v].at = "ended"]
                    \/ worker' = [u \in Workers |-> IF u = v THEN [worker[u] EXCEPT !.at = "ended"]
                                                   ELSE worker[u]]
      PROVE  Stays
  BY <1>0, <1>3 DEF WorkerType
<1>4. ASSUME NEW s \in Steppers, TakesIn(s) PROVE Stays
  <2>1. worker' = worker \/ \E v : worker' = [worker EXCEPT ![v].at = "ended"]
    BY <1>4 DEF TakesIn, IngestRunning, IngestStalled, IngestFailed, IngestResult, Reconcile,
                teamSessions
  <2> QED
    BY <1>1, <1>3, <2>1
<1>5. ASSUME NEW s \in Steppers, Moves(s) PROVE worker' = worker
  BY <1>5 DEF Moves, StepBegin, IngestDone, ReconcileFails, StepIdles, LaunchPlanner,
              LaunchPlannerFails, SetLead, PlannerAnswered, PlannerFails, ApplyDone, StepReturns,
              teamSessions
<1>6. ASSUME NEW s \in Steppers, CarriesOut(s) PROVE Stays
  <2>1. CASE LaunchWorker(s)
    BY <1>0, <2>1 DEF LaunchWorker, WorkerType
  <2>2. CASE ~LaunchWorker(s)
    BY <1>1, <1>6, <2>2 DEF CarriesOut, DeferTask, StartTask, StartRefused, LaunchWorkerFails,
                            UpdateTaskHandle, StopMarks, teamSessions
  <2> QED
    BY <2>1, <2>2
<1>7. ASSUME NEW s \in Steppers, PlannerAction(s) PROVE Stays
  <2>1. ASSUME NEW u, NEW w0, StopWorker(s, u, w0)
        PROVE  worker' = [v \in Workers |-> IF v = w0 THEN [worker[v] EXCEPT !.at = "ended"]
                                            ELSE worker[v]]
    BY <2>1 DEF StopWorker
  <2>2. ASSUME NEW u, \/ BeginTask(s, u) \/ BeginRefused(s, u) \/ StopRefused(s, u)
                      \/ MarkComplete(s, u) \/ MarkBlocked(s, u) \/ AskHuman(s, u)
        PROVE  worker' = worker
    BY <2>2 DEF BeginTask, BeginRefused, StopRefused, MarkComplete, MarkBlocked, AskHuman,
                teamSessions
  <2> QED
    BY <1>1, <1>3, <1>7, <2>1, <2>2 DEF PlannerAction
<1>8. CASE Others
  <2>1. CASE \E v \in Workers : WorkerEnds(v)
    BY <1>2, <2>1 DEF WorkerEnds
  <2>2. CASE ~\E v \in Workers : WorkerEnds(v)
    BY <1>1, <1>8, <2>2 DEF Others, PlannerEnds, PlannerCallback, ReleaseClaims, QueryLooks,
                            QueryWrites, StartTeam, StopTeam, StopTeamReturns,
                            ControllerCancelled, ControllerExits, AnswerTeam, teamSessions
  <2> QED
    BY <2>1, <2>2
<1> QED
  BY <1>1, <1>4, <1>5, <1>6, <1>7, <1>8, StepCases

\* So it stays the current one while no attempt begins.
LEMMA OfStays ==
  ASSUME TeamTypeOK, TeamNext, TasksSteady, NEW w, NEW t \in TeamTasks, Of(w, t)
  PROVE  Of(w, t)'
BY WorkersStay DEF Of, TasksSteady

\* Where a task's handle comes from.
LEMMA HandleSource ==
  ASSUME TeamTypeOK, TeamNext, ~\E s \in Steppers : StartTask(s), NEW t \in TeamTasks
  PROVE  \/ task'[t].worker = task[t].worker
         \/ \E s \in Steppers : /\ IngestResult(s)
                                /\ t = FirstOf(s)[1] /\ task'[t].worker = FirstOf(s)[2]
         \/ \E s \in Steppers : /\ UpdateTaskHandle(s)
                                /\ t = stepper[s].task /\ task'[t].worker = stepper[s].worker
<1>0. task \in TaskTypes
  BY TypeHalves DEF TeamHalf
<1> DEFINE Kept == task'[t].worker = task[t].worker
<1>1. ASSUME task' = task PROVE Kept
  BY <1>1
<1>2. ASSUME NEW u, NEW st, task' = [task EXCEPT ![u].status = st] PROVE Kept
  BY <1>0, <1>2 DEF TaskTypes, TaskType
<1>3. ASSUME NEW s \in Steppers, TakesIn(s), ~IngestResult(s) PROVE Kept
  <2>1. CASE Reconcile(s)
    <3>1. \E u : \/ task' = [task EXCEPT ![u].merge = "merged"]
                 \/ task' = [task EXCEPT ![u].merge = "not_merged", ![u].status = "blocked"]
      BY <2>1 DEF Reconcile, SetTeam
    <3> QED
      BY <1>0, <3>1 DEF TaskTypes, TaskType
  <2>2. CASE IngestRunning(s)
    BY <1>1, <2>2 DEF IngestRunning, teamTeam
  <2>3. CASE IngestStalled(s) \/ IngestFailed(s)
    <3>1. task' = task \/ \E u, st : task' = [task EXCEPT ![u].status = st]
      BY <2>3 DEF IngestStalled, IngestFailed, MarkTaskRetryOrFailed, SetTeam, teamTeam
    <3> QED
      BY <1>1, <1>2, <3>1
  <2> QED
    BY <1>3, <2>1, <2>2, <2>3 DEF TakesIn
<1>4. ASSUME NEW s \in Steppers, IngestResult(s), t # FirstOf(s)[1] PROVE Kept
  <2> DEFINE u == FirstOf(s)[1]
             w == FirstOf(s)[2]
             r == worker[w].at
             now == [task EXCEPT ![u].worker = w]
  <2>1. task' = Applied(u, w, r) /\ r \in Results \ {"invalid"}
    BY <1>4 DEF IngestResult, ApplyWorkerResult, SetTeam
  <2>2. r \in {"completed", "blocked", "drift", "needs_retry", "failed"}
    BY <2>1, TeamAssumption
  <2>3. \E st, m : \/ task' = [now EXCEPT ![u].status = st]
                   \/ task' = [now EXCEPT ![u].status = st, ![u].merge = m]
    BY <2>1, <2>2 DEF Applied
  <2>4. now[t] = task[t] /\ t \in DOMAIN now
    BY <1>0, <1>4 DEF TaskTypes
  <2>5. t # u
    BY <1>4
  <2> HIDE DEF now, u
  <2>6. task'[t] = now[t]
    BY <2>3, <2>4, <2>5
  <2> QED
    BY <2>4, <2>6
<1>5. ASSUME NEW s \in Steppers, IngestResult(s), t = FirstOf(s)[1]
      PROVE  task'[t].worker = FirstOf(s)[2]
  <2> DEFINE w == FirstOf(s)[2]
             r == worker[w].at
             now == [task EXCEPT ![t].worker = w]
  <2>1. task' = Applied(t, w, r) /\ r \in Results \ {"invalid"}
    BY <1>5 DEF IngestResult, ApplyWorkerResult, SetTeam
  <2>2. r \in {"completed", "blocked", "drift", "needs_retry", "failed"}
    BY <2>1, TeamAssumption
  <2>3. \E st, m : \/ task' = [now EXCEPT ![t].status = st]
                   \/ task' = [now EXCEPT ![t].status = st, ![t].merge = m]
    BY <2>1, <2>2 DEF Applied
  <2>4. now[t].worker = w /\ t \in DOMAIN now
        /\ DOMAIN now[t] = {"status", "attempt", "worker", "merge"}
    BY <1>0 DEF TaskTypes, TaskType
  <2> HIDE DEF now, w
  <2>5. task'[t].worker = now[t].worker
    BY <2>3, <2>4
  <2> QED
    BY <2>4, <2>5 DEF w
<1>6. ASSUME NEW s \in Steppers, Moves(s) PROVE Kept
  BY <1>1, <1>6 DEF Moves, StepBegin, IngestDone, ReconcileFails, StepIdles, LaunchPlanner,
                    LaunchPlannerFails, SetLead, PlannerAnswered, PlannerFails, ApplyDone,
                    StepReturns, Fail, teamTeam
<1>7. ASSUME NEW s \in Steppers, CarriesOut(s), ~UpdateTaskHandle(s) PROVE Kept
  <2>1. CASE StartRefused(s) \/ LaunchWorker(s)
    BY <1>1, <2>1 DEF StartRefused, LaunchWorker, Fail, teamTeam
  <2>2. CASE LaunchWorkerFails(s) \/ DeferTask(s) \/ StopMarks(s)
    <3>1. \E u, st : task' = [task EXCEPT ![u].status = st]
      BY <2>2 DEF LaunchWorkerFails, DeferTask, StopMarks, MarkTaskRetryOrFailed, SetTeam
    <3> QED
      BY <1>2, <3>1
  <2>3. ~StartTask(s)
    OBVIOUS
  <2> QED
    BY <1>7, <2>1, <2>2, <2>3 DEF CarriesOut
<1>8. ASSUME NEW s \in Steppers, UpdateTaskHandle(s)
      PROVE  Kept \/ (t = stepper[s].task /\ task'[t].worker = stepper[s].worker)
  BY <1>0, <1>8 DEF UpdateTaskHandle, TaskTypes, TaskType
<1>9. ASSUME NEW s \in Steppers, PlannerAction(s) PROVE Kept
  <2>1. ASSUME NEW u, \/ BeginTask(s, u) \/ BeginRefused(s, u) \/ StopRefused(s, u)
                      \/ AskHuman(s, u) \/ \E w : StopWorker(s, u, w)
        PROVE  task' = task
    BY <2>1 DEF BeginTask, BeginRefused, StopRefused, StopWorker, AskHuman, Fail, SetTeam, teamTeam
  <2>2. ASSUME NEW u, MarkComplete(s, u) \/ MarkBlocked(s, u)
        PROVE  \E st : task' = [task EXCEPT ![u].status = st]
    BY <2>2 DEF MarkComplete, MarkBlocked, SetTeam
  <2> QED
    BY <1>1, <1>2, <1>9, <2>1, <2>2 DEF PlannerAction
<1>10. CASE Others
  <2>1. CASE \/ \E p \in Planners : PlannerCallback(p)
             \/ \E r \in Readers : QueryWrites(r)
             \/ AnswerTeam
    BY <1>0, <2>1 DEF PlannerCallback, QueryWrites, AnswerTeam, TaskTypes, TaskType
  <2>2. CASE \/ \E w \in Workers : WorkerEnds(w)
             \/ \E p \in Planners : PlannerEnds(p)
             \/ \E u \in TeamTasks : ReleaseClaims(u)
             \/ \E r \in Readers : QueryLooks(r)
             \/ StartTeam \/ StopTeam \/ StopTeamReturns \/ ControllerCancelled \/ ControllerExits
    BY <1>1, <2>2 DEF WorkerEnds, PlannerEnds, ReleaseClaims, QueryLooks, StartTeam, StopTeam,
                      StopTeamReturns, ControllerCancelled, ControllerExits, teamTeam
  <2> QED
    BY <1>10, <2>1, <2>2 DEF Others
<1> QED
  BY <1>3, <1>4, <1>5, <1>6, <1>7, <1>8, <1>9, <1>10, StepCases

\* The handles stay current.
LEMMA HandlesStep ==
  ASSUME TeamTypeOK, Engaged, Sole, TeamNext
  PROVE  HandlesCurrent'
<1> SUFFICES ASSUME NEW t \in TeamTasks, task'[t].worker # 0
             PROVE  Of(task[t].worker, t)'
  BY DEF HandlesCurrent
<1>1. CASE \E s \in Steppers : StartTask(s)
  <2>1. PICK s \in Steppers : StartTask(s)
    BY <1>1
  <2>2. t # stepper[s].task /\ task'[t] = task[t] /\ worker' = worker
    BY <2>1 DEF StartTask, teamSessions, TeamTypeOK
  <2>3. Of(task[t].worker, t)
    BY <2>2 DEF Sole, HandlesCurrent
  <2> QED
    BY <2>2, <2>3 DEF Of
<1>2. CASE ~\E s \in Steppers : StartTask(s)
  <2>0. TasksSteady
    BY <1>2, TasksStay
  <2>1. CASE task'[t].worker = task[t].worker
    <3>1. Of(task[t].worker, t)
      BY <2>1 DEF Sole, HandlesCurrent
    <3> QED
      BY <2>0, <2>1, <3>1, WorkersStay DEF Of, TasksSteady
  <2>2. ASSUME NEW s \in Steppers, IngestResult(s),
               t = FirstOf(s)[1], task'[t].worker = FirstOf(s)[2]
        PROVE  Of(task[t].worker, t)'
    <3>1. FirstOf(s) \in stepper[s].todo
      BY <2>2, TodoTypes DEF IngestResult
    <3>2. Of(FirstOf(s)[2], t)
      BY <2>2, <3>1 DEF Sole, InStep, IngestResult, StepperAt
    <3> QED
      BY <2>0, <2>2, <3>2, WorkersStay DEF Of, TasksSteady
  <2>3. ASSUME NEW s \in Steppers, UpdateTaskHandle(s),
               t = stepper[s].task, task'[t].worker = stepper[s].worker
        PROVE  Of(task[t].worker, t)'
    <3>1. Of(stepper[s].worker, t)
      BY <2>3 DEF Sole, InStep, UpdateTaskHandle, StepperAt
    <3> QED
      BY <2>0, <2>3, <3>1, WorkersStay DEF Of, TasksSteady
  <2> QED
    BY <1>2, <2>1, <2>2, <2>3, HandleSource
<1> QED
  BY <1>1, <1>2

\* A stepper that stays where it is holds what is still so.
LEMMA InStepStays ==
  ASSUME TeamTypeOK, Engaged, TeamNext, TasksSteady, NEW s \in Steppers, InStep(s),
         stepper'[s].at = stepper[s].at, stepper'[s].todo \subseteq stepper[s].todo,
         stepper[s].at \in {"defer", "handle"} => stepper'[s] = stepper[s]
  PROVE  InStep(s)'
<1>0. stepper[s].todo \subseteq TeamTasks \X (0..MaxWorkers)
  BY TodoTypes
<1>1. ASSUME stepper'[s].at = "ingest", NEW e \in stepper'[s].todo PROVE Of(e[2], e[1])'
  <2>1. Of(e[2], e[1]) /\ e[1] \in TeamTasks
    BY <1>0, <1>1 DEF InStep
  <2> QED
    BY <2>1, OfStays
<1>2. ASSUME stepper'[s].at = "reconcile", NEW e \in stepper'[s].todo
      PROVE  e[1] \notin Counted'
  BY <1>0, <1>2 DEF InStep, TasksSteady
<1>3. ASSUME stepper'[s].at = "defer" PROVE stepper'[s].task \notin Counted'
  BY <1>3 DEF InStep, TasksSteady
<1>4. ASSUME stepper'[s].at = "handle" PROVE Of(stepper[s].worker, stepper[s].task)'
  <2>1. Of(stepper[s].worker, stepper[s].task) /\ stepper[s].task \in TeamTasks
    BY <1>4 DEF InStep, Engaged, TaskStages
  <2>2. stepper'[s] = stepper[s]
    BY <1>4
  <2> QED
    BY <2>1, <2>2, WorkersStay DEF Of, TasksSteady
<1> QED
  BY <1>1, <1>2, <1>3, <1>4 DEF InStep

\* What the only stepper holds is still so after a step.
LEMMA InStepStep ==
  ASSUME OneStepper, TeamTypeOK, Engaged, Sole, TeamNext, NEW s \in Steppers
  PROVE  InStep(s)'
<1>0. /\ \A r \in Steppers : r = s
      /\ stepper \in StepperTypes /\ stepper[s] \in StepperType /\ task \in TaskTypes
  BY TypeHalves DEF OneStepper, StepperTypes, TeamHalf
<1>1. ASSUME stepper'[s].at \notin {"ingest", "reconcile", "defer", "handle"} PROVE InStep(s)'
  BY <1>1 DEF InStep
<1>2. CASE StartTask(s)
  <2>1. stepper'[s].at = "launch"
    BY <1>0, <1>2 DEF StartTask, StepperGoto, StepperTypes, StepperType
  <2> QED
    BY <1>1, <2>1
<1>3. CASE ~StartTask(s)
  <2>0. TasksSteady
    BY <1>0, <1>3, TasksStay
  <2>1. CASE TakesIn(s)
    <3>1. /\ stepper[s].at \in {"ingest", "reconcile"}
          /\ stepper'[s].at = stepper[s].at
          /\ stepper'[s].todo \subseteq stepper[s].todo
      BY <2>1, WhereTo
    <3> QED
      BY <2>0, <3>1, InStepStays DEF Sole
  <2>2. CASE Moves(s)
    <3>1. CASE StepBegin(s)
      <4>1. stepper'[s].at = "ingest" /\ stepper'[s].todo = InHand(task)
        BY <1>0, <3>1 DEF StepBegin, StepperTypes, IdleStepper
      <4>2. ASSUME NEW e \in InHand(task) PROVE Of(e[2], e[1])'
        <5>1. PICK t \in TeamTasks : task[t].worker # 0 /\ e = <<t, task[t].worker>>
          BY <4>2 DEF InHand, Active
        <5>2. Of(e[2], e[1]) /\ e[1] \in TeamTasks
          BY <5>1 DEF Sole, HandlesCurrent
        <5> QED
          BY <2>0, <5>2, OfStays
      <4> QED
        BY <4>1, <4>2 DEF InStep
    <3>2. CASE IngestDone(s)
      <4>1. stepper'[s].at = "reconcile" /\ stepper'[s].todo = Unmerged(task) /\ task' = task
        BY <1>0, <3>2 DEF IngestDone, StepperTypes, StepperType, teamTeam
      <4>2. ASSUME NEW e \in Unmerged(task) PROVE e[1] \notin Counted'
        BY <4>1, <4>2 DEF Unmerged, Counted, Active
      <4> QED
        BY <4>1, <4>2 DEF InStep
    <3>3. CASE ReconcileFails(s) \/ StepIdles(s) \/ ApplyDone(s) \/ LaunchPlannerFails(s)
               \/ PlannerFails(s)
      <4>1. stepper'[s].at = "done"
        BY <3>3, StepperMoves DEF ReconcileFails, StepIdles, ApplyDone, LaunchPlannerFails,
                                  PlannerFails, Fail
      <4> QED
        BY <1>1, <4>1
    <3>4. CASE LaunchPlanner(s) \/ SetLead(s) \/ PlannerAnswered(s)
      <4>1. stepper'[s].at \in {"launched", "planning", "apply"}
        BY <1>0, <3>4 DEF LaunchPlanner, SetLead, PlannerAnswered, StepperGoto, StepperTypes,
                          StepperType
      <4> QED
        BY <1>1, <4>1
    <3>5. CASE StepReturns(s)
      <4>1. \E a \in {"exit", "idle"} :
              stepper' = [stepper EXCEPT ![s] = [IdleStepper EXCEPT !.at = a]]
        BY <3>5 DEF StepReturns
      <4>2. \A a : [IdleStepper EXCEPT !.at = a].at = a
        BY DEF IdleStepper
      <4>3. stepper'[s].at \in {"exit", "idle"}
        BY <1>0, <4>1, <4>2 DEF StepperTypes
      <4> QED
        BY <1>1, <4>3
    <3> QED
      BY <2>2, <3>1, <3>2, <3>3, <3>4, <3>5 DEF Moves
  <2>3. CASE CarriesOut(s)
    <3>1. CASE LaunchWorker(s)
      <4> DEFINE t == stepper[s].task
      <4>1. PICK w \in Workers :
              /\ worker' = [worker EXCEPT ![w] = [task |-> t, at |-> "running",
                                                  attempt |-> task[t].attempt]]
              /\ stepper' = [stepper EXCEPT ![s].at = "handle", ![s].worker = w]
              /\ task' = task
        BY <3>1 DEF LaunchWorker, teamTeam
      <4>2. stepper'[s].at = "handle" /\ stepper'[s].worker = w /\ stepper'[s].task = t
        BY <1>0, <4>1 DEF StepperTypes, StepperType
      <4>3. worker'[w] = [task |-> t, at |-> "running", attempt |-> task[t].attempt]
        BY <4>1 DEF TeamTypeOK
      <4> QED
        BY <4>1, <4>2, <4>3 DEF InStep, Of
    <3>2. CASE \/ DeferTask(s) \/ StartRefused(s) \/ LaunchWorkerFails(s) \/ UpdateTaskHandle(s)
               \/ StopMarks(s)
      <4>1. stepper'[s].at \in {"apply", "done"}
        BY <3>2, StepperMoves DEF DeferTask, StartRefused, LaunchWorkerFails, UpdateTaskHandle,
                                  StopMarks, Fail
      <4> QED
        BY <1>1, <4>1
    <3> QED
      BY <1>3, <2>3, <3>1, <3>2 DEF CarriesOut
  <2>4. CASE PlannerAction(s)
    <3>1. ASSUME NEW t \in TeamTasks, BeginTask(s, t) PROVE InStep(s)'
      <4>1. t \notin Counted'
        BY <3>1 DEF BeginTask, CanBegin, teamTeam, Counted, Active
      <4>2. stepper'[s].at \in {"defer", "start"} /\ stepper'[s].task = t
        BY <1>0, <3>1 DEF BeginTask, StepperTypes, StepperType
      <4> QED
        BY <4>1, <4>2 DEF InStep
    <3>2. CASE NextAction(s) \/ Return(s, TRUE)
      <4>1. stepper'[s].at \in {"apply", "done"}
        BY <2>4, <3>2, StepperMoves, WhereTo
      <4> QED
        BY <1>1, <4>1
    <3>3. CASE \E t \in 0..NumTasks, w \in 0..MaxWorkers : StopWorker(s, t, w)
      <4>1. stepper'[s].at \in {"apply", "stopped"}
        BY <1>0, <3>3 DEF StopWorker, StepperTypes, StepperType
      <4> QED
        BY <1>1, <4>1
    <3> QED
      BY <2>4, <3>1, <3>2, <3>3 DEF PlannerAction, BeginRefused, StopRefused, MarkComplete,
                                    MarkBlocked, AskHuman, Fail
  <2>5. CASE Others
    <3>1. CASE stepper' = stepper
      BY <2>0, <3>1, InStepStays DEF Sole
    <3>2. CASE "controller" \in Steppers /\ stepper'["controller"].at \in {"idle", "exit"}
      <4>1. stepper'[s].at \in {"idle", "exit"}
        BY <1>0, <3>2
      <4> QED
        BY <1>1, <4>1
    <3> QED
      BY <2>5, <3>1, <3>2, WhereTo
  <2> QED
    BY <1>0, <2>1, <2>2, <2>3, <2>4, <2>5, StepCases
<1> QED
  BY <1>2, <1>3

\* The tasks that a claim may stand for when no launch is under way.
Answered == Active(task) \cup releases \cup queried

\* A step that ends work on a task leaves a release of its paths under way, or is
\* a query.
Accounts == Answered \subseteq Answered'

\* Such a step, when it leaves the claims, gives each of them its reason.
LEMMA ClaimsAccounted ==
  ASSUME ClaimsHaveAReason, claim' = claim, Accounts,
         \A s \in Steppers : stepper[s].at = "start" =>
           \/ stepper[s].task \in Answered'
           \/ stepper'[s].at = "start" /\ stepper'[s].task = stepper[s].task
  PROVE  ClaimsHaveAReason'
<1> SUFFICES ASSUME NEW p \in Paths, claim[p] # 0
             PROVE  \/ claim[p] \in Answered'
                    \/ \E s \in Steppers : stepper'[s].at = "start" /\ stepper'[s].task = claim[p]
  BY DEF ClaimsHaveAReason, StepperAt, Answered
<1>1. \/ claim[p] \in Answered
      \/ \E s \in Steppers : stepper[s].at = "start" /\ stepper[s].task = claim[p]
  BY DEF ClaimsHaveAReason, StepperAt, Answered
<1> QED
  BY <1>1 DEF Accounts

\* A task that is given up is released.
LEMMA RetryAccounts ==
  ASSUME TeamTypeOK, NEW t, NEW st, Release(t), queried' = queried \/ Settles(t),
         task' = [task EXCEPT ![t].status = st]
  PROVE  Accounts
<1>1. \A u \in TeamTasks : u # t => task'[u] = task[u]
  BY DEF TeamTypeOK
<1> QED
  BY <1>1 DEF Accounts, Answered, Active, Release, Settles

\* Every claim keeps a reason.
LEMMA ClaimsStep ==
  ASSUME OneStepper, TeamTypeOK, Engaged, Sole, TeamNext
  PROVE  ClaimsHaveAReason'
<1>0. /\ task \in TaskTypes /\ stepper \in StepperTypes /\ claim \in [Paths -> 0..NumTasks]
      /\ ClaimsHaveAReason
  BY TypeHalves DEF TeamHalf, ClaimHalf, Sole
<1>1. ASSUME task' = task, releases' = releases, queried' = queried PROVE Accounts
  BY <1>1 DEF Accounts, Answered, Active
<1>2. ASSUME NEW s \in Steppers, stepper[s].at # "start", claim' = claim, Accounts
      PROVE  ClaimsHaveAReason'
  <2>1. \A r \in Steppers : stepper[r].at # "start"
    BY <1>2 DEF OneStepper
  <2> QED
    BY <1>0, <1>2, <2>1, ClaimsAccounted
<1>3. ASSUME NEW s \in Steppers, TakesIn(s) PROVE ClaimsHaveAReason'
  <2> DEFINE t == FirstOf(s)[1]
  <2>1. stepper[s].at # "start" /\ claim' = claim
    BY <1>3, WhereTo DEF TakesIn, IngestRunning, IngestStalled, IngestFailed, IngestResult,
                         Reconcile
  <2>2. FirstOf(s) \in stepper[s].todo /\ t \in TeamTasks
    BY <1>3, TodoTypes DEF TakesIn, IngestRunning, IngestStalled, IngestFailed, IngestResult,
                           Reconcile
  <2>3. ASSUME IngestRunning(s) PROVE Accounts
    BY <1>1, <2>3 DEF IngestRunning, teamTeam
  <2>4. ASSUME IngestStalled(s) \/ IngestFailed(s) PROVE Accounts
    BY <1>1, <2>4, RetryAccounts DEF IngestStalled, IngestFailed, MarkTaskRetryOrFailed, SetTeam,
                                     teamTeam
  <2>5. ASSUME IngestResult(s) PROVE Accounts
    <3> DEFINE w == FirstOf(s)[2]
               r == worker[w].at
               now == [task EXCEPT ![t].worker = w]
    <3>1. task' = Applied(t, w, r) /\ r \in Results \ {"invalid"} /\ Release(t) /\ Settles(t)
      BY <2>5 DEF IngestResult, ApplyWorkerResult, SetTeam
    <3>2. r \in {"completed", "blocked", "drift", "needs_retry", "failed"}
      <4>1. r \in Results /\ r # "invalid"
        BY <3>1
      <4> HIDE DEF r
      <4> QED
        BY <4>1, TeamAssumption
    <3>3. \E st, m : \/ task' = [now EXCEPT ![t].status = st]
                     \/ task' = [now EXCEPT ![t].status = st, ![t].merge = m]
      BY <3>1, <3>2 DEF Applied
    <3>4. \A u \in TeamTasks : u # t => now[u] = task[u] /\ u \in DOMAIN now
      BY <1>0 DEF TaskTypes
    <3> HIDE DEF now, t
    <3>5. \A u \in TeamTasks : u # t => task'[u] = task[u]
      BY <3>3, <3>4
    <3> QED
      BY <3>1, <3>5 DEF Accounts, Answered, Active, Release, Settles
  <2>6. ASSUME Reconcile(s) PROVE Accounts
    <3>1. t \notin Counted /\ UNCHANGED <<releases, queried>>
      BY <2>2, <2>6 DEF Sole, InStep, Reconcile, StepperAt
    <3>2. \A u \in TeamTasks : u # t => task'[u] = task[u]
      BY <1>0, <2>6 DEF Reconcile, SetTeam, TaskTypes
    <3> QED
      BY <3>1, <3>2 DEF Accounts, Answered, Counted, Active
  <2>7. Accounts
    BY <1>3, <2>3, <2>4, <2>5, <2>6 DEF TakesIn
  <2> QED
    BY <1>2, <2>1, <2>7
<1>4. ASSUME NEW s \in Steppers, Moves(s) PROVE ClaimsHaveAReason'
  <2>1. task' = task /\ releases' = releases /\ claim' = claim /\ queried' = queried
    BY <1>4 DEF Moves, StepBegin, IngestDone, ReconcileFails, StepIdles, LaunchPlanner,
                LaunchPlannerFails, SetLead, PlannerAnswered, PlannerFails, ApplyDone, StepReturns,
                Fail, teamTeam
  <2>2. stepper[s].at # "start"
    BY <1>4, WhereTo DEF TaskStages
  <2> QED
    BY <1>1, <1>2, <2>1, <2>2
<1>5. ASSUME NEW s \in Steppers, CarriesOut(s) PROVE ClaimsHaveAReason'
  <2> DEFINE t == stepper[s].task
  <2>1. t \in TeamTasks
    BY <1>5, WhereTo DEF Engaged
  <2>2. \A r \in Steppers : r = s
    BY DEF OneStepper
  <2>3. CASE DeferTask(s)
    <3>1. /\ stepper[s].at = "defer" /\ UNCHANGED <<claim, releases, queried>>
          /\ task' = [task EXCEPT ![t].status = "pending"]
      BY <2>3 DEF DeferTask, StepperAt, SetTeam
    <3>2. t \notin Counted
      BY <3>1 DEF Sole, InStep
    <3>3. \A u \in TeamTasks : u # t => task'[u] = task[u]
      BY <1>0, <3>1 DEF TaskTypes
    <3>4. Accounts
      BY <3>1, <3>2, <3>3 DEF Accounts, Answered, Counted, Active
    <3> QED
      BY <1>2, <3>1, <3>4
  <2>4. CASE StartTask(s)
    <3>1. /\ task'[t].status = "in-progress" /\ \A u \in TeamTasks : u # t => task'[u] = task[u]
          /\ UNCHANGED <<claim, releases>> /\ Settles(t)
      BY <1>0, <2>1, <2>4 DEF StartTask, TaskTypes
    <3>2. Accounts /\ t \in Answered'
      BY <2>1, <3>1 DEF Accounts, Answered, Active, Settles
    <3> QED
      BY <1>0, <2>2, <3>1, <3>2, ClaimsAccounted
  <2>5. CASE StartRefused(s)
    <3>1. task' = task /\ Release(t) /\ claim' = claim /\ queried' = queried
      BY <2>5 DEF StartRefused, Fail
    <3>2. Accounts /\ t \in Answered'
      BY <3>1 DEF Accounts, Answered, Active, Release
    <3> QED
      BY <1>0, <2>2, <3>1, <3>2, ClaimsAccounted
  <2>6. CASE LaunchWorkerFails(s) \/ StopMarks(s)
    <3>1. /\ task' = [task EXCEPT ![t].status = RetryOrFailed(t)] /\ Release(t) /\ Settles(t)
          /\ claim' = claim /\ stepper[s].at \in {"launch", "stopped"}
      BY <2>6 DEF LaunchWorkerFails, StopMarks, MarkTaskRetryOrFailed, SetTeam, StepperAt
    <3>2. Accounts
      BY <3>1, RetryAccounts
    <3> QED
      BY <1>2, <3>1, <3>2
  <2>7. CASE LaunchWorker(s)
    <3>1. task' = task /\ UNCHANGED <<claim, releases, queried>> /\ stepper[s].at = "launch"
      BY <2>7 DEF LaunchWorker, StepperAt, teamTeam
    <3> QED
      BY <1>1, <1>2, <3>1
  <2>8. CASE UpdateTaskHandle(s)
    <3>1. UNCHANGED <<claim, releases, queried>> /\ stepper[s].at = "handle"
      BY <2>8 DEF UpdateTaskHandle, StepperAt
    <3>2. \A u \in TeamTasks : task'[u].status = task[u].status
      BY <1>0, <2>8 DEF UpdateTaskHandle, TaskTypes, TaskType
    <3>3. Accounts
      BY <3>1, <3>2 DEF Accounts, Answered, Active
    <3> QED
      BY <1>2, <3>1, <3>3
  <2> QED
    BY <1>5, <2>3, <2>4, <2>5, <2>6, <2>7, <2>8 DEF CarriesOut
<1>6. ASSUME NEW s \in Steppers, PlannerAction(s) PROVE ClaimsHaveAReason'
  <2>0. stepper[s].at = "apply"
    BY <1>6, WhereTo
  <2>1. ASSUME NEW t \in TeamTasks, MarkComplete(s, t) \/ MarkBlocked(s, t)
        PROVE  ClaimsHaveAReason'
    <3>1. /\ Release(t) /\ Settles(t) /\ claim' = claim
          /\ \E st : task' = [task EXCEPT ![t].status = st]
      BY <2>1 DEF MarkComplete, MarkBlocked, SetTeam
    <3>2. Accounts
      BY <3>1, RetryAccounts
    <3> QED
      BY <1>2, <2>0, <3>1, <3>2
  <2>2. ASSUME NEW t, \/ BeginRefused(s, t) \/ StopRefused(s, t) \/ AskHuman(s, t)
                      \/ \E w : StopWorker(s, t, w)
        PROVE  ClaimsHaveAReason'
    <3>1. task' = task /\ UNCHANGED <<claim, releases, queried>>
      BY <2>2 DEF BeginRefused, StopRefused, StopWorker, AskHuman, Fail, SetTeam, teamTeam
    <3> QED
      BY <1>1, <1>2, <2>0, <3>1
  <2>3. ASSUME NEW t \in TeamTasks, BeginTask(s, t) PROVE ClaimsHaveAReason'
    <3>0. task' = task /\ releases' = releases /\ queried' = queried
      BY <2>3 DEF BeginTask, teamTeam
    <3>1. CASE claim' = claim
      BY <1>1, <1>2, <2>0, <3>0, <3>1
    <3>2. CASE claim' # claim
      <4>1. PICK P \in SUBSET Paths :
              /\ claim' = [p \in Paths |-> IF p \in P THEN t ELSE claim[p]]
              /\ stepper' = [stepper EXCEPT ![s].at = "start", ![s].task = t, ![s].left = @ - 1]
        BY <2>3, <3>2 DEF BeginTask
      <4>2. stepper'[s].at = "start" /\ stepper'[s].task = t
        BY <1>0, <4>1 DEF StepperTypes, StepperType
      <4>3. ASSUME NEW p \in Paths, claim[p] # 0
            PROVE  claim[p] \in Answered
        <5>1. \A r \in Steppers : stepper[r].at # "start"
          BY <2>0 DEF OneStepper
        <5> QED
          BY <1>0, <4>3, <5>1 DEF ClaimsHaveAReason, StepperAt, Answered
      <4>4. ASSUME NEW p \in Paths, claim'[p] # 0
            PROVE  \/ claim'[p] \in Answered'
                   \/ \E r \in Steppers : stepper'[r].at = "start" /\ stepper'[r].task = claim'[p]
        <5>1. CASE p \in P
          BY <4>1, <4>2, <5>1
        <5>2. CASE p \notin P
          <6>1. claim'[p] = claim[p]
            BY <4>1, <5>2
          <6> QED
            BY <3>0, <4>3, <4>4, <6>1 DEF Answered, Active
        <5> QED
          BY <5>1, <5>2
      <4> QED
        BY <4>4 DEF ClaimsHaveAReason, StepperAt, Answered
    <3> QED
      BY <3>1, <3>2
  <2> QED
    BY <1>6, <2>1, <2>2, <2>3 DEF PlannerAction
<1>7. CASE Others
  <2>1. CASE \E t \in TeamTasks : ReleaseClaims(t)
    <3>1. PICK t \in TeamTasks : ReleaseClaims(t)
      BY <2>1
    <3>2. /\ \A p \in Paths : claim'[p] = IF claim[p] = t THEN 0 ELSE claim[p]
          /\ task' = task /\ stepper' = stepper /\ queried' = queried
          /\ releases \subseteq releases' \cup {t}
      BY <1>0, <3>1 DEF ReleaseClaims, teamTeam
    <3>3. ASSUME NEW p \in Paths, claim'[p] # 0
          PROVE  \/ claim'[p] \in Answered'
                 \/ \E r \in Steppers : stepper'[r].at = "start" /\ stepper'[r].task = claim'[p]
      <4>1. claim'[p] = claim[p] /\ claim[p] # 0 /\ claim[p] # t
        BY <3>2, <3>3
      <4>2. \/ claim[p] \in Answered
            \/ \E s \in Steppers : stepper[s].at = "start" /\ stepper[s].task = claim[p]
        BY <1>0, <4>1 DEF ClaimsHaveAReason, StepperAt, Answered
      <4> QED
        BY <3>2, <4>1, <4>2 DEF Answered, Active
    <3> QED
      BY <3>3 DEF ClaimsHaveAReason, StepperAt, Answered
  <2>2. CASE ~\E t \in TeamTasks : ReleaseClaims(t)
    <3>1. UNCHANGED <<claim, releases>>
      BY <1>7, <2>2 DEF Others, WorkerEnds, PlannerEnds, PlannerCallback, QueryLooks, QueryWrites,
                        StartTeam, StopTeam, StopTeamReturns, ControllerCancelled,
                        ControllerExits, AnswerTeam
    <3>2. Accounts
      <4>1. CASE (\E p \in Planners : PlannerCallback(p)) \/ AnswerTeam
        <5>1. /\ queried' = queried
              /\ \A t \in TeamTasks : task[t].status = "in-progress" => task'[t].status = "in-progress"
          BY <1>0, <4>1 DEF PlannerCallback, AnswerTeam, TaskTypes
        <5> QED
          BY <3>1, <5>1 DEF Accounts, Answered, Active
      <4>2. ASSUME NEW r \in Readers, QueryWrites(r) PROVE Accounts
        <5>1. /\ queried' = queried \cup Rewritten(r)
              /\ \A t \in TeamTasks \ Rewritten(r) : task'[t].status = task[t].status
          BY <1>0, <4>2 DEF QueryWrites, TaskTypes
        <5> QED
          BY <3>1, <5>1 DEF Accounts, Answered, Active
      <4>3. CASE \/ \E w \in Workers : WorkerEnds(w)
                 \/ \E p \in Planners : PlannerEnds(p)
                 \/ \E r \in Readers : QueryLooks(r)
                 \/ StartTeam \/ StopTeam \/ StopTeamReturns \/ ControllerCancelled
                 \/ ControllerExits
        <5>1. task' = task /\ queried' = queried
          BY <4>3 DEF WorkerEnds, PlannerEnds, QueryLooks, StartTeam, StopTeam, StopTeamReturns,
                      ControllerCancelled, ControllerExits, teamTeam
        <5> QED
          BY <1>1, <3>1, <5>1
      <4> QED
        BY <1>7, <2>2, <4>1, <4>2, <4>3 DEF Others
    <3>3. \A s \in Steppers : stepper[s].at = "start" => stepper'[s] = stepper[s]
      BY <1>7, WhereTo
    <3> QED
      BY <1>0, <3>1, <3>2, <3>3, ClaimsAccounted
  <2> QED
    BY <2>1, <2>2
<1> QED
  BY <1>3, <1>4, <1>5, <1>6, <1>7, StepCases

\* The inductive invariant for one stepper.
SoleIInv == TeamIInv /\ Sole

\* With one stepper its invariant holds in every state.
THEOREM SoleInvariant == ASSUME OneStepper PROVE TeamSpec => []SoleIInv
<1>1. TeamInit => Sole
  BY DEF TeamInit, Sole, HandlesCurrent, InStep, IdleStepper, ClaimsHaveAReason
<1>2. SoleIInv /\ [TeamNext]_teamVars => SoleIInv'
  <2> SUFFICES ASSUME SoleIInv, [TeamNext]_teamVars PROVE SoleIInv'
    OBVIOUS
  <2>1. TeamTypeOK /\ Engaged /\ TeamIInv /\ Sole
    BY DEF SoleIInv, TeamIInv
  <2>2. CASE TeamNext
    BY <2>1, <2>2, HandlesStep, InStepStep, ClaimsStep, TeamStep DEF SoleIInv, Sole
  <2>3. CASE UNCHANGED teamVars
    BY <2>1, <2>3, TeamStep DEF SoleIInv, Sole, HandlesCurrent, InStep, Of, ClaimsHaveAReason,
                                StepperAt, Counted, Active, teamVars, teamTeam, teamSessions
  <2> QED
    BY <2>2, <2>3
<1> QED
  BY <1>1, <1>2, TeamInitially, PTL DEF TeamSpec, SoleIInv

\* With one stepper the handle of a task names a session launched for the task
\* and for its current attempt, so that a result taken in is never that of an
\* attempt before (team_runtime.go:1063, 773): the second look clears the handle
\* and the snapshot of a step is used up before another attempt begins.
THEOREM WorkersAreCurrent == ASSUME OneStepper PROVE TeamSpec => []WorkerIsCurrent
<1>1. SoleIInv => WorkerIsCurrent
  BY DEF SoleIInv, Sole, HandlesCurrent, Of, WorkerIsCurrent
<1> QED
  BY <1>1, SoleInvariant, PTL

\* With one stepper every owned path is owned by a task in progress, by one that
\* is about to start, by one whose release is under way, or by one that a status
\* query wrote to: every other way out of "in-progress" starts a release
\* (team_runtime.go:757, 843, 1041).
THEOREM ClaimsAreReasoned == ASSUME OneStepper PROVE TeamSpec => []ClaimsHaveAReason
<1>1. SoleIInv => ClaimsHaveAReason
  BY DEF SoleIInv, Sole
<1> QED
  BY <1>1, SoleInvariant, PTL

=============================================================================
