------------------------------- MODULE MCNode -------------------------------
(***************************************************************************)
(* The components of one ralphglasses process, for TLC.  They share no     *)
(* state, so their interleavings with each other say nothing that each     *)
(* alone does not: a behaviour is one of the component it begins with, and *)
(* the other components rest in their initial states.                      *)
(***************************************************************************)
EXTENDS LoopProcesses, TeamRuntime, SessionLifecycle, SubscriptionAutomation,
        LeaderFailover, EventBus, LoopRuns

CONSTANTS
  Parts,    \* the components that are checked
  Dear,     \* items that take a whole window of the automation
  TooDear   \* and those that no window can afford

MCEstimate == [i \in Entries |-> IF i \in TooDear THEN Target + 1
                                 ELSE IF i \in Dear THEN Target ELSE 1]

ASSUME PartsAssumption ==
  Parts \subseteq {"loops", "team", "sessions", "automation", "leader", "bus", "runs"}

VARIABLE part

NodeInit ==
  /\ part \in Parts
  /\ LoopInit /\ TeamInit /\ SessionInit /\ AutomationInit /\ LeaderInit /\ BusInit
  /\ LoopRunInit

loopTeam == <<loopVars, teamVars>>
sessionAuto == <<sessionVars, autoVars>>
leaderBus == <<leaderVars, busVars>>

NodeNext ==
  /\ UNCHANGED part
  /\ \/ part = "loops" /\ UNCHANGED <<teamVars, sessionAuto, leaderBus, loopRunVars>> /\ LoopNext
     \/ part = "team" /\ UNCHANGED <<loopVars, sessionAuto, leaderBus, loopRunVars>> /\ TeamNext
     \/ part = "sessions" /\ UNCHANGED <<loopTeam, autoVars, leaderBus, loopRunVars>> /\ SessionNext
     \/ part = "automation" /\ UNCHANGED <<loopTeam, sessionVars, leaderBus, loopRunVars>> /\ AutomationNext
     \/ part = "leader" /\ UNCHANGED <<loopTeam, sessionAuto, busVars, loopRunVars>> /\ LeaderNext
     \/ part = "bus" /\ UNCHANGED <<loopTeam, sessionAuto, leaderVars, loopRunVars>> /\ BusNext
     \/ part = "runs" /\ UNCHANGED <<loopTeam, sessionAuto, leaderBus>> /\ LoopRunNext

nodeVars == <<part, loopTeam, sessionAuto, leaderBus, loopRunVars>>

NodeSpec == NodeInit /\ [][NodeNext]_nodeVars

\* The fairness of the component that moves: LoopFairness, TeamFairness and so
\* on, for one component at a time.
NodeFairSpec ==
  /\ NodeSpec
  /\ \A p \in Pids :
       /\ WF_loopVars(part = "loops" /\ KillTerm(p))
       /\ WF_loopVars(part = "loops" /\ KillSurvivor(p))
       /\ WF_loopVars(part = "loops" /\ ReaperSteps(p))
  /\ \A s \in Steppers \cap {"controller"} :
       WF_teamVars(part = "team" /\ (StepperStep(s) \/ ControllerCancelled \/ ControllerExits))
  /\ \A s \in Sessions :
       /\ WF_sessionVars(part = "sessions" /\ LauncherSteps(s))
       /\ WF_sessionVars(part = "sessions" /\ RunnerSteps(s))
       /\ WF_sessionVars(part = "sessions" /\ StopperSteps(s))
       /\ WF_sessionVars(part = "sessions" /\ ReloadSteps(s))
       /\ WF_sessionVars(part = "sessions" /\ CancelKills(s))
  /\ \A t \in Tickers : WF_autoVars(part = "automation" /\ (Tick(t) \/ HandSteps(t)))
  /\ \A i \in Entries :
       /\ WF_autoVars(part = "automation" /\ JobEnds(i))
       /\ WF_autoVars(part = "automation" /\ Report(i))
  /\ WF_autoVars(part = "automation" /\ BackoffPasses)
  /\ WF_autoVars(part = "automation" /\ WindowPasses)
  /\ WF_loopRunVars(part = "runs" /\ RunLoopSteps)
  /\ WF_loopRunVars(part = "runs" /\ StepProgress("run"))

\* The state of each component has its type; a resting one keeps its first state.
NodeTypeOK ==
  CASE part = "loops" -> LoopTypeOK
    [] part = "team" -> TeamTypeOK
    [] part = "sessions" -> SessionTypeOK
    [] part = "automation" -> AutomationTypeOK
    [] part = "leader" -> LeaderTypeOK
    [] part = "bus" -> BusTypeOK
    [] part = "runs" -> LoopRunTypeOK

\* A constraint on the team.  Steps put nothing in progress while a question is
\* pending, and nothing any more once no planner can be launched and no response
\* is being carried out; such states and those of a stopped controller are not
\* followed on.  A query that has looked is followed while a stepper is between
\* its two looks of a launch, until queries have written the status of two tasks.
TeamPlans ==
  part = "team" =>
    /\ question = {} /\ ~stopping
    /\ Cardinality(queried) <= 1
    /\ looked # [r \in Readers |-> NoLook] => \E s \in Steppers : stepper[s].at = "start"
    /\ \/ \E p \in Planners : planner[p] = "unborn"
       \/ \E s \in Steppers : stepper[s].at \notin
            {"idle", "ingest", "reconcile", "done", "exit"}

\* A constraint on the team.  A query is followed beside what takes tasks out of
\* progress or puts them in, an ingest and a start, and one at a time: none
\* begins once a task has a status that a query wrote.
TeamQueries ==
  part = "team" =>
    LET none == [r \in Readers |-> NoLook]
    IN /\ ~stopping
       /\ queried = {} \/ looked = none
       /\ looked = none \/ \A s \in Steppers : stepper[s].at \in {"idle", "ingest", "start"}

\* A constraint on the automation.  An item that is never launched is of one kind.
DearKinds ==
  part = "automation" => \A i \in TooDear : kind[i] \in {"none", "session"}

\* Two instances may change names, and so may two publishers and two requests.
\* Only one component moves, so the three exchanges are one symmetry.
Pairs == {Instances, Publishers, Requests}
OtherOf(x) == CHOOSE y \in UNION {P \in Pairs : x \in P} : y # x
PairSymmetry == {[x \in UNION Pairs |-> OtherOf(x)]}

=============================================================================
