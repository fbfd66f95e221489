------------------------------ MODULE LoopRuns ------------------------------
(***************************************************************************)
(* A development loop of the session manager (src/internal/session:        *)
(* loop.go, loop_steps.go, stall_detector.go, depth.go, autonomy.go).      *)
(* StepLoop makes one iteration: it analyses, plans, lets workers execute  *)
(* the plan and verifies what they did.  RunLoop steps again and again,    *)
(* recovers from failed steps and ends by itself; the interface and a tool *)
(* step by hand, pause, resume and stop the loop at any time.              *)
(*                                                                         *)
(* run.mu is held for each look at or change of the loop and not in        *)
(* between.  A loop is driven by RunLoop once, after it was started.       *)
(*                                                                         *)
(* Left out: sessions, tasks, worktrees and prompts of an iteration, other *)
(* loops of the repository, pruning, and the file of the loop with what a  *)
(* later start of the program makes of it.                                 *)
(***************************************************************************)
EXTENDS Integers, Sequences, FiniteSetsExt

CONSTANTS
  LoopSteppers,     \* "run" for RunLoop, "hand" for a StepLoop of somebody else
  MaxTurns,         \* Profile.MaxWorkerTurns
  MaxIterations,    \* Profile.MaxIterations
  RetryLimit,       \* Profile.RetryLimit
  SelfImprovement,  \* Profile.SelfImprovement
  AutoRecover,      \* autonomy of level 1 or above, with AutoRecover
  MaxRecoveries,    \* AutonomyConfig.MaxRecoveries
  MaxRestartCycles, \* DefaultMaxRestarts
  MinDepth,         \* the bounds of a depth estimate
  MaxDepth,
  Extension         \* iterations one extension adds, 5 in the code

ASSUME LoopRunAssumption ==
  /\ LoopSteppers \subseteq {"run", "hand"}
  /\ MaxTurns \in Nat \ {0} /\ MaxIterations \in Nat \ {0} /\ RetryLimit \in Nat
  /\ SelfImprovement \in BOOLEAN /\ AutoRecover \in BOOLEAN
  /\ MaxRecoveries \in Nat /\ MaxRestartCycles \in Nat \ {0}
  /\ MinDepth \in Nat \ {0} /\ MaxDepth \in Nat /\ MinDepth <= MaxDepth
  /\ Extension \in Nat \ {0}

VARIABLES
  loopStatus,     \* run.Status
  iterations,     \* the status of each of run.Iterations
  loopPaused,     \* run.Paused
  runCall,        \* RunLoop and its counters
  loopCancelled,  \* the context of RunLoop is done
  stepCall,       \* StepLoop of a stepper: where it is, and its iteration
  stopCall,       \* StopLoop, and whether it found a RunLoop to wait for
  everByHand      \* history: was the loop stepped by hand?

loopData == <<loopStatus, iterations, loopPaused>>
loopCalls == <<runCall, loopCancelled, stepCall, stopCall>>
loopRunVars == <<loopData, loopCalls, everByHand>>

\* The statuses that StepLoop and the stall detector take for active: an
\* iteration that analyzes is not among them.
ActiveStatuses == {"planning", "executing", "verifying"}
IterationStatuses == ActiveStatuses \cup {"analyzing", "idle", "pending_review", "failed"}
LoopStatuses == {"pending", "running", "idle", "pending_review", "failed",
                 "completed", "stopped", "converged"}
StepStages == ActiveStatuses \cup {"none", "analyzing", "accepting"}
RunStages == {"none", "top", "limits", "step", "stepping", "failed", "stepped",
              "backoff", "done"}
NoStep == [at |-> "none", index |-> 0]

LoopRunTypeOK ==
  /\ loopStatus \in LoopStatuses
  /\ iterations \in Seq(IterationStatuses) /\ Len(iterations) <= MaxIterations
  /\ loopPaused \in BOOLEAN
  /\ runCall \in [at : RunStages, recoveries : 0..MaxRecoveries,
                  restarts : 0..MaxRestartCycles, max : Nat]
  /\ loopCancelled \in BOOLEAN
  /\ stepCall \in [LoopSteppers -> [at : StepStages, index : 0..MaxIterations]]
  /\ stopCall \in [at : {"none", "cancel", "wait", "returned"}, waits : BOOLEAN]
  /\ everByHand \in BOOLEAN

\* StartLoopForTenant has registered the loop.
LoopRunInit ==
  /\ loopStatus = "pending" /\ iterations = <<>> /\ loopPaused = FALSE
  /\ runCall = [at |-> "none", recoveries |-> 0, restarts |-> 0, max |-> 0]
  /\ loopCancelled = FALSE
  /\ stepCall = [s \in LoopSteppers |-> NoStep]
  /\ stopCall = [at |-> "none", waits |-> FALSE]
  /\ everByHand = FALSE

RunAt(a) == runCall.at = a
RunGoto(a) == runCall' = [runCall EXCEPT !.at = a]

----------------------------------------------------------------------------
(* StepLoop. *)

\* The trailing failures: one more would not be tolerated.
ConsecutiveFailures ==
  CHOOSE n \in 0..Len(iterations) :
    /\ \A i \in (Len(iterations) - n + 1)..Len(iterations) : iterations[i] = "failed"
    /\ n < Len(iterations) => iterations[Len(iterations) - n] # "failed"

\* Mutant: a stopped loop is stepped.
RefusesActive ==
  \/ iterations # <<>> /\ iterations[Len(iterations)] \in ActiveStatuses
  \/ ConsecutiveFailures > RetryLimit

Refuses ==
  \/ loopStatus = "stopped"
  \/ iterations # <<>> /\ iterations[Len(iterations)] \in ActiveStatuses
  \/ ConsecutiveFailures > RetryLimit

\* RunLoop is about to step, or somebody steps by hand.
MayCallStep(s) ==
  /\ s \in LoopSteppers
  /\ stepCall[s] = NoStep
  /\ s = "run" => RunAt("step")
CallsStep(s) == everByHand' = (everByHand \/ s = "hand")

\* StepLoop returns to RunLoop, which goes on at a.
StepReturnsTo(s, a) == IF s = "run" THEN RunGoto(a) ELSE UNCHANGED runCall

StepRefused ==
  /\ MayCallStep("run") /\ Refuses
  /\ RunGoto("failed")
  /\ UNCHANGED <<loopData, loopCancelled, stepCall, stopCall, everByHand>>

\* The loop has had its iterations or its time, or they converge: no step.
StepEnds(s) ==
  /\ MayCallStep(s) /\ ~Refuses
  /\ \/ loopStatus' = "completed"
     \/ 2 <= Len(iterations) /\ Len(iterations) < MaxIterations /\ loopStatus' = "converged"
  /\ StepReturnsTo(s, "failed") /\ CallsStep(s)
  /\ UNCHANGED <<iterations, loopPaused, loopCancelled, stepCall, stopCall>>

StepBegins(s) ==
  /\ MayCallStep(s) /\ ~Refuses
  /\ Len(iterations) < MaxIterations
  /\ iterations' = Append(iterations, "analyzing")
  /\ loopStatus' = "running"
  /\ stepCall' = [stepCall EXCEPT ![s] = [at |-> "analyzing", index |-> Len(iterations) + 1]]
  /\ StepReturnsTo(s, "stepping") /\ CallsStep(s)
  /\ UNCHANGED <<loopPaused, loopCancelled, stopCall>>

\* updateLoopIteration: the iteration of s becomes a, and the loop runs.
UpdateLoopIteration(s, a) ==
  /\ iterations' = [iterations EXCEPT ![stepCall[s].index] = a]
  /\ loopStatus' = "running"
  /\ UNCHANGED loopPaused

NextStage == [analyzing |-> "planning", planning |-> "executing", executing |-> "verifying"]
StepWorks(s) == s \in LoopSteppers /\ stepCall[s].at \in DOMAIN NextStage \cup {"verifying"}

\* An update within a stage, of which a step makes several.
StepUpdates(s) ==
  /\ StepWorks(s) /\ stepCall[s].at # "verifying"
  /\ UpdateLoopIteration(s, stepCall[s].at)
  /\ UNCHANGED <<loopCalls, everByHand>>

StepAdvances(s) ==
  /\ StepWorks(s) /\ stepCall[s].at # "verifying"
  /\ UpdateLoopIteration(s, NextStage[stepCall[s].at])
  /\ stepCall' = [stepCall EXCEPT ![s].at = NextStage[@]]
  /\ UNCHANGED <<runCall, loopCancelled, stopCall, everByHand>>

\* updateLoopAfterVerification, which writes the status a to the loop as well.
UpdateAfterVerification(s, a) ==
  /\ iterations' = [iterations EXCEPT ![stepCall[s].index] = a]
  /\ loopStatus' = a
  /\ UNCHANGED loopPaused

StepDone(s) == stepCall' = [stepCall EXCEPT ![s] = NoStep]

\* failLoopIteration, whatever went wrong; the end of the context included.
StepFails(s) ==
  /\ StepWorks(s)
  /\ UpdateAfterVerification(s, "failed")
  /\ StepDone(s) /\ StepReturnsTo(s, "failed")
  /\ UNCHANGED <<loopCancelled, stopCall, everByHand>>

\* One no-op iteration too many: it ends well, and StepLoop with an error.
StepIsNoop(s) ==
  /\ StepWorks(s) /\ stepCall[s].at = "executing"
  /\ UpdateLoopIteration(s, "idle")
  /\ StepDone(s) /\ StepReturnsTo(s, "failed")
  /\ UNCHANGED <<loopCancelled, stopCall, everByHand>>

StepVerified(s) ==
  /\ StepWorks(s) /\ stepCall[s].at = "verifying"
  /\ \E a \in {"idle", "pending_review"} : UpdateAfterVerification(s, a)
  /\ stepCall' = [stepCall EXCEPT ![s].at = "accepting"]
  /\ UNCHANGED <<runCall, loopCancelled, stopCall, everByHand>>

\* The acceptance of a self-improvement makes the loop running again.
StepAccepted(s) ==
  /\ s \in LoopSteppers /\ stepCall[s].at = "accepting"
  /\ loopStatus' = IF SelfImprovement /\ iterations[stepCall[s].index] = "idle"
                   THEN "running" ELSE loopStatus
  /\ UNCHANGED <<iterations, loopPaused>>
  /\ StepDone(s) /\ StepReturnsTo(s, "stepped")
  /\ UNCHANGED <<loopCancelled, stopCall, everByHand>>

----------------------------------------------------------------------------
(* RunLoop. *)

\* RunLoop leaves its context and its done channel with the loop.
RunLoop ==
  /\ "run" \in LoopSteppers
  /\ RunAt("none")
  /\ RunGoto("top")
  /\ UNCHANGED <<loopData, loopCancelled, stepCall, stopCall, everByHand>>

\* The end of the context is seen at the top, also while the loop is paused, and
\* during a backoff.
RunCancelled ==
  /\ RunAt("top") \/ RunAt("backoff")
  /\ loopCancelled
  /\ RunGoto("done")
  /\ UNCHANGED <<loopData, loopCancelled, stepCall, stopCall, everByHand>>

RunGoesOn ==
  /\ RunAt("top")
  /\ ~loopCancelled /\ ~loopPaused
  /\ RunGoto("limits")
  /\ UNCHANGED <<loopData, loopCancelled, stepCall, stopCall, everByHand>>

\* RunLoop ends with the status a of the loop.
RunEndsWith(a) ==
  /\ loopStatus' = a
  /\ UNCHANGED <<iterations, loopPaused>>
  /\ RunGoto("done")
  /\ UNCHANGED <<loopCancelled, stepCall, stopCall, everByHand>>

\* The share of the budget or its hard cap is spent.
OverBudget == RunAt("limits") /\ RunEndsWith("completed")

\* The estimate is made once there is an iteration.
EstimateDepth ==
  /\ RunAt("limits")
  /\ runCall.max = 0 /\ iterations # <<>>
  /\ \E d \in MinDepth..MaxDepth : runCall' = [runCall EXCEPT !.max = Max({d, MaxTurns})]
  /\ UNCHANGED <<loopData, loopCancelled, stepCall, stopCall, everByHand>>

EffectiveMax == Max({runCall.max, MaxTurns})
Estimated == RunAt("limits") /\ (runCall.max # 0 \/ iterations = <<>>)

TurnsUsedUp ==
  /\ Estimated /\ Len(iterations) >= EffectiveMax
  /\ RunEndsWith("stopped")

\* The last iteration made progress: the loop gets some more.
ExtendTurns ==
  /\ Estimated /\ Len(iterations) >= EffectiveMax
  /\ Len(iterations) < MaxDepth
  /\ runCall' = [runCall EXCEPT !.max = EffectiveMax + Extension, !.at = "step"]
  /\ UNCHANGED <<loopData, loopCancelled, stepCall, stopCall, everByHand>>

TurnsLeft ==
  /\ Estimated /\ Len(iterations) < EffectiveMax
  /\ RunGoto("step")
  /\ UNCHANGED <<loopData, loopCancelled, stepCall, stopCall, everByHand>>

\* The stall detector finds iterations that began too long ago; whoever makes
\* them is not told.
FailStalled ==
  /\ RunAt("step")
  /\ \E S \in SUBSET {i \in DOMAIN iterations : iterations[i] \in ActiveStatuses} :
       /\ S # {}
       /\ iterations' = [i \in DOMAIN iterations |-> IF i \in S THEN "failed" ELSE iterations[i]]
  /\ UNCHANGED <<loopStatus, loopPaused>>
  /\ UNCHANGED <<loopCalls, everByHand>>

\* Mutant: cycles of recoveries are not counted.
RestartCycleUncounted ==
  runCall' = [runCall EXCEPT !.recoveries = 0, !.at = "backoff"]

\* The recoveries are used up: the next cycle of them, or the end.
RestartCycle ==
  runCall' = [runCall EXCEPT !.restarts = @ + 1, !.recoveries = 0,
                !.at = IF runCall.restarts + 1 >= MaxRestartCycles THEN "done" ELSE "backoff"]

\* What RunLoop makes of an error, by the status the loop has now.
AfterFailure ==
  /\ RunAt("failed")
  /\ IF loopStatus \in {"completed", "stopped", "converged"} \/ ~AutoRecover
     THEN RunGoto("done")
     ELSE IF runCall.recoveries < MaxRecoveries
     THEN runCall' = [runCall EXCEPT !.recoveries = @ + 1, !.at = "backoff"]
     ELSE RestartCycle
  /\ UNCHANGED <<loopData, loopCancelled, stepCall, stopCall, everByHand>>

BackoffOver ==
  /\ RunAt("backoff")
  /\ RunGoto("top")
  /\ UNCHANGED <<loopData, loopCancelled, stepCall, stopCall, everByHand>>

AfterSuccess ==
  /\ RunAt("stepped")
  /\ runCall' = [runCall EXCEPT !.recoveries = 0, !.at = "top"]
  /\ UNCHANGED <<loopData, loopCancelled, stepCall, stopCall, everByHand>>

\* A plateau of iterations without changes, or diminishing returns.
RunConverges ==
  /\ RunAt("stepped")
  /\ RunEndsWith("converged")

----------------------------------------------------------------------------
(* StopLoop, PauseLoop and ResumeLoop. *)

StopRun ==
  /\ stopCall.at \in {"none", "returned"}
  /\ loopStatus' = "stopped"
  /\ stopCall' = [at |-> "cancel", waits |-> ~RunAt("none")]
  /\ UNCHANGED <<iterations, loopPaused, runCall, loopCancelled, stepCall,
                 everByHand>>

StopCancels ==
  /\ stopCall.at = "cancel"
  /\ loopCancelled' = (loopCancelled \/ stopCall.waits)
  /\ stopCall' = [stopCall EXCEPT !.at = "wait"]
  /\ UNCHANGED <<loopData, runCall, stepCall, everByHand>>

\* The loop is saved and its worktrees are removed.
StopRunReturns ==
  /\ stopCall.at = "wait"
  /\ stopCall.waits => RunAt("done")
  /\ UNCHANGED loopData
  /\ stopCall' = [stopCall EXCEPT !.at = "returned"]
  /\ UNCHANGED <<runCall, loopCancelled, stepCall, everByHand>>

\* PauseLoop and ResumeLoop.
PauseLoop ==
  /\ loopPaused' = ~loopPaused
  /\ UNCHANGED <<loopStatus, iterations>>
  /\ UNCHANGED <<loopCalls, everByHand>>

\* What takes a step on, apart from the updates it makes on its way.
StepProgress(s) ==
  \/ StepAdvances(s) \/ StepFails(s) \/ StepIsNoop(s) \/ StepVerified(s) \/ StepAccepted(s)
StepCallSteps(s) == StepEnds(s) \/ StepBegins(s) \/ StepUpdates(s) \/ StepProgress(s)

RunLoopSteps ==
  \/ RunCancelled \/ RunGoesOn
  \/ OverBudget \/ EstimateDepth \/ TurnsUsedUp \/ ExtendTurns \/ TurnsLeft
  \/ StepRefused \/ StepEnds("run") \/ StepBegins("run")
  \/ AfterFailure \/ BackoffOver \/ AfterSuccess \/ RunConverges

LoopRunNext ==
  \/ RunLoop \/ RunLoopSteps \/ FailStalled
  \/ \E s \in LoopSteppers : StepCallSteps(s)
  \/ StopRun \/ StopCancels \/ StopRunReturns \/ PauseLoop

\* RunLoop goes on, and a step ends: every wait of it has a time limit.
LoopRunFairness == WF_loopRunVars(RunLoopSteps) /\ WF_loopRunVars(StepProgress("run"))

LoopRunSpec == LoopRunInit /\ [][LoopRunNext]_loopRunVars /\ LoopRunFairness

----------------------------------------------------------------------------
(* Properties. *)

\* When StopLoop has come back, no step of RunLoop is under way and none begins
\* later, whether it came before RunLoop, during a step, a pause or a backoff; as
\* long as nobody steps the loop by hand, whose steps it neither cancels nor
\* awaits (loop.go:111, 527-540; loop_steps.go:26).
StopSettles ==
  stopCall.at = "returned" /\ ~everByHand => \A s \in LoopSteppers : stepCall[s] = NoStep

\* RunLoop ends by itself, through failing steps, recoveries that are reset by
\* every success, and extensions; only a pause suspends it, and a stop ends it
\* even then (loop.go:166, 234, 276-311, 316).
RunLoopEnds ==
  ~RunAt("none") ~> (RunAt("done") \/ (loopPaused /\ ~loopCancelled))

=============================================================================
