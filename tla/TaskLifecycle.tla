---------------------------- MODULE TaskLifecycle ----------------------------
(***************************************************************************)
(* What the fleet promises about each work item, without queues, budgets,  *)
(* polls or calls: an item is claimed by at most one worker at a time, is  *)
(* tried again at most MaxTries times after a failure, and once done or    *)
(* dead it stays so unless an operator retries a dead one.                 *)
(***************************************************************************)
EXTENDS Naturals

CONSTANTS Tasks, MaxTries

VARIABLES
    stage,   \* the stage of each task's life
    tries    \* the automatic retries it has used

lifeVars == <<stage, tries>>

Stages == {"new", "queued", "claimed", "running", "done", "dead"}

LifeInit ==
    /\ stage = [t \in Tasks |-> "new"]
    /\ tries = [t \in Tasks |-> 0]

Move(t, from, to) ==
    /\ stage[t] \in from
    /\ stage' = [stage EXCEPT ![t] = to]

Submit(t)  == Move(t, {"new"}, "queued")             /\ UNCHANGED tries
Claim(t)   == Move(t, {"queued"}, "claimed")         /\ UNCHANGED tries
Expire(t)  == Move(t, {"claimed"}, "queued")         /\ UNCHANGED tries
Start(t)   == Move(t, {"claimed"}, "running")        /\ UNCHANGED tries
Finish(t)  == Move(t, {"running"}, "done")           /\ UNCHANGED tries
Bury(t)    == Move(t, {"queued", "claimed", "running"}, "dead") /\ UNCHANGED tries

Retry(t) ==
    /\ Move(t, {"claimed", "running"}, "queued")
    /\ tries[t] < MaxTries
    /\ tries' = [tries EXCEPT ![t] = @ + 1]

Reopen(t) ==
    /\ Move(t, {"dead"}, "queued")
    /\ tries' = [tries EXCEPT ![t] = 0]

LifeNext ==
    \E t \in Tasks :
        Submit(t) \/ Claim(t) \/ Expire(t) \/ Start(t) \/ Finish(t) \/ Bury(t)
          \/ Retry(t) \/ Reopen(t)

LifeSpec == LifeInit /\ [][LifeNext]_lifeVars
=============================================================================
