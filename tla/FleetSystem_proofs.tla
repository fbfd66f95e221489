------------------------- MODULE FleetSystem_proofs -------------------------
(***************************************************************************)
(* Safety of the fleet for any number of workers, items, handlers and      *)
(* disturbances.                                                           *)
(*                                                                         *)
(* The fleet is one of the environments that the coordinator of            *)
(* FleetCoordinator is open to, so what is proved of it there holds here   *)
(* (FleetImplementsCoordinator).  The properties of the agents rest on two *)
(* invariants.                                                             *)
(*                                                                         *)
(* InCustody is kept when the fleet is Reliable.  It relates the three     *)
(* places that know of an execution, which the properties keep apart: what *)
(* an agent does (LaunchIsClaimed, SessionIsOwned), what a handler is      *)
(* about to do with a record it read some steps ago (CallIsDue), and the   *)
(* record (RecordInPlace).  SingleExecution alone is not inductive: a step *)
(* that hands an item out must know that nobody has it, which the record   *)
(* says only if records, calls and executions agree.                       *)
(*                                                                         *)
(* AllVacated is kept whatever happens.  It says of the records alone what *)
(* DrainHolds needs: an item that is brought back into the queue while     *)
(* active was on its way there before.                                     *)
(*                                                                         *)
(* The fleet's money rests on what its sums do (SumGrows, SumWithout),     *)
(* which is proved of the fold that defines them by descent on the size of *)
(* the set, and on AllOrderly: while no session fails, an item is neither  *)
(* run nor called about before its submission is accepted.  So a step      *)
(* moves money in one of four ways (MoneyMoves): it leaves the             *)
(* reservations alone, admits a submission, reserves for one, or pays.     *)
(* The ceiling also needs Fits: what a submission found available is still *)
(* available when it reserves.                                             *)
(*                                                                         *)
(* When sessions fail, the sums are no longer equal, and bounds are what   *)
(* is left.  ReservationsCovered rests on AllEarly, which is kept whatever *)
(* happens: a step keeps the reservations, reserves for an item that was   *)
(* not owing, or releases those of at most one (CoverMoves).  PaidOnce     *)
(* rests on custody and on Buried: nothing that is done can be retried.    *)
(***************************************************************************)
EXTENDS FleetSystem, FleetCoordinator_proofs, WellFoundedInduction

\* StartWork calls arrive before their claim expires, nothing is claimed or
\* reaped half requeued, and nobody cancels, deregisters or restarts.  Each
\* of the six breaks custody in this code: a lost or late StartWork leaves a
\* session that the coordinator gives away again, a poll that takes an item
\* before its owner is cleared loses its own claim (run fleet_drained), a cancel
\* or a deregistration takes an item from its running session, and a restart
\* forgets who was given what.
Reliable ==
    Disturbances \cap {"start_lost", "slow_launch", "torn", "cancel", "deregister", "restart"} = {}

\* Handler h serves a request about i.
On(h, i) == call[h] # Idle /\ call[h].item = i

\* What a worker launches is assigned to it, once, and no call is about it.
LaunchIsClaimed(i) ==
    \A w \in Workers : launching[w][i] > 0 =>
        /\ launching[w][i] = 1
        /\ work[i].status = "assigned"
        /\ work[i].owner = w
        /\ \A v \in Workers : running[v][i] = 0
        /\ \A h \in Handlers : ~On(h, i)

\* A session belongs to the owner of the item, which is running, or still
\* assigned with its StartWork call on the way.
SessionIsOwned(i) ==
    \A w \in Workers : running[w][i] > 0 =>
        /\ running[w][i] = 1
        /\ work[i].owner = w
        /\ \/ work[i].status = "assigned" /\ \E h \in Handlers : At(h, {"start"}, i)
           \/ work[i].status = "running"
        /\ \A h \in Handlers : On(h, i) => call[h].step \in {"start", "start_owner"}

\* The record is in the state that the pending step of the call was decided in:
\* nothing came between the steps of a handler.
Due(h, i) ==
        /\ call[h].step \notin {"cancel", "cancel_clear"}
        /\ call[h].step = "start" => work[i].status = "assigned"
        /\ call[h].step = "start_owner" => work[i].status = "running"
        /\ call[h].step \in {"start", "start_owner"} => work[i].owner = call[h].worker
        /\ call[h].step = "complete" => work[i].status = "running"
        /\ call[h].step = "complete_book" => work[i].status = "completed"
        /\ call[h].step \in {"fail", "fail_requeue", "fail_bury"} => work[i].status \in Active
        /\ call[h].step = "fail_requeue" => work[i].retries < MaxRetries
        /\ call[h].step = "fail_clear" => work[i].status = "pending"
        /\ call[h].step = "fail_file" => work[i].status = "failed"

\* At most one call is about an item of the queue, and it is due.
CallIsDue(i) ==
    \A h \in Handlers : On(h, i) =>
        /\ i \in items
        /\ \A g \in Handlers : On(g, i) => g = h
        /\ Due(h, i)

\* The record of an item agrees with where it is kept.
RecordInPlace(i) ==
    /\ ~(i \in items /\ i \in dlq)
    /\ submit[i] \in {"new", "checked"} => i \notin items /\ i \notin dlq /\ work[i] = NewWork
    /\ work[i].status \in Active => i \in items /\ work[i].owner \in CanRun[i]
    /\ work[i].status = "pending" =>
          work[i].owner = NoWorker \/ \E h \in Handlers : At(h, {"fail_clear"}, i)

\* One pair of hands at a time has the item.
Custody(i) == LaunchIsClaimed(i) /\ SessionIsOwned(i) /\ CallIsDue(i) /\ RecordInPlace(i)

\* No deregistration is at work, and all items are in custody.
InCustody == clearing = {} /\ \A i \in Items : Custody(i)

\* The steps of CancelWork.
CancelSteps == {"cancel", "cancel_clear"}

\* An item outside the queue is not active, or a StartWork call is about to put
\* it back, or no call but a cancel is about it.
Vacated(i) ==
    \/ i \in items
    \/ work[i].status \notin Active
    \/ \E h \in Handlers : At(h, {"start_owner"}, i)
    \/ \A h \in Handlers : On(h, i) => call[h].step \in CancelSteps

\* This holds of all items under all disturbances.
AllVacated == \A i \in Items : Vacated(i)
-----------------------------------------------------------------------------
(* The fleet is one of the environments the coordinator is open to. *)

\* What an agent does is, for the coordinator, a request of a worker about an
\* item, or nothing.
LEMMA AgentProjects ==
    ASSUME NEW w \in Workers, NEW i \in Items,
           HandOut(w, i) \/ HandOutLost(w, i) \/ LaunchSucceeds(w, i)
             \/ LaunchFails(w, i) \/ SessionEnds(w, i)
    PROVE  [Next]_vars
<1>1. CASE HandOut(w, i) \/ HandOutLost(w, i)
  <2>1. AssignBest(w, i)
    BY <1>1 DEF HandOut, HandOutLost, Assign
  <2> QED
    BY <2>1 DEF Next, WorkerStep
<1>2. CASE LaunchSucceeds(w, i)
  <2>1. LookupStart(w, i) \/ UNCHANGED vars
    BY <1>2 DEF LaunchSucceeds
  <2> QED
    BY <2>1 DEF Next, WorkerStep
<1>3. CASE LaunchFails(w, i) \/ SessionEnds(w, i)
  <2>1. \/ UNCHANGED vars
        \/ LookupFailed(i)
        \/ \E r \in Costs : LookupCompleted(i, r)
    BY <1>3 DEF LaunchFails, SessionEnds, ReportFailed, ReportCompleted
  <2> QED
    BY <2>1 DEF Next, ItemStep
<1> QED
  BY <1>1, <1>2, <1>3

\* What an agent does for itself is a registration, a heartbeat, part of a poll,
\* or nothing, of the coordinator.
LEMMA WorkerProjects ==
    ASSUME NEW w \in Workers,
           AgentStart(w) \/ AgentHeartbeat(w) \/ AgentPoll(w) \/ PollNothing(w) \/ WorkerCrash(w)
    PROVE  [Next]_vars
<1>1. CASE AgentHeartbeat(w)
  <2>1. full[w] # AtCapacity(w) /\ Heartbeat(w, AtCapacity(w)) /\ AtCapacity(w) \in BOOLEAN
    BY <1>1 DEF AgentHeartbeat, AtCapacity
  <2> QED
    BY <2>1 DEF Next, WorkerStep
<1>2. CASE WorkerCrash(w)
  BY <1>2 DEF WorkerCrash
<1> QED
  BY <1>1, <1>2 DEF AgentStart, AgentPoll, PollNothing, Next, WorkerStep

\* Every step of the fleet is a step of the open coordinator, or none of its.
LEMMA Projects == [SystemNext]_sysVars => [Next]_vars
<1> SUFFICES ASSUME [SystemNext]_sysVars PROVE [Next]_vars
  OBVIOUS
<1>1. CASE UNCHANGED sysVars
  BY <1>1 DEF sysVars
<1>2. ASSUME NEW i \in Items,
             Submission(i) \/ DeregisterClears(i) \/ BackoffEnds(i) \/ ClaimExpires(i)
      PROVE  [Next]_vars
  BY <1>2 DEF Submission, DeregisterClears, BackoffEnds, ClaimExpires, Next, ItemStep
<1>3. ASSUME NEW h \in Handlers, Serve(h) PROVE [Next]_vars
  BY <1>3 DEF Serve, Next
<1>4. CASE Operator
  BY <1>4 DEF Operator, Next, ItemStep, WorkerStep
<1> QED
  BY <1>1, <1>2, <1>3, <1>4, AgentProjects, WorkerProjects DEF SystemNext

\* Whatever the agents, the network and the operator do, the coordinator of
\* the fleet is the open coordinator of FleetCoordinator.
THEOREM FleetImplementsCoordinator == SystemSpec => Spec
<1>1. SystemInit => Init
  BY DEF SystemInit
<1> QED
  BY <1>1, Projects, PTL DEF SystemSpec, Spec

\* Whatever happens in the fleet, no item that was pushed is outside the queue and
\* the dead letter queue (queue.go) until it is purged or a crash forgets it, and
\* none is retried much more often than MaxRetries (retry.go): once more for each
\* other handler that judged a failure at the same time.
THEOREM FleetKeepsWork == SystemSpec => [](NoWorkLost /\ RetriesBounded)
BY FleetImplementsCoordinator, WorkIsKept, RetriesAreBounded, PTL

-----------------------------------------------------------------------------
(* Every step keeps the types. *)

\* The executions of each worker, by item.
Counts == [Workers -> [Items -> Nat]]

\* An execution that begins or ends changes one count by one.
LEMMA CountMoves ==
    ASSUME NEW counts \in Counts, NEW w \in Workers, NEW i \in Items
    PROVE  /\ Begun(counts, w, i) \in Counts
           /\ Begun(counts, w, i)[w][i] = counts[w][i] + 1
           /\ counts[w][i] > 0 => Ended(counts, w, i) \in Counts
           /\ Ended(counts, w, i)[w][i] = counts[w][i] - 1
           /\ \A v \in Workers, j \in Items : v # w \/ j # i =>
                 /\ Begun(counts, w, i)[v][j] = counts[v][j]
                 /\ Ended(counts, w, i)[v][j] = counts[v][j]
<1>1. counts[w] \in [Items -> Nat] /\ counts[w][i] \in Nat
  BY DEF Counts
<1>2. [counts[w] EXCEPT ![i] = counts[w][i] + 1] \in [Items -> Nat]
  BY <1>1
<1>3. counts[w][i] > 0 => [counts[w] EXCEPT ![i] = counts[w][i] - 1] \in [Items -> Nat]
  BY <1>1
<1>4. /\ Begun(counts, w, i) \in Counts
      /\ counts[w][i] > 0 => Ended(counts, w, i) \in Counts
  BY <1>1, <1>2, <1>3 DEF Counts, Begun, Ended
<1>5. /\ Begun(counts, w, i)[w][i] = counts[w][i] + 1
      /\ Ended(counts, w, i)[w][i] = counts[w][i] - 1
  BY <1>1 DEF Counts, Begun, Ended
<1>6. ASSUME NEW v \in Workers, NEW j \in Items, v # w \/ j # i
      PROVE  /\ Begun(counts, w, i)[v][j] = counts[v][j]
             /\ Ended(counts, w, i)[v][j] = counts[v][j]
  <2>1. counts[v] \in [Items -> Nat]
    BY DEF Counts
  <2> QED
    BY <1>1, <1>6, <2>1 DEF Counts, Begun, Ended
<1> QED
  BY <1>4, <1>5, <1>6

\* The part of CountMoves about a begin, for the steps that are about it alone.
LEMMA BegunMoves ==
    ASSUME NEW counts \in Counts, NEW w \in Workers, NEW i \in Items
    PROVE  /\ Begun(counts, w, i)[w][i] = counts[w][i] + 1
           /\ \A v \in Workers, j \in Items : v # w \/ j # i =>
                 Begun(counts, w, i)[v][j] = counts[v][j]
BY CountMoves

\* And the part about an end.
LEMMA EndedMoves ==
    ASSUME NEW counts \in Counts, NEW w \in Workers, NEW i \in Items
    PROVE  /\ Ended(counts, w, i)[w][i] = counts[w][i] - 1
           /\ \A v \in Workers, j \in Items : v # w \/ j # i =>
                 Ended(counts, w, i)[v][j] = counts[v][j]
BY CountMoves

\* A crash forgets what one worker executes.
LEMMA CrashMoves ==
    ASSUME NEW counts \in Counts, NEW w \in Workers
    PROVE  /\ [counts EXCEPT ![w] = [i \in Items |-> 0]] \in Counts
           /\ \A v \in Workers, j \in Items :
                 [counts EXCEPT ![w] = [i \in Items |-> 0]][v][j] =
                    IF v = w THEN 0 ELSE counts[v][j]
BY DEF Counts

\* The agents' half of SystemTypeOK.
AgentTypes ==
    /\ up \subseteq Workers
    /\ launching \in Counts
    /\ running \in Counts

\* The StartWork calls of a worker about an item can be counted.
LEMMA StartingSize ==
    ASSUME NEW w \in Workers, NEW i \in Items
    PROVE  /\ IsFiniteSet(Starting(w, i))
           /\ Cardinality(Starting(w, i)) \in Nat
           /\ Starting(w, i) # {} => Cardinality(Starting(w, i)) > 0
<1>1. IsFiniteSet(Handlers) /\ Starting(w, i) \subseteq Handlers
  BY BoundAssumption DEF Starting
<1>2. IsFiniteSet(Starting(w, i))
  BY <1>1, FS_Subset
<1>3. /\ Cardinality(Starting(w, i)) \in Nat
      /\ Cardinality(Starting(w, i)) = 0 <=> Starting(w, i) = {}
  BY <1>2, FS_CardinalityType, FS_EmptySet
<1> QED
  BY <1>2, <1>3

\* A step counts itself as a disturbance or does not.
LEMMA DisturbedMoves ==
    ASSUME disturbed \in Nat, [SystemNext]_sysVars
    PROVE  disturbed' \in Nat
<1> SUFFICES (\E k : Disturb(k)) \/ Ordinary
  BY DEF Disturb, Ordinary
<1>1. CASE UNCHANGED sysVars
  BY <1>1 DEF sysVars, Ordinary
<1>2. CASE SystemNext
  <2>1. ASSUME NEW w \in Workers, NEW i \in Items,
               HandOut(w, i) \/ HandOutLost(w, i) \/ LaunchSucceeds(w, i)
             \/ LaunchFails(w, i) \/ SessionEnds(w, i)
        PROVE  (\E k : Disturb(k)) \/ Ordinary
    BY <2>1 DEF HandOut, HandOutLost, Assign, LaunchSucceeds, LaunchFails, SessionEnds,
                ReportFailed, ReportCompleted
  <2>2. ASSUME NEW w \in Workers,
               AgentStart(w) \/ AgentHeartbeat(w) \/ AgentPoll(w) \/ PollNothing(w)
                 \/ WorkerCrash(w)
        PROVE  (\E k : Disturb(k)) \/ Ordinary
    BY <2>2 DEF AgentStart, AgentHeartbeat, AgentPoll, PollNothing, WorkerCrash
  <2>3. ASSUME NEW i \in Items,
             Submission(i) \/ DeregisterClears(i) \/ BackoffEnds(i) \/ ClaimExpires(i)
        PROVE  (\E k : Disturb(k)) \/ Ordinary
    BY <2>3 DEF Submission, DeregisterClears, BackoffEnds, ClaimExpires
  <2>4. ASSUME NEW h \in Handlers, Serve(h) PROVE (\E k : Disturb(k)) \/ Ordinary
    BY <2>4 DEF Serve
  <2>5. CASE Operator
    BY <2>5 DEF Operator
  <2> QED
    BY <1>2, <2>1, <2>2, <2>3, <2>4, <2>5 DEF SystemNext
<1> QED
  BY <1>1, <1>2

\* No execution ends that was not begun: the guards of the agent's steps keep the
\* counts natural.
LEMMA AgentTypesKept ==
    ASSUME AgentTypes, [SystemNext]_sysVars
    PROVE  AgentTypes'
<1>1. CASE UNCHANGED agentVars
  BY <1>1 DEF AgentTypes, agentVars
<1>2. CASE UNCHANGED sysVars
  BY <1>1, <1>2 DEF sysVars
<1>3. ASSUME NEW w \in Workers, NEW i \in Items,
             HandOut(w, i) \/ HandOutLost(w, i) \/ LaunchSucceeds(w, i)
               \/ LaunchFails(w, i) \/ SessionEnds(w, i)
      PROVE  AgentTypes'
  <2>1. CASE HandOut(w, i)
    BY <2>1, CountMoves DEF HandOut, AgentTypes
  <2>2. CASE HandOutLost(w, i)
    BY <1>1, <2>2 DEF HandOutLost
  <2>3. CASE LaunchSucceeds(w, i)
    BY <2>3, CountMoves DEF LaunchSucceeds, AgentTypes
  <2>4. CASE LaunchFails(w, i)
    BY <2>4, CountMoves DEF LaunchFails, AgentTypes
  <2>5. CASE SessionEnds(w, i)
    <3>1. running[w][i] \in Nat /\ running[w][i] > Cardinality(Starting(w, i))
      BY <2>5 DEF SessionEnds, AgentTypes, Counts
    <3>2. running[w][i] > 0
      BY <3>1, StartingSize
    <3>3. up' = up /\ launching' = launching /\ running' = Ended(running, w, i)
      BY <2>5 DEF SessionEnds
    <3> QED
      BY <3>2, <3>3, CountMoves DEF AgentTypes
  <2> QED
    BY <1>3, <2>1, <2>2, <2>3, <2>4, <2>5
<1>4. ASSUME NEW w \in Workers,
             AgentStart(w) \/ AgentHeartbeat(w) \/ AgentPoll(w) \/ PollNothing(w) \/ WorkerCrash(w)
      PROVE  AgentTypes'
  <2>1. CASE AgentStart(w)
    BY <2>1 DEF AgentStart, AgentTypes
  <2>2. CASE WorkerCrash(w)
    <3>1. /\ up' = up \ {w}
          /\ launching' = [launching EXCEPT ![w] = [i \in Items |-> 0]]
          /\ running' = [running EXCEPT ![w] = [i \in Items |-> 0]]
      BY <2>2 DEF WorkerCrash
    <3> QED
      BY <3>1, CrashMoves DEF AgentTypes
  <2> QED
    BY <1>1, <1>4, <2>1, <2>2 DEF AgentHeartbeat, AgentPoll, PollNothing
<1>5. ASSUME NEW i \in Items,
             Submission(i) \/ DeregisterClears(i) \/ BackoffEnds(i) \/ ClaimExpires(i)
      PROVE  AgentTypes'
  BY <1>1, <1>5 DEF Submission, DeregisterClears, BackoffEnds, ClaimExpires
<1>6. ASSUME NEW h \in Handlers, Serve(h) PROVE AgentTypes'
  BY <1>1, <1>6 DEF Serve
<1>7. CASE Operator
  BY <1>1, <1>7 DEF Operator
<1> QED
  BY <1>2, <1>3, <1>4, <1>5, <1>6, <1>7 DEF SystemNext

\* The first state has the types.
LEMMA SystemTypeInit == SystemInit => SystemTypeOK
<1> SUFFICES ASSUME SystemInit PROVE SystemTypeOK
  OBVIOUS
<1>1. TypeOK
  BY TypeInit DEF SystemInit
<1> QED
  BY <1>1 DEF SystemInit, SystemTypeOK

\* Every step keeps them: the coordinator's by Projects and TypeStep.
LEMMA SystemTypeStep == SystemTypeOK /\ [SystemNext]_sysVars => SystemTypeOK'
<1> SUFFICES ASSUME SystemTypeOK, [SystemNext]_sysVars PROVE SystemTypeOK'
  OBVIOUS
<1>1. TypeOK'
  BY Projects, TypeStep DEF SystemTypeOK
<1>2. AgentTypes'
  BY AgentTypesKept DEF SystemTypeOK, AgentTypes, Counts
<1>3. disturbed' \in Nat
  BY DisturbedMoves DEF SystemTypeOK
<1> QED
  BY <1>1, <1>2, <1>3 DEF SystemTypeOK, AgentTypes, Counts

\* Under every disturbance the books of the coordinator and the agents keep their
\* types: the budget that Complete, fail and Reap release into never turns
\* negative, and the agent's active sessions (worker.go) are never fewer than none.
THEOREM SystemTypeCorrect == SystemSpec => []SystemTypeOK
BY SystemTypeInit, SystemTypeStep, PTL DEF SystemSpec

-----------------------------------------------------------------------------
(* Custody: frames. *)

\* A step leaves item j where it is: at most executions end.
Undisturbed(j) ==
    /\ work'[j] = work[j]
    /\ j \in items' <=> j \in items
    /\ j \in dlq' => j \in dlq
    /\ submit'[j] \in {"new", "checked"} => submit[j] \in {"new", "checked"}
    /\ \A w \in Workers : launching'[w][j] \in {launching[w][j], 0}
    /\ \A w \in Workers : running'[w][j] \in {running[w][j], 0}
    /\ \A h \in Handlers : call'[h] = call[h] \/ (~On(h, j) /\ ~On(h, j)')

\* A handler at a step is on its item.
LEMMA AtIsOn ==
    ASSUME NEW h, NEW i, NEW S, At(h, S, i), "idle" \notin S
    PROVE  On(h, i)
BY DEF At, On, Idle

\* What a step leaves where it is stays in custody.
LEMMA UndisturbedKept ==
    ASSUME NEW j \in Items, Custody(j), Undisturbed(j)
    PROVE  Custody(j)'
<1>1. ASSUME NEW h \in Handlers, On(h, j)' PROVE On(h, j) /\ call'[h] = call[h]
  BY <1>1 DEF Undisturbed, On
<1>2. ASSUME NEW h \in Handlers, NEW s, s # "idle", At(h, {s}, j) PROVE At(h, {s}, j)'
  <2>1. On(h, j)
    BY <1>2, AtIsOn
  <2>2. call'[h] = call[h]
    BY <2>1 DEF Undisturbed
  <2> QED
    BY <1>2, <2>2 DEF At
<1>3. /\ work'[j] = work[j]
      /\ j \in items' <=> j \in items
      /\ j \in dlq' => j \in dlq
      /\ submit'[j] \in {"new", "checked"} => submit[j] \in {"new", "checked"}
      /\ \A w \in Workers : launching'[w][j] \in {launching[w][j], 0}
      /\ \A w \in Workers : running'[w][j] \in {running[w][j], 0}
  BY DEF Undisturbed
<1>4. LaunchIsClaimed(j)'
  <2> SUFFICES ASSUME NEW w \in Workers, launching'[w][j] > 0
               PROVE  /\ launching'[w][j] = 1
                      /\ work'[j].status = "assigned"
                      /\ work'[j].owner = w
                      /\ \A v \in Workers : running'[v][j] = 0
                      /\ \A h \in Handlers : ~On(h, j)'
    BY DEF LaunchIsClaimed
  <2>1. launching'[w][j] = launching[w][j] /\ launching[w][j] > 0
    BY <1>3
  <2>2. /\ launching[w][j] = 1
        /\ work[j].status = "assigned"
        /\ work[j].owner = w
        /\ \A v \in Workers : running[v][j] = 0
        /\ \A h \in Handlers : ~On(h, j)
    BY <2>1 DEF Custody, LaunchIsClaimed
  <2> QED
    BY <1>1, <1>3, <2>1, <2>2
<1>5. SessionIsOwned(j)'
  <2> SUFFICES ASSUME NEW w \in Workers, running'[w][j] > 0
               PROVE  /\ running'[w][j] = 1
                      /\ work'[j].owner = w
                      /\ \/ work'[j].status = "assigned" /\ \E h \in Handlers : At(h, {"start"}, j)'
                         \/ work'[j].status = "running"
                      /\ \A h \in Handlers : On(h, j)' => call'[h].step \in {"start", "start_owner"}
    BY DEF SessionIsOwned
  <2>1. running'[w][j] = running[w][j] /\ running[w][j] > 0
    BY <1>3
  <2>2. /\ running[w][j] = 1
        /\ work[j].owner = w
        /\ \/ work[j].status = "assigned" /\ \E h \in Handlers : At(h, {"start"}, j)
           \/ work[j].status = "running"
        /\ \A h \in Handlers : On(h, j) => call[h].step \in {"start", "start_owner"}
    BY <2>1 DEF Custody, SessionIsOwned
  <2> QED
    BY <1>1, <1>2, <1>3, <2>1, <2>2
<1>6. CallIsDue(j)'
  <2> SUFFICES ASSUME NEW h \in Handlers, On(h, j)'
               PROVE  /\ j \in items'
                      /\ \A g \in Handlers : On(g, j)' => g = h
                      /\ Due(h, j)'
    BY DEF CallIsDue
  <2>1. On(h, j) /\ call'[h] = call[h]
    BY <1>1
  <2>2. \A g \in Handlers : On(g, j)' => g = h
    BY <1>1, <2>1 DEF Custody, CallIsDue
  <2>3. Due(h, j)'
    BY <1>3, <2>1 DEF Custody, CallIsDue, Due
  <2> QED
    BY <1>3, <2>1, <2>2, <2>3 DEF Custody, CallIsDue
<1>7. RecordInPlace(j)'
  <2>1. work[j].status = "pending" =>
          work[j].owner = NoWorker \/ \E h \in Handlers : At(h, {"fail_clear"}, j)
    BY DEF Custody, RecordInPlace
  <2>2. work'[j].status = "pending" =>
          work'[j].owner = NoWorker \/ \E h \in Handlers : At(h, {"fail_clear"}, j)'
    BY <1>2, <1>3, <2>1
  <2> QED
    BY <1>3, <2>2 DEF Custody, RecordInPlace
<1> QED
  BY <1>4, <1>5, <1>6, <1>7 DEF Custody

\* A step about one item has to be looked at for that item only.
LEMMA Elsewhere ==
    ASSUME InCustody, NEW i \in Items, clearing' = {}, Custody(i)',
           \A j \in Items : j # i => Undisturbed(j)
    PROVE  InCustody'
BY UndisturbedKept DEF InCustody

\* A step about no item keeps custody.
LEMMA Everywhere ==
    ASSUME InCustody, clearing' = {}, \A j \in Items : Undisturbed(j)
    PROVE  InCustody'
BY UndisturbedKept DEF InCustody

-----------------------------------------------------------------------------
(* Custody: the steps of the handlers. *)

\* An item that nobody executes is in custody when its record and its call
\* agree.
LEMMA Resting ==
    ASSUME NEW i, \A w \in Workers : launching'[w][i] = 0 /\ running'[w][i] = 0,
           CallIsDue(i)', RecordInPlace(i)'
    PROVE  Custody(i)'
<1>1. \A w \in Workers : ~(launching'[w][i] > 0) /\ ~(running'[w][i] > 0)
  OBVIOUS
<1> QED
  BY <1>1 DEF Custody, LaunchIsClaimed, SessionIsOwned

\* The calls about an item are due when the only one is.
LEMMA DueAlone ==
    ASSUME NEW i, NEW h \in Handlers, \A g \in Handlers : g # h => ~On(g, i)',
           i \in items', Due(h, i)'
    PROVE  CallIsDue(i)'
BY DEF CallIsDue

\* Nothing is due about an item that no call is about.
LEMMA NoneDue ==
    ASSUME NEW i, \A g \in Handlers : ~On(g, i)'
    PROVE  CallIsDue(i)'
BY DEF CallIsDue

\* What is known of the item a handler serves.
LEMMA ServedItem ==
    ASSUME TypeOK, AgentTypes, InCustody, NEW h \in Handlers, NEW i \in Items,
           call[h].step # "idle", call[h].item = i
    PROVE  /\ On(h, i)
           /\ i \in items /\ i \notin dlq
           /\ submit[i] \notin {"new", "checked"}
           /\ \A g \in Handlers : g # h => ~On(g, i)
           /\ Due(h, i)
           /\ \A w \in Workers : launching[w][i] = 0
           /\ call[h].step \notin {"start", "start_owner"} =>
                 \A w \in Workers : running[w][i] = 0
<1>1. On(h, i)
  BY DEF On, Idle
<1>2. /\ i \in items
      /\ \A g \in Handlers : On(g, i) => g = h
      /\ Due(h, i)
  BY <1>1 DEF InCustody, Custody, CallIsDue
<1>3. i \notin dlq /\ submit[i] \notin {"new", "checked"}
  BY <1>2 DEF InCustody, Custody, RecordInPlace
<1>4. ASSUME NEW w \in Workers PROVE launching[w][i] = 0
  <2>1. launching[w][i] \in Nat
    BY DEF AgentTypes, Counts
  <2>2. ~(launching[w][i] > 0)
    BY <1>1 DEF InCustody, Custody, LaunchIsClaimed
  <2> QED
    BY <2>1, <2>2
<1>5. ASSUME NEW w \in Workers, call[h].step \notin {"start", "start_owner"}
      PROVE  running[w][i] = 0
  <2>1. running[w][i] \in Nat
    BY DEF AgentTypes, Counts
  <2>2. ~(running[w][i] > 0)
    BY <1>1, <1>5 DEF InCustody, Custody, SessionIsOwned
  <2> QED
    BY <2>1, <2>2
<1> QED
  BY <1>1, <1>2, <1>3, <1>4, <1>5

\* A handler goes on with its item, or returns.
LEMMA Advances ==
    ASSUME TypeOK, NEW h \in Handlers, NEW i \in Items, NEW s \in CallSteps,
           call[h].step # "idle", call[h].item = i, Advance(h, s)
    PROVE  /\ clearing' = clearing
           /\ call'[h].step = s
           /\ call'[h].item = i
           /\ call'[h].worker = call[h].worker
           /\ \A g \in Handlers : g # h => call'[g] = call[g]
           /\ \A j \in Items : j # i => ~On(h, j) /\ ~On(h, j)'
           /\ \A g \in Handlers, j \in Items : g # h => (On(g, j)' <=> On(g, j))
<1>1. call \in [Handlers -> Calls \cup {Idle}] /\ call[h] \in Calls
  BY CallTypes DEF TypeOK
<1>2. call' = [call EXCEPT ![h] = [call[h] EXCEPT !.step = s]] /\ clearing' = clearing
  BY DEF Advance
<1>3. call'[h] = [call[h] EXCEPT !.step = s] /\ \A g \in Handlers : g # h => call'[g] = call[g]
  BY <1>1, <1>2
<1>4. call'[h].step = s /\ call'[h].item = i /\ call'[h].worker = call[h].worker
  BY <1>1, <1>3 DEF Calls
<1> QED
  BY <1>2, <1>3, <1>4 DEF On

\* What a handler that returns changes.
LEMMA Returns ==
    ASSUME TypeOK, NEW h \in Handlers, NEW i \in Items,
           call[h].step # "idle", call[h].item = i, Return(h)
    PROVE  /\ clearing' = clearing
           /\ \A g \in Handlers : g # h => call'[g] = call[g]
           /\ \A j \in Items : j # i => ~On(h, j)
           /\ \A j \in Items : ~On(h, j)'
           /\ \A g \in Handlers, j \in Items : g # h => (On(g, j)' <=> On(g, j))
<1>1. call \in [Handlers -> Calls \cup {Idle}]
  BY DEF TypeOK
<1>2. call' = [call EXCEPT ![h] = Idle] /\ clearing' = clearing
  BY DEF Return
<1>3. call'[h] = Idle /\ \A g \in Handlers : g # h => call'[g] = call[g]
  BY <1>1, <1>2
<1> QED
  BY <1>2, <1>3 DEF On

\* A handler's step does not concern the other items.
LEMMA ServedElsewhere ==
    ASSUME TypeOK, NEW h \in Handlers, NEW i \in Items,
           call[h].step # "idle", call[h].item = i,
           (\E s \in CallSteps : Advance(h, s)) \/ Return(h),
           UNCHANGED <<agentVars, submit>>,
           \A j \in Items : j # i => /\ work'[j] = work[j]
                                     /\ j \in items' <=> j \in items
                                     /\ j \in dlq' => j \in dlq
    PROVE  \A j \in Items : j # i => Undisturbed(j)
<1> SUFFICES ASSUME NEW j \in Items, j # i PROVE Undisturbed(j)
  OBVIOUS
<1>1. \A g \in Handlers : call'[g] = call[g] \/ (~On(g, j) /\ ~On(g, j)')
  BY Advances, Returns
<1>2. launching' = launching /\ running' = running /\ submit' = submit
  BY DEF agentVars
<1> QED
  BY <1>1, <1>2 DEF Undisturbed

\* Custody is kept by a handler that goes on about an item nobody executes.
LEMMA Advancing ==
    ASSUME TypeOK, AgentTypes, InCustody, NEW h \in Handlers, NEW i \in Items,
           NEW s \in CallSteps, call[h].step # "idle", call[h].item = i,
           call[h].step \notin {"start", "start_owner"},
           Advance(h, s), UNCHANGED <<agentVars, submit, items, dlq>>,
           \A j \in Items : j # i => work'[j] = work[j],
           Due(h, i)',
           work'[i].status \in Active => work'[i].owner \in CanRun[i],
           work'[i].status = "pending" => s = "fail_clear"
    PROVE  InCustody'
<1>1. /\ i \in items /\ i \notin dlq /\ submit[i] \notin {"new", "checked"}
      /\ \A g \in Handlers : g # h => ~On(g, i)
      /\ \A w \in Workers : launching[w][i] = 0 /\ running[w][i] = 0
  BY ServedItem
<1>2. /\ clearing' = clearing /\ call'[h].step = s /\ call'[h].item = i
      /\ \A g \in Handlers : g # h => ~On(g, i)'
  BY <1>1, Advances
<1>3. \A w \in Workers : launching'[w][i] = 0 /\ running'[w][i] = 0
  BY <1>1 DEF agentVars
<1>4. i \in items' /\ i \notin dlq' /\ submit'[i] \notin {"new", "checked"}
  BY <1>1
<1>5. CallIsDue(i)'
  BY <1>2, <1>4, DueAlone
<1>6. s = "fail_clear" => At(h, {"fail_clear"}, i)'
  BY <1>2 DEF At
<1>7. RecordInPlace(i)'
  BY <1>4, <1>6 DEF RecordInPlace
<1>8. Custody(i)'
  BY <1>3, <1>5, <1>7, Resting
<1>9. \A j \in Items : j # i => Undisturbed(j)
  BY ServedElsewhere
<1>10. clearing' = {}
  BY <1>2 DEF InCustody
<1> QED
  BY <1>8, <1>9, <1>10, Elsewhere

\* And by one that is done with it.
LEMMA Returning ==
    ASSUME TypeOK, AgentTypes, InCustody, NEW h \in Handlers, NEW i \in Items,
           call[h].step # "idle", call[h].item = i,
           call[h].step \notin {"start", "start_owner"},
           Return(h), UNCHANGED <<agentVars, submit>>,
           \A j \in Items : j # i => /\ work'[j] = work[j]
                                     /\ j \in items' <=> j \in items
                                     /\ j \in dlq' => j \in dlq,
           ~(i \in items' /\ i \in dlq'),
           work'[i].status \notin Active,
           work'[i].status = "pending" => work'[i].owner = NoWorker
    PROVE  InCustody'
<1>1. /\ submit[i] \notin {"new", "checked"}
      /\ \A g \in Handlers : g # h => ~On(g, i)
      /\ \A w \in Workers : launching[w][i] = 0 /\ running[w][i] = 0
  BY ServedItem
<1>2. clearing' = clearing /\ \A g \in Handlers : ~On(g, i)'
  BY <1>1, Returns
<1>3. \A w \in Workers : launching'[w][i] = 0 /\ running'[w][i] = 0
  BY <1>1 DEF agentVars
<1>4. CallIsDue(i)'
  BY <1>2, NoneDue
<1>5. RecordInPlace(i)'
  BY <1>1 DEF RecordInPlace
<1>6. Custody(i)'
  BY <1>3, <1>4, <1>5, Resting
<1>7. \A j \in Items : j # i => Undisturbed(j)
  BY ServedElsewhere
<1>8. clearing' = {}
  BY <1>2 DEF InCustody
<1> QED
  BY <1>6, <1>7, <1>8, Elsewhere

\* StartWork makes the item running for the worker that was given it.
LEMMA CustodyStarted ==
    ASSUME TypeOK, AgentTypes, InCustody, NEW h \in Handlers,
           MarkRunning(h) \/ TakeOver(h), UNCHANGED agentVars
    PROVE  InCustody'
<1>0. call[h].step # "idle" /\ call[h].step \in {"start", "start_owner"}
  BY DEF MarkRunning, TakeOver
<1>1. PICK i \in Items : call[h].item = i
  BY <1>0, CallTypes
<1>2. /\ i \in items /\ i \notin dlq /\ submit[i] \notin {"new", "checked"}
      /\ \A g \in Handlers : g # h => ~On(g, i)
      /\ Due(h, i) /\ On(h, i)
      /\ \A w \in Workers : launching[w][i] = 0
  BY <1>0, <1>1, ServedItem
<1>3. work \in [Items -> WorkRecords] /\ work[i] \in WorkRecords
  BY DEF TypeOK
<1>4. CASE MarkRunning(h)
  <2>1. /\ call[h].step = "start" /\ Advance(h, "start_owner")
        /\ work' = [work EXCEPT ![i].status = "running"]
        /\ UNCHANGED <<items, dlq, submit>>
    BY <1>1, <1>4 DEF MarkRunning, SetStatusOf
  <2>2. /\ clearing' = clearing /\ call'[h].step = "start_owner"
        /\ call'[h].item = i /\ call'[h].worker = call[h].worker
        /\ \A g \in Handlers : g # h => ~On(g, i)'
    BY <1>0, <1>1, <1>2, <2>1, Advances DEF CallSteps
  <2>3. /\ work'[i].status = "running" /\ work'[i].owner = work[i].owner
        /\ \A j \in Items : j # i => work'[j] = work[j]
    BY <1>3, <2>1 DEF WorkRecords
  <2>4. work[i].status = "assigned" /\ work[i].owner = call[h].worker
    BY <1>2, <2>1 DEF Due
  <2>5. \A w \in Workers : launching'[w][i] = launching[w][i] /\ running'[w][i] = running[w][i]
    BY DEF agentVars
  <2>6. LaunchIsClaimed(i)'
    BY <1>2, <2>5 DEF LaunchIsClaimed
  <2>7. SessionIsOwned(i)'
    <3> SUFFICES ASSUME NEW w \in Workers, running'[w][i] > 0
                 PROVE  /\ running'[w][i] = 1
                        /\ work'[i].owner = w
                        /\ work'[i].status = "running"
                        /\ \A g \in Handlers :
                              On(g, i)' => call'[g].step \in {"start", "start_owner"}
      BY DEF SessionIsOwned
    <3>1. running[w][i] = 1 /\ work[i].owner = w
      BY <2>5 DEF InCustody, Custody, SessionIsOwned
    <3> QED
      BY <2>2, <2>3, <2>5, <3>1
  <2>8. CallIsDue(i)'
    <3>1. Due(h, i)'
      BY <2>2, <2>3, <2>4 DEF Due
    <3> QED
      BY <1>2, <2>1, <2>2, <3>1, DueAlone
  <2>9. RecordInPlace(i)'
    <3>1. work[i].owner \in CanRun[i]
      BY <2>4 DEF InCustody, Custody, RecordInPlace, Active
    <3> QED
      BY <1>2, <2>1, <2>3, <3>1 DEF RecordInPlace
  <2>10. \A j \in Items : j # i => Undisturbed(j)
    <3>1. UNCHANGED <<agentVars, submit>>
      BY <2>1
    <3> QED
      BY <1>0, <1>1, <2>1, <2>3, <3>1, ServedElsewhere DEF CallSteps
  <2> QED
    BY <2>2, <2>6, <2>7, <2>8, <2>9, <2>10, Elsewhere DEF Custody, InCustody
<1>5. CASE TakeOver(h)
  <2>1. /\ call[h].step = "start_owner" /\ Return(h)
        /\ work' = [work EXCEPT ![i].owner = call[h].worker]
        /\ items' = items \cup {i}
        /\ UNCHANGED <<dlq, submit>>
    BY <1>1, <1>5 DEF TakeOver
  <2>2. clearing' = clearing /\ \A g \in Handlers : ~On(g, i)'
    BY <1>0, <1>1, <1>2, <2>1, Returns
  <2>3. work[i].status = "running" /\ work[i].owner = call[h].worker
    BY <1>2, <2>1 DEF Due
  <2>4. /\ work'[i].status = "running" /\ work'[i].owner = work[i].owner
        /\ \A j \in Items : j # i => work'[j] = work[j]
    BY <1>3, <2>1, <2>3 DEF WorkRecords
  <2>5. \A w \in Workers : launching'[w][i] = launching[w][i] /\ running'[w][i] = running[w][i]
    BY DEF agentVars
  <2>6. LaunchIsClaimed(i)'
    BY <1>2, <2>5 DEF LaunchIsClaimed
  <2>7. SessionIsOwned(i)'
    <3> SUFFICES ASSUME NEW w \in Workers, running'[w][i] > 0
                 PROVE  /\ running'[w][i] = 1
                        /\ work'[i].owner = w
                        /\ work'[i].status = "running"
                        /\ \A g \in Handlers :
                              On(g, i)' => call'[g].step \in {"start", "start_owner"}
      BY DEF SessionIsOwned
    <3>1. running[w][i] = 1 /\ work[i].owner = w
      BY <2>5 DEF InCustody, Custody, SessionIsOwned
    <3> QED
      BY <2>2, <2>4, <2>5, <3>1
  <2>8. CallIsDue(i)'
    BY <2>2, NoneDue
  <2>9. RecordInPlace(i)'
    <3>1. work[i].owner \in CanRun[i]
      BY <2>3 DEF InCustody, Custody, RecordInPlace, Active
    <3> QED
      BY <1>2, <2>1, <2>4, <3>1 DEF RecordInPlace
  <2>10. \A j \in Items : j # i => Undisturbed(j)
    <3>1. UNCHANGED <<agentVars, submit>>
      BY <2>1
    <3> QED
      BY <1>0, <1>1, <2>1, <2>4, <3>1, ServedElsewhere
  <2> QED
    BY <2>2, <2>6, <2>7, <2>8, <2>9, <2>10, Elsewhere DEF Custody, InCustody
<1> QED
  BY <1>4, <1>5

\* CompleteWork, of a completed item.
LEMMA CustodyCompleted ==
    ASSUME TypeOK, AgentTypes, InCustody, NEW h \in Handlers,
           MarkCompleted(h) \/ BookCompleted(h), UNCHANGED agentVars
    PROVE  InCustody'
<1>0. call[h].step # "idle" /\ call[h].step \in {"complete", "complete_book"}
  BY DEF MarkCompleted, BookCompleted
<1>1. PICK i \in Items : call[h].item = i
  BY <1>0, CallTypes
<1>2. i \in items /\ i \notin dlq /\ Due(h, i)
  BY <1>0, <1>1, ServedItem
<1>3. work \in [Items -> WorkRecords] /\ work[i] \in WorkRecords
  BY DEF TypeOK
<1>4. CASE MarkCompleted(h)
  <2>1. /\ Advance(h, "complete_book")
        /\ work' = [work EXCEPT ![i].status = "completed"]
        /\ UNCHANGED <<items, dlq, submit>>
    BY <1>1, <1>4 DEF MarkCompleted, SetStatusOf
  <2>2. work'[i].status = "completed" /\ \A j \in Items : j # i => work'[j] = work[j]
    BY <1>3, <2>1
  <2>3. "complete_book" \in CallSteps /\ call[h].step \notin {"start", "start_owner"}
    BY <1>0 DEF CallSteps
  <2>4. call'[h].step = "complete_book"
    BY <1>0, <1>1, <2>1, <2>3, Advances
  <2>5. Due(h, i)'
    BY <2>2, <2>4 DEF Due
  <2>6. UNCHANGED <<agentVars, submit, items, dlq>>
    BY <2>1
  <2> QED
    BY <1>0, <1>1, <2>1, <2>2, <2>3, <2>5, <2>6, Advancing DEF Active
<1>5. CASE BookCompleted(h)
  <2>1. /\ call[h].step = "complete_book" /\ Return(h)
        /\ items' = items \cup {i}
        /\ UNCHANGED <<work, dlq, submit>>
    BY <1>1, <1>5 DEF BookCompleted
  <2>2. work'[i].status = "completed"
    BY <1>2, <2>1 DEF Due
  <2>3. UNCHANGED <<agentVars, submit>>
    BY <2>1
  <2>4. call[h].step \notin {"start", "start_owner"}
    BY <2>1
  <2> QED
    BY <1>0, <1>1, <1>2, <2>1, <2>2, <2>3, <2>4, Returning DEF Active
<1> QED
  BY <1>4, <1>5

\* CompleteWork, of a failed item that is tried again.
LEMMA CustodyRequeued ==
    ASSUME TypeOK, AgentTypes, InCustody, NEW h \in Handlers,
           JudgeFailed(h) \/ MarkRequeued(h) \/ ClearRequeued(h), UNCHANGED agentVars
    PROVE  InCustody'
<1>0. /\ call[h].step # "idle" /\ call[h].step \in {"fail", "fail_requeue", "fail_clear"}
      /\ call[h].step \notin {"start", "start_owner"}
  BY DEF JudgeFailed, MarkRequeued, ClearRequeued
<1>1. PICK i \in Items : call[h].item = i
  BY <1>0, CallTypes
<1>2. i \in items /\ i \notin dlq /\ Due(h, i)
  BY <1>0, <1>1, ServedItem
<1>3. work \in [Items -> WorkRecords] /\ work[i] \in WorkRecords
  BY DEF TypeOK
<1>4. CASE JudgeFailed(h)
  <2> DEFINE s == IF WillRetry(i) THEN "fail_requeue" ELSE "fail_bury"
  <2>1. /\ call[h].step = "fail" /\ Advance(h, s)
        /\ UNCHANGED <<items, dlq, work, submit>>
    BY <1>1, <1>4 DEF JudgeFailed, queueVars
  <2>2. s \in CallSteps /\ s \in {"fail_requeue", "fail_bury"}
    BY DEF CallSteps
  <2>3. s = "fail_requeue" => work[i].retries < MaxRetries
    BY DEF WillRetry
  <2>4. call'[h].step = s
    BY <1>0, <1>1, <2>1, <2>2, Advances
  <2>5. work[i].status \in Active
    BY <1>2, <2>1 DEF Due
  <2>6. Due(h, i)'
    BY <2>1, <2>2, <2>3, <2>4, <2>5 DEF Due
  <2>7. work[i].owner \in CanRun[i]
    BY <2>5 DEF InCustody, Custody, RecordInPlace
  <2>8. UNCHANGED <<agentVars, submit, items, dlq>>
    BY <2>1
  <2>9. /\ work'[i] = work[i] /\ work'[i].status # "pending"
        /\ \A j \in Items : j # i => work'[j] = work[j]
    BY <2>1, <2>5 DEF Active
  <2> HIDE DEF s
  <2> QED
    BY <1>0, <1>1, <2>1, <2>2, <2>6, <2>7, <2>8, <2>9, Advancing
<1>5. CASE MarkRequeued(h)
  <2>1. /\ call[h].step = "fail_requeue" /\ Advance(h, "fail_clear")
        /\ work' = [work EXCEPT ![i] = Requeued(work[i])]
        /\ UNCHANGED <<items, dlq, submit>>
    BY <1>1, <1>5 DEF MarkRequeued
  <2>2. work'[i].status = "pending" /\ \A j \in Items : j # i => work'[j] = work[j]
    BY <1>3, <2>1 DEF Requeued, WorkRecords
  <2>3. "fail_clear" \in CallSteps
    BY DEF CallSteps
  <2>4. call'[h].step = "fail_clear"
    BY <1>0, <1>1, <2>1, <2>3, Advances
  <2>5. Due(h, i)'
    BY <2>2, <2>4 DEF Due
  <2>6. UNCHANGED <<agentVars, submit, items, dlq>>
    BY <2>1
  <2> QED
    BY <1>0, <1>1, <2>1, <2>2, <2>3, <2>5, <2>6, Advancing DEF Active
<1>6. CASE ClearRequeued(h)
  <2>1. /\ call[h].step = "fail_clear" /\ Return(h)
        /\ work' = [work EXCEPT ![i] = Cleared(work[i])]
        /\ File(i) /\ submit' = submit
    BY <1>1, <1>6 DEF ClearRequeued
  <2>2. work[i].status = "pending"
    BY <1>2, <2>1 DEF Due
  <2>3. /\ work'[i].status = "pending" /\ work'[i].owner = NoWorker
        /\ \A j \in Items : j # i => work'[j] = work[j]
    BY <1>3, <2>1, <2>2 DEF Cleared, WorkRecords
  <2>4. items' = items \cup {i} /\ dlq' = dlq
    BY <2>1, <2>2 DEF File
  <2>5. UNCHANGED <<agentVars, submit>>
    BY <2>1
  <2> QED
    BY <1>0, <1>1, <1>2, <2>1, <2>3, <2>4, <2>5, Returning DEF Active
<1> QED
  BY <1>4, <1>5, <1>6

\* CompleteWork, of an item that failed for good.
LEMMA CustodyBuried ==
    ASSUME TypeOK, AgentTypes, InCustody, NEW h \in Handlers,
           MarkFailed(h) \/ FileFailed(h), UNCHANGED agentVars
    PROVE  InCustody'
<1>0. /\ call[h].step # "idle" /\ call[h].step \in {"fail_bury", "fail_file"}
      /\ call[h].step \notin {"start", "start_owner"}
  BY DEF MarkFailed, FileFailed
<1>1. PICK i \in Items : call[h].item = i
  BY <1>0, CallTypes
<1>2. i \in items /\ i \notin dlq /\ Due(h, i)
  BY <1>0, <1>1, ServedItem
<1>3. work \in [Items -> WorkRecords] /\ work[i] \in WorkRecords
  BY DEF TypeOK
<1>4. CASE MarkFailed(h)
  <2>1. /\ Advance(h, "fail_file")
        /\ work' = [work EXCEPT ![i].status = "failed"]
        /\ UNCHANGED <<items, dlq, submit>>
    BY <1>1, <1>4 DEF MarkFailed, SetStatusOf
  <2>2. work'[i].status = "failed" /\ \A j \in Items : j # i => work'[j] = work[j]
    BY <1>3, <2>1 DEF WorkRecords
  <2>3. "fail_file" \in CallSteps
    BY DEF CallSteps
  <2>4. call'[h].step = "fail_file"
    BY <1>0, <1>1, <2>1, <2>3, Advances
  <2>5. Due(h, i)'
    BY <2>2, <2>4 DEF Due
  <2>6. UNCHANGED <<agentVars, submit, items, dlq>>
    BY <2>1
  <2> QED
    BY <1>0, <1>1, <2>1, <2>2, <2>3, <2>5, <2>6, Advancing DEF Active
<1>5. CASE FileFailed(h)
  <2>1. /\ call[h].step = "fail_file" /\ Return(h)
        /\ File(i) /\ work' = work /\ submit' = submit
    BY <1>1, <1>5 DEF FileFailed
  <2>2. work[i].status = "failed"
    BY <1>2, <2>1 DEF Due
  <2>3. items' = items \ {i} /\ dlq' = dlq \cup {i}
    BY <2>1, <2>2 DEF File
  <2>4. UNCHANGED <<agentVars, submit>>
    BY <2>1
  <2> QED
    BY <1>0, <1>1, <1>2, <2>1, <2>2, <2>3, <2>4, Returning DEF Active
<1> QED
  BY <1>4, <1>5

\* Without cancels no handler is about to write one.
LEMMA NeverCancelled ==
    ASSUME TypeOK, AgentTypes, InCustody, NEW h \in Handlers
    PROVE  ~MarkCancelled(h) /\ ~ClearCancelled(h)
<1> SUFFICES ASSUME call[h].step \in {"cancel", "cancel_clear"} PROVE FALSE
  BY DEF MarkCancelled, ClearCancelled
<1>1. call[h].step # "idle"
  OBVIOUS
<1>2. PICK i \in Items : call[h].item = i
  BY <1>1, CallTypes
<1> QED
  BY <1>1, <1>2, ServedItem DEF Due

\* So every step of a handler keeps custody.
LEMMA CustodyServe ==
    ASSUME TypeOK, AgentTypes, InCustody, NEW h \in Handlers, Serve(h)
    PROVE  InCustody'
<1>1. HandlerStep(h) /\ UNCHANGED agentVars
  BY DEF Serve
<1>2. ~MarkCancelled(h) /\ ~ClearCancelled(h)
  BY NeverCancelled
<1> QED
  BY <1>1, <1>2, CustodyStarted, CustodyCompleted, CustodyRequeued, CustodyBuried
     DEF HandlerStep

-----------------------------------------------------------------------------
(* Custody: submissions, time and the operator. *)

\* In a reliable fleet these disturbances do not occur.
LEMMA NotDisturbed ==
    ASSUME Reliable,
           NEW k \in {"start_lost", "slow_launch", "torn", "cancel", "deregister", "restart"}
    PROVE  k \notin Disturbances /\ ~Disturb(k)
BY DEF Reliable, Disturb

\* A step that leaves the calls and the executions alone leaves each item
\* alone whose record and queues it does not touch.
LEMMA StillElsewhere ==
    ASSUME UNCHANGED <<agentVars, call>>, NEW j \in Items,
           work'[j] = work[j],
           j \in items' <=> j \in items,
           j \in dlq' => j \in dlq,
           submit'[j] \in {"new", "checked"} => submit[j] \in {"new", "checked"}
    PROVE  Undisturbed(j)
BY DEF Undisturbed, agentVars

\* Nobody executes or serves an item that is not claimed, not running and not
\* being requeued.
LEMMA AtRest ==
    ASSUME TypeOK, AgentTypes, InCustody, NEW i \in Items, work[i].status \notin Active
    PROVE  \A w \in Workers : launching[w][i] = 0 /\ running[w][i] = 0
<1> SUFFICES ASSUME NEW w \in Workers PROVE launching[w][i] = 0 /\ running[w][i] = 0
  OBVIOUS
<1>1. launching[w][i] \in Nat /\ running[w][i] \in Nat
  BY DEF AgentTypes, Counts
<1>2. ~(launching[w][i] > 0) /\ ~(running[w][i] > 0)
  BY DEF InCustody, Custody, LaunchIsClaimed, SessionIsOwned, Active
<1> QED
  BY <1>1, <1>2

\* A submission is about an item that nothing else knows.
LEMMA CustodySubmission ==
    ASSUME TypeOK, AgentTypes, InCustody, NEW i \in Items, Submission(i)
    PROVE  InCustody'
<1>0. /\ SubmitCheck(i) \/ SubmitReject(i) \/ SubmitReserve(i) \/ SubmitPush(i)
      /\ UNCHANGED agentVars
  BY DEF Submission
<1>1. CASE SubmitCheck(i) \/ SubmitReject(i) \/ SubmitReserve(i)
  <2>1. /\ UNCHANGED <<items, dlq, work, call, clearing>>
        /\ \A j \in Items : submit'[j] \in {"new", "checked"} => submit[j] \in {"new", "checked"}
    BY <1>1 DEF TypeOK, SubmitCheck, SubmitReject, SubmitReserve, queueVars, callVars
  <2>2. UNCHANGED <<agentVars, call>>
    BY <1>0, <2>1
  <2>3. ASSUME NEW j \in Items PROVE Undisturbed(j)
    BY <2>1, <2>2, StillElsewhere
  <2> QED
    BY <2>1, <2>3, Everywhere DEF InCustody
<1>2. CASE SubmitPush(i)
  <2>1. /\ submit[i] = "checked" /\ items' = items \cup {i} /\ UNCHANGED <<dlq, call, clearing>>
        /\ work'[i] = NewWork /\ submit'[i] = "pushed"
        /\ \A j \in Items : j # i => work'[j] = work[j] /\ submit'[j] = submit[j]
    BY <1>2 DEF TypeOK, SubmitPush, callVars
  <2>2. i \notin items /\ i \notin dlq /\ work[i] = NewWork
    BY <2>1 DEF InCustody, Custody, RecordInPlace
  <2>3. NewWork.status = "pending" /\ NewWork.owner = NoWorker
    BY DEF NewWork
  <2>4. \A w \in Workers : launching'[w][i] = 0 /\ running'[w][i] = 0
    BY <1>0, <2>2, <2>3, AtRest DEF Active, agentVars
  <2>5. \A g \in Handlers : ~On(g, i)'
    BY <2>1, <2>2 DEF InCustody, Custody, CallIsDue, On
  <2>6. RecordInPlace(i)'
    BY <2>1, <2>2, <2>3 DEF RecordInPlace, Active
  <2>7. Custody(i)'
    BY <2>4, <2>5, <2>6, Resting, NoneDue
  <2>8. UNCHANGED <<agentVars, call>>
    BY <1>0, <2>1
  <2>9. \A j \in Items : j # i => Undisturbed(j)
    BY <2>1, <2>8, StillElsewhere
  <2> QED
    BY <2>1, <2>7, <2>9, Elsewhere DEF InCustody
<1> QED
  BY <1>0, <1>1, <1>2

\* The end of a backoff changes neither status nor owner.
LEMMA CustodyBackoff ==
    ASSUME TypeOK, AgentTypes, InCustody, NEW i \in Items, BackoffEnds(i)
    PROVE  InCustody'
<1>1. /\ UNCHANGED <<items, dlq, submit, call, clearing>> /\ UNCHANGED agentVars
      /\ work' = [work EXCEPT ![i].backoff = FALSE]
  BY DEF BackoffEnds, BackoffElapsed, callVars
<1>2. work \in [Items -> WorkRecords] /\ work[i] \in WorkRecords
  BY DEF TypeOK
<1>3. /\ work'[i].status = work[i].status /\ work'[i].owner = work[i].owner
      /\ work'[i].retries = work[i].retries
      /\ \A j \in Items : j # i => work'[j] = work[j]
  BY <1>1, <1>2 DEF WorkRecords
<1>4. launching' = launching /\ running' = running
  BY <1>1 DEF agentVars
<1>5. work[i].backoff
  BY DEF BackoffEnds, BackoffElapsed
<1>6. Custody(i)
  BY DEF InCustody
<1>7. LaunchIsClaimed(i)' /\ SessionIsOwned(i)'
  BY <1>1, <1>3, <1>4, <1>6 DEF Custody, LaunchIsClaimed, SessionIsOwned, On, At
<1>8. CallIsDue(i)'
  BY <1>1, <1>3, <1>6 DEF Custody, CallIsDue, Due, On
<1>9. RecordInPlace(i)'
  <2>1. NewWork.backoff = FALSE
    BY DEF NewWork
  <2>2. work[i] # NewWork
    BY <1>5, <2>1
  <2>3. submit[i] \notin {"new", "checked"}
    BY <1>6, <2>2 DEF Custody, RecordInPlace
  <2> QED
    BY <1>1, <1>3, <1>6, <2>3 DEF Custody, RecordInPlace, At
<1>10. UNCHANGED <<agentVars, call>>
  BY <1>1
<1>11. \A j \in Items : j # i => Undisturbed(j)
  BY <1>1, <1>3, <1>10, StillElsewhere
<1> QED
  BY <1>1, <1>7, <1>8, <1>9, <1>11, Elsewhere DEF InCustody, Custody

\* A claim that times out is nobody's.
LEMMA CustodyExpiry ==
    ASSUME TypeOK, AgentTypes, InCustody, Reliable, NEW i \in Items, ClaimExpires(i)
    PROVE  InCustody'
<1>1. ~ClaimHeld(i) /\ ReclaimTimedOut(i) /\ UNCHANGED agentVars
  BY NotDisturbed DEF ClaimExpires
<1>2. /\ UNCHANGED <<items, dlq, submit, call, clearing>>
      /\ work' = [work EXCEPT ![i] = Unassigned(work[i])]
      /\ i \in items /\ work[i].status = "assigned"
  BY <1>1 DEF ReclaimTimedOut, callVars
<1>3. work \in [Items -> WorkRecords] /\ work[i] \in WorkRecords
  BY DEF TypeOK
<1>4. /\ work'[i].status = "pending" /\ work'[i].owner = NoWorker
      /\ \A j \in Items : j # i => work'[j] = work[j]
  BY <1>2, <1>3 DEF Unassigned, Owned, WorkRecords
<1>5. \A h \in Handlers : ~On(h, i)
  <2> SUFFICES ASSUME NEW h \in Handlers, On(h, i) PROVE FALSE
    OBVIOUS
  <2>1. call[h] \in Calls
    BY DEF On, TypeOK
  <2>2. At(h, CallSteps, i)
    BY <2>1 DEF At, On, Calls
  <2> QED
    BY <1>1, <2>2 DEF ClaimHeld
<1>6. \A w \in Workers : launching'[w][i] = 0 /\ running'[w][i] = 0
  <2> SUFFICES ASSUME NEW w \in Workers PROVE launching[w][i] = 0 /\ running[w][i] = 0
    BY <1>1 DEF agentVars
  <2>1. launching[w][i] \in Nat /\ running[w][i] \in Nat
    BY DEF AgentTypes, Counts
  <2>2. ~(launching[w][i] > 0)
    BY <1>1 DEF ClaimHeld
  <2>3. ~ \E h \in Handlers : At(h, {"start"}, i)
    BY <1>5, AtIsOn
  <2>4. ~(running[w][i] > 0)
    BY <1>2, <2>3 DEF InCustody, Custody, SessionIsOwned
  <2> QED
    BY <2>1, <2>2, <2>4
<1>7. CallIsDue(i)'
  BY <1>2, <1>5 DEF CallIsDue, On
<1>8. RecordInPlace(i)'
  <2>1. i \notin dlq /\ submit[i] \notin {"new", "checked"}
    BY <1>2 DEF InCustody, Custody, RecordInPlace
  <2> QED
    BY <1>2, <1>4, <2>1 DEF RecordInPlace, Active
<1>9. UNCHANGED <<agentVars, call>>
  BY <1>1, <1>2
<1>10. \A j \in Items : j # i => Undisturbed(j)
  BY <1>2, <1>4, <1>9, StillElsewhere
<1> QED
  BY <1>2, <1>6, <1>7, <1>8, <1>10, Resting, Elsewhere DEF InCustody

\* The reaper takes an item that waits, an operator brings a dead one back.
LEMMA CustodyReapedOrReopened ==
    ASSUME TypeOK, AgentTypes, InCustody, NEW i \in Items, UNCHANGED agentVars,
           (Reap(i) /\ ~Clearing(i)) \/ RetryFromDLQ(i)
    PROVE  InCustody'
<1>1. /\ UNCHANGED <<submit, call, clearing>>
      /\ \A j \in Items : j # i => /\ work'[j] = work[j]
                                   /\ j \in items' <=> j \in items
                                   /\ j \in dlq' <=> j \in dlq
  BY DEF Reap, RetryFromDLQ, callVars, TypeOK
<1>2. \A j \in Items : j # i => Undisturbed(j)
  <2>1. UNCHANGED <<agentVars, call>>
    BY <1>1
  <2> QED
    BY <1>1, <2>1, StillElsewhere
<1>3. /\ work'[i].status = "pending" /\ work'[i].owner = NoWorker
      /\ ~(i \in items' /\ i \in dlq')
      /\ work[i].status \notin Active
      /\ \A h \in Handlers : ~On(h, i)
  <2>1. CASE Reap(i) /\ ~Clearing(i)
    <3>1. i \in items /\ work[i].status = "pending" /\ work' = work /\ i \notin items'
      BY <2>1 DEF Reap
    <3>2. \A h \in Handlers : ~At(h, {"fail_clear"}, i)
      BY <2>1 DEF Clearing
    <3>3. work[i].owner = NoWorker
      BY <3>1, <3>2 DEF InCustody, Custody, RecordInPlace
    <3>4. \A h \in Handlers : ~On(h, i)
      <4> SUFFICES ASSUME NEW h \in Handlers, On(h, i) PROVE FALSE
        OBVIOUS
      <4>1. call[h].step \in CallSteps
        BY DEF On, TypeOK, Calls
      <4>2. Due(h, i)
        BY DEF InCustody, Custody, CallIsDue
      <4>3. call[h].step = "fail_clear"
        BY <3>1, <4>1, <4>2 DEF Due, CallSteps, Active
      <4> QED
        BY <3>2, <4>3 DEF At, On
    <3> QED
      BY <3>1, <3>3, <3>4 DEF Active
  <2>2. CASE RetryFromDLQ(i)
    <3>1. i \in dlq /\ i \notin dlq' /\ work'[i] = NewWork
      BY <2>2 DEF RetryFromDLQ, TypeOK
    <3>2. i \notin items
      BY <3>1 DEF InCustody, Custody, RecordInPlace
    <3>3. work[i].status \notin Active
      BY <3>2 DEF InCustody, Custody, RecordInPlace
    <3>4. \A h \in Handlers : ~On(h, i)
      BY <3>2 DEF InCustody, Custody, CallIsDue
    <3> QED
      BY <3>1, <3>3, <3>4 DEF NewWork
  <2> QED
    BY <2>1, <2>2
<1>4. submit'[i] \notin {"new", "checked"}
  <2>1. i \in items \/ i \in dlq
    BY DEF Reap, RetryFromDLQ
  <2> QED
    BY <1>1, <2>1 DEF InCustody, Custody, RecordInPlace
<1>5. RecordInPlace(i)'
  BY <1>3, <1>4 DEF RecordInPlace, Active
<1>6. CallIsDue(i)'
  BY <1>1, <1>3 DEF CallIsDue, On
<1>7. \A w \in Workers : launching'[w][i] = 0 /\ running'[w][i] = 0
  BY <1>3, AtRest DEF agentVars
<1>8. Custody(i)'
  BY <1>5, <1>6, <1>7, Resting
<1> QED
  BY <1>1, <1>2, <1>8, Elsewhere DEF InCustody

\* What the operator and the maintenance loop do concerns resting items only.
LEMMA CustodyOperator ==
    ASSUME TypeOK, AgentTypes, InCustody, Reliable, Operator
    PROVE  InCustody'
<1>0. UNCHANGED agentVars
  BY DEF Operator
<1>1. CASE \E i \in Items : (Reap(i) /\ ~Clearing(i)) \/ RetryFromDLQ(i)
  BY <1>0, <1>1, CustodyReapedOrReopened
<1>2. CASE \E w \in Workers : PauseWorker(w) \/ DrainWorker(w) \/ ResumeWorker(w)
  <2>1. UNCHANGED <<items, dlq, work, submit, call, clearing>>
    BY <1>2 DEF PauseWorker, DrainWorker, ResumeWorker, SetStatus, queueVars, callVars
  <2>2. UNCHANGED <<agentVars, call>>
    BY <1>0, <2>1
  <2> QED
    BY <2>1, <2>2, StillElsewhere, Everywhere DEF InCustody
<1>3. CASE PurgeDLQ \/ \E l \in Limits : SetBudgetLimit(l)
  <2>1. /\ UNCHANGED <<items, work, call, clearing>> /\ dlq' \subseteq dlq
        /\ \A j \in Items : submit'[j] \in {"new", "checked"} => submit[j] \in {"new", "checked"}
    BY <1>3 DEF PurgeDLQ, SetBudgetLimit, queueVars, callVars
  <2>2. UNCHANGED <<agentVars, call>>
    BY <1>0, <2>1
  <2>3. ASSUME NEW j \in Items PROVE Undisturbed(j)
    BY <2>1, <2>2, StillElsewhere
  <2> QED
    BY <2>1, <2>3, Everywhere DEF InCustody
<1>4. ASSUME NEW i \in Items, Reap(i) /\ Disturb(IF Clearing(i) THEN "torn" ELSE "reap")
      PROVE  Reap(i) /\ ~Clearing(i)
  <2>1. CASE Clearing(i)
    BY <1>4, <2>1, NotDisturbed
  <2> QED
    BY <1>4, <2>1
<1>5. ~Disturb("cancel") /\ ~Disturb("deregister") /\ ~Disturb("restart")
      /\ "restart" \notin Disturbances
  BY NotDisturbed
<1> QED
  BY <1>1, <1>2, <1>3, <1>4, <1>5 DEF Operator

-----------------------------------------------------------------------------
(* Custody: the agents. *)

\* A lookup occupies one handler that was idle.
LEMMA LookedUp ==
    ASSUME TypeOK, NEW c \in Calls, NEW i \in Items, c.item = i, Lookup(c)
    PROVE  /\ UNCHANGED <<items, dlq, work, submit, clearing>>
           /\ \E h \in Handlers :
                 /\ call'[h] = c
                 /\ On(h, i)'
                 /\ \A j \in Items : ~On(h, j)
                 /\ \A j \in Items : j # i => ~On(h, j)'
                 /\ \A g \in Handlers : g # h => call'[g] = call[g]
<1>1. PICK h \in Handlers : call[h] = Idle /\ call' = [call EXCEPT ![h] = c]
  BY DEF Lookup
<1>2. call'[h] = c /\ \A g \in Handlers : g # h => call'[g] = call[g]
  BY <1>1 DEF TypeOK
<1>3. c # Idle
  BY DEF Calls, CallSteps, Idle
<1>4. On(h, i)' /\ \A j \in Items : ~On(h, j) /\ (j # i => ~On(h, j)')
  BY <1>1, <1>2, <1>3 DEF On
<1> QED
  BY <1>2, <1>4 DEF Lookup, queueVars

\* What is executed is in the queue, and nowhere else.
LEMMA Executed ==
    ASSUME InCustody, NEW w \in Workers, NEW i \in Items,
           launching[w][i] > 0 \/ running[w][i] > 0
    PROVE  /\ work[i].status \in Active
           /\ work[i].owner = w /\ w \in CanRun[i]
           /\ i \in items /\ i \notin dlq
           /\ submit[i] \notin {"new", "checked"}
<1>1. work[i].status \in Active /\ work[i].owner = w
  BY DEF InCustody, Custody, LaunchIsClaimed, SessionIsOwned, Active
<1> QED
  BY <1>1 DEF InCustody, Custody, RecordInPlace

\* The only execution of an item is the one its owner has.
LEMMA OnlyExecution ==
    ASSUME AgentTypes, InCustody, NEW w \in Workers, NEW i \in Items,
           launching[w][i] > 0 \/ running[w][i] > 0
    PROVE  \A v \in Workers : v # w => launching[v][i] = 0 /\ running[v][i] = 0
<1> SUFFICES ASSUME NEW v \in Workers, v # w PROVE launching[v][i] = 0 /\ running[v][i] = 0
  OBVIOUS
<1>1. ~(launching[v][i] > 0 \/ running[v][i] > 0)
  BY Executed
<1>2. launching[v][i] \in Nat /\ running[v][i] \in Nat
  BY DEF AgentTypes, Counts
<1> QED
  BY <1>1, <1>2

\* The queue hands an item out.
LEMMA CustodyHandedOut ==
    ASSUME TypeOK, AgentTypes, InCustody, Reliable, NEW w \in Workers, NEW i \in Items,
           HandOut(w, i) \/ HandOutLost(w, i)
    PROVE  InCustody'
<1>1. AssignBest(w, i) /\ ~Clearing(i)
  BY NotDisturbed DEF HandOut, HandOutLost, Assign
<1>2. /\ i \in items /\ work[i].status = "pending" /\ w \in CanRun[i]
      /\ work' = [work EXCEPT ![i] = Owned(work[i], "assigned", w)]
      /\ UNCHANGED <<items, dlq, submit, call, clearing>>
  BY <1>1 DEF AssignBest, Eligible, callVars
<1>3. work \in [Items -> WorkRecords] /\ work[i] \in WorkRecords
  BY DEF TypeOK
<1>4. /\ work'[i].status = "assigned" /\ work'[i].owner = w
      /\ \A j \in Items : j # i => work'[j] = work[j]
  BY <1>2, <1>3 DEF Owned, WorkRecords
<1>5. \A h \in Handlers : ~On(h, i)
  <2> SUFFICES ASSUME NEW h \in Handlers, On(h, i) PROVE FALSE
    OBVIOUS
  <2>1. call[h].step \in CallSteps
    BY DEF On, TypeOK, Calls
  <2>2. Due(h, i)
    BY DEF InCustody, Custody, CallIsDue
  <2>3. At(h, {"fail_clear"}, i)
    BY <1>2, <2>1, <2>2 DEF At, On, Due, CallSteps, Active
  <2> QED
    BY <1>1, <2>3 DEF Clearing
<1>6. \A v \in Workers : launching[v][i] = 0 /\ running[v][i] = 0
  BY <1>2, AtRest DEF Active
<1>7. /\ running' = running
      /\ launching' = launching \/ launching' = Begun(launching, w, i)
  BY DEF HandOut, HandOutLost, agentVars
<1>8. /\ \A v \in Workers : launching'[v][i] \in {0, IF v = w THEN 1 ELSE 0} /\ running'[v][i] = 0
      /\ \A v \in Workers, j \in Items : j # i => launching'[v][j] = launching[v][j]
  <2>1. /\ Begun(launching, w, i)[w][i] = launching[w][i] + 1
        /\ \A v \in Workers, j \in Items : v # w \/ j # i =>
              Begun(launching, w, i)[v][j] = launching[v][j]
    BY CountMoves DEF AgentTypes
  <2>2. launching[w][i] + 1 = 1
    BY <1>6
  <2>3. CASE launching' = launching
    BY <1>6, <1>7, <2>3
  <2>4. CASE launching' = Begun(launching, w, i)
    BY <1>6, <1>7, <2>1, <2>2, <2>4
  <2> QED
    BY <1>7, <2>3, <2>4
<1>9. \A h \in Handlers : ~On(h, i)'
  BY <1>2, <1>5 DEF On
<1>10. LaunchIsClaimed(i)'
  BY <1>4, <1>8, <1>9 DEF LaunchIsClaimed
<1>11. SessionIsOwned(i)'
  BY <1>8 DEF SessionIsOwned
<1>12. RecordInPlace(i)'
  <2>1. i \notin dlq /\ submit[i] \notin {"new", "checked"}
    BY <1>2 DEF InCustody, Custody, RecordInPlace
  <2> QED
    BY <1>2, <1>4, <2>1 DEF RecordInPlace
<1>13. \A j \in Items : j # i => Undisturbed(j)
  BY <1>2, <1>4, <1>7, <1>8 DEF Undisturbed
<1> QED
  BY <1>2, <1>9, <1>10, <1>11, <1>12, <1>13, NoneDue, Elsewhere DEF InCustody, Custody

\* A session is up and its StartWork call arrives.
LEMMA CustodyLaunched ==
    ASSUME TypeOK, AgentTypes, InCustody, Reliable, NEW w \in Workers, NEW i \in Items,
           LaunchSucceeds(w, i)
    PROVE  InCustody'
<1>1. /\ launching[w][i] > 0
      /\ launching' = Ended(launching, w, i) /\ running' = Begun(running, w, i)
  BY DEF LaunchSucceeds
<1>2. /\ launching[w][i] = 1 /\ work[i].status = "assigned" /\ work[i].owner = w
      /\ \A v \in Workers : running[v][i] = 0
      /\ \A h \in Handlers : ~On(h, i)
  BY <1>1 DEF InCustody, Custody, LaunchIsClaimed
<1>3. i \in items /\ i \notin dlq /\ submit[i] \notin {"new", "checked"} /\ w \in CanRun[i]
  BY <1>1, Executed
<1>4. LookupStart(w, i)
  BY <1>2, <1>3, NotDisturbed DEF LaunchSucceeds, Terminal
<1>5. Start(w, i) \in Calls /\ Start(w, i).item = i
  BY DEF Start, Calls, CallSteps
<1>6. /\ UNCHANGED <<items, dlq, work, submit, clearing>>
      /\ \E h \in Handlers :
            /\ call'[h] = Start(w, i)
            /\ On(h, i)'
            /\ \A j \in Items : ~On(h, j)
            /\ \A j \in Items : j # i => ~On(h, j)'
            /\ \A g \in Handlers : g # h => call'[g] = call[g]
  BY <1>4, <1>5, LookedUp DEF LookupStart
<1>7. PICK h \in Handlers :
            /\ call'[h] = Start(w, i)
            /\ On(h, i)'
            /\ \A j \in Items : ~On(h, j)
            /\ \A j \in Items : j # i => ~On(h, j)'
            /\ \A g \in Handlers : g # h => call'[g] = call[g]
  BY <1>6
<1>8. /\ \A v \in Workers : launching'[v][i] = 0 /\ running'[v][i] = IF v = w THEN 1 ELSE 0
      /\ \A v \in Workers, j \in Items : j # i => /\ launching'[v][j] = launching[v][j]
                                                  /\ running'[v][j] = running[v][j]
  <2>1. /\ launching'[w][i] = launching[w][i] - 1
        /\ \A v \in Workers, j \in Items : v # w \/ j # i => launching'[v][j] = launching[v][j]
    BY <1>1, EndedMoves DEF AgentTypes
  <2>2. /\ running'[w][i] = running[w][i] + 1
        /\ \A v \in Workers, j \in Items : v # w \/ j # i => running'[v][j] = running[v][j]
    BY <1>1, BegunMoves DEF AgentTypes
  <2>3. launching'[w][i] = 0 /\ running'[w][i] = 1
    BY <1>2, <2>1, <2>2
  <2>4. \A v \in Workers : v # w => launching[v][i] = 0 /\ running[v][i] = 0
    BY <1>1, OnlyExecution
  <2> QED
    BY <2>1, <2>2, <2>3, <2>4
<1>9. /\ call'[h].step = "start" /\ call'[h].worker = w /\ call'[h].item = i
      /\ \A g \in Handlers : g # h => ~On(g, i)'
  BY <1>2, <1>7 DEF Start, On
<1>10. LaunchIsClaimed(i)'
  BY <1>8 DEF LaunchIsClaimed
<1>11. SessionIsOwned(i)'
  <2>1. At(h, {"start"}, i)'
    BY <1>9 DEF At
  <2> QED
    BY <1>2, <1>6, <1>8, <1>9, <2>1 DEF SessionIsOwned
<1>12. CallIsDue(i)'
  <2>1. Due(h, i)'
    BY <1>2, <1>6, <1>9 DEF Due
  <2> QED
    BY <1>3, <1>6, <1>9, <2>1, DueAlone
<1>13. RecordInPlace(i)'
  BY <1>2, <1>3, <1>6 DEF RecordInPlace
<1>14. \A j \in Items : j # i => Undisturbed(j)
  BY <1>6, <1>7, <1>8 DEF Undisturbed
<1> QED
  BY <1>6, <1>10, <1>11, <1>12, <1>13, <1>14, Elsewhere DEF InCustody, Custody

\* An agent reports the outcome of an item it does not execute any more.
LEMMA CustodyReported ==
    ASSUME TypeOK, AgentTypes, InCustody, NEW i \in Items, NEW c \in Calls,
           c.item = i, Lookup(c), c.step \in {"complete", "fail"},
           i \in items, work[i].status \in Active,
           c.step = "complete" => work[i].status = "running",
           \A h \in Handlers : ~On(h, i),
           \A v \in Workers : launching'[v][i] = 0 /\ running'[v][i] = 0,
           \A v \in Workers, j \in Items : j # i => /\ launching'[v][j] = launching[v][j]
                                                    /\ running'[v][j] = running[v][j]
    PROVE  InCustody'
<1>1. /\ UNCHANGED <<items, dlq, work, submit, clearing>>
      /\ \E h \in Handlers :
            /\ call'[h] = c
            /\ On(h, i)'
            /\ \A j \in Items : ~On(h, j)
            /\ \A j \in Items : j # i => ~On(h, j)'
            /\ \A g \in Handlers : g # h => call'[g] = call[g]
  BY LookedUp
<1>2. PICK h \in Handlers :
            /\ call'[h] = c
            /\ On(h, i)'
            /\ \A j \in Items : ~On(h, j)
            /\ \A j \in Items : j # i => ~On(h, j)'
            /\ \A g \in Handlers : g # h => call'[g] = call[g]
  BY <1>1
<1>3. \A g \in Handlers : g # h => ~On(g, i)'
  BY <1>2 DEF On
<1>4. Due(h, i)'
  BY <1>1, <1>2 DEF Due
<1>5. CallIsDue(i)'
  BY <1>1, <1>3, <1>4, DueAlone
<1>6. RecordInPlace(i)'
  <2>1. /\ i \notin dlq /\ submit[i] \notin {"new", "checked"}
        /\ work[i].owner \in CanRun[i]
    BY DEF InCustody, Custody, RecordInPlace
  <2> QED
    BY <1>1, <2>1 DEF RecordInPlace, Active
<1>7. Custody(i)'
  BY <1>5, <1>6, Resting
<1>8. \A j \in Items : j # i => Undisturbed(j)
  BY <1>1, <1>2 DEF Undisturbed
<1> QED
  BY <1>1, <1>7, <1>8, Elsewhere DEF InCustody

\* ... or fails to report it.
LEMMA CustodyUnreported ==
    ASSUME TypeOK, AgentTypes, InCustody, NEW i \in Items, UNCHANGED vars,
           \A v \in Workers : launching'[v][i] = 0 /\ running'[v][i] = 0,
           \A v \in Workers, j \in Items : j # i => /\ launching'[v][j] = launching[v][j]
                                                    /\ running'[v][j] = running[v][j]
    PROVE  InCustody'
<1>1. UNCHANGED <<items, dlq, work, submit, call, clearing>>
  BY DEF vars, queueVars
<1>2. \A j \in Items : Undisturbed(j)
  BY <1>1 DEF Undisturbed
<1> QED
  BY <1>1, <1>2, Everywhere DEF InCustody

\* A launch that fails gives the item back by its failure report.
LEMMA CustodyLaunchFailed ==
    ASSUME TypeOK, AgentTypes, InCustody, NEW w \in Workers, NEW i \in Items,
           LaunchFails(w, i)
    PROVE  InCustody'
<1>1. launching[w][i] > 0 /\ launching' = Ended(launching, w, i) /\ running' = running
  BY DEF LaunchFails
<1>2. /\ launching[w][i] = 1 /\ work[i].status = "assigned"
      /\ \A v \in Workers : running[v][i] = 0
      /\ \A h \in Handlers : ~On(h, i)
  BY <1>1 DEF InCustody, Custody, LaunchIsClaimed
<1>3. i \in items
  BY <1>1, Executed
<1>4. /\ \A v \in Workers : launching'[v][i] = 0 /\ running'[v][i] = 0
      /\ \A v \in Workers, j \in Items : j # i => /\ launching'[v][j] = launching[v][j]
                                                  /\ running'[v][j] = running[v][j]
  <2>1. /\ launching'[w][i] = launching[w][i] - 1
        /\ \A v \in Workers, j \in Items : v # w \/ j # i => launching'[v][j] = launching[v][j]
    BY <1>1, EndedMoves DEF AgentTypes
  <2>2. launching'[w][i] = 0
    BY <1>2, <2>1
  <2>3. \A v \in Workers : v # w => launching[v][i] = 0
    BY <1>1, OnlyExecution
  <2> QED
    BY <1>1, <1>2, <2>1, <2>2, <2>3
<1>5. UNCHANGED vars \/ Lookup(Call("fail", i))
  BY DEF LaunchFails, ReportFailed, LookupFailed
<1>6. /\ Call("fail", i) \in Calls /\ Call("fail", i).item = i /\ Call("fail", i).step = "fail"
  BY DEF Call, Calls, CallSteps
<1>7. CASE UNCHANGED vars
  BY <1>4, <1>7, CustodyUnreported
<1>8. CASE Lookup(Call("fail", i))
  BY <1>2, <1>3, <1>4, <1>6, <1>8, CustodyReported DEF Active
<1> QED
  BY <1>5, <1>7, <1>8

\* The end of a session is reported, or lost with the report.
LEMMA CustodySessionEnded ==
    ASSUME TypeOK, AgentTypes, InCustody, NEW w \in Workers, NEW i \in Items,
           SessionEnds(w, i)
    PROVE  InCustody'
<1>1. /\ running[w][i] > Cardinality(Starting(w, i))
      /\ running' = Ended(running, w, i) /\ launching' = launching
  BY DEF SessionEnds
<1>2. running[w][i] \in Nat /\ running[w][i] > 0
  BY <1>1, StartingSize DEF AgentTypes, Counts
<1>3. /\ running[w][i] = 1 /\ work[i].owner = w
      /\ \/ work[i].status = "assigned" /\ \E h \in Handlers : At(h, {"start"}, i)
         \/ work[i].status = "running"
      /\ \A h \in Handlers : On(h, i) => call[h].step \in {"start", "start_owner"}
  BY <1>2 DEF InCustody, Custody, SessionIsOwned
<1>4. Starting(w, i) = {}
  BY <1>1, <1>3, StartingSize
<1>5. \A h \in Handlers : ~On(h, i)
  <2> SUFFICES ASSUME NEW h \in Handlers, On(h, i) PROVE FALSE
    OBVIOUS
  <2>1. call[h].step \in {"start", "start_owner"} /\ Due(h, i)
    BY <1>3 DEF InCustody, Custody, CallIsDue
  <2>2. At(h, {"start", "start_owner"}, i) /\ call[h].worker = w
    BY <1>3, <2>1 DEF At, On, Due
  <2> QED
    BY <1>4, <2>2 DEF Starting
<1>6. work[i].status = "running" /\ i \in items
  <2>1. ~ \E h \in Handlers : At(h, {"start"}, i)
    BY <1>5, AtIsOn
  <2> QED
    BY <1>2, <1>3, <2>1, Executed
<1>7. \A v \in Workers : launching[v][i] = 0
  <2> SUFFICES ASSUME NEW v \in Workers PROVE launching[v][i] = 0
    OBVIOUS
  <2>1. launching[v][i] \in Nat
    BY DEF AgentTypes, Counts
  <2>2. ~(launching[v][i] > 0)
    BY <1>6 DEF InCustody, Custody, LaunchIsClaimed
  <2> QED
    BY <2>1, <2>2
<1>8. /\ \A v \in Workers : launching'[v][i] = 0 /\ running'[v][i] = 0
      /\ \A v \in Workers, j \in Items : j # i => /\ launching'[v][j] = launching[v][j]
                                                  /\ running'[v][j] = running[v][j]
  <2>1. /\ running'[w][i] = running[w][i] - 1
        /\ \A v \in Workers, j \in Items : v # w \/ j # i => running'[v][j] = running[v][j]
    BY <1>1, EndedMoves DEF AgentTypes
  <2>2. running'[w][i] = 0
    BY <1>3, <2>1
  <2>3. \A v \in Workers : v # w => running[v][i] = 0
    BY <1>2, OnlyExecution
  <2> QED
    BY <1>1, <1>7, <2>1, <2>2, <2>3
<1>9. \/ UNCHANGED vars
      \/ Lookup(Call("fail", i))
      \/ \E r \in Costs : Lookup(Completion(i, r))
  BY DEF SessionEnds, ReportFailed, ReportCompleted, LookupFailed, LookupCompleted
<1>10. /\ Call("fail", i) \in Calls /\ Call("fail", i).item = i /\ Call("fail", i).step = "fail"
  BY DEF Call, Calls, CallSteps
<1>11. CASE UNCHANGED vars
  BY <1>8, <1>11, CustodyUnreported
<1>12. CASE Lookup(Call("fail", i))
  BY <1>5, <1>6, <1>8, <1>10, <1>12, CustodyReported DEF Active
<1>13. ASSUME NEW r \in Costs, Lookup(Completion(i, r)) PROVE InCustody'
  <2>1. /\ Completion(i, r) \in Calls /\ Completion(i, r).item = i
        /\ Completion(i, r).step = "complete"
    BY DEF Completion, Calls, CallSteps
  <2> QED
    BY <1>5, <1>6, <1>8, <1>13, <2>1, CustodyReported DEF Active
<1> QED
  BY <1>9, <1>11, <1>12, <1>13

\* Registrations, heartbeats, polls without work and crashes bring nothing into
\* execution.
LEMMA CustodyWorker ==
    ASSUME TypeOK, AgentTypes, InCustody, NEW w \in Workers,
           AgentStart(w) \/ AgentHeartbeat(w) \/ AgentPoll(w) \/ PollNothing(w) \/ WorkerCrash(w)
    PROVE  InCustody'
<1>1. UNCHANGED <<items, dlq, work, submit, call, clearing>>
  BY DEF AgentStart, AgentHeartbeat, AgentPoll, PollNothing, WorkerCrash, Register, Heartbeat,
         PollAdmit, PollEmpty, queueVars, callVars, vars
<1>2. \A v \in Workers, j \in Items : /\ launching'[v][j] \in {launching[v][j], 0}
                                      /\ running'[v][j] \in {running[v][j], 0}
  <2>1. CASE WorkerCrash(w)
    <3>1. /\ launching' = [launching EXCEPT ![w] = [i \in Items |-> 0]]
          /\ running' = [running EXCEPT ![w] = [i \in Items |-> 0]]
      BY <2>1 DEF WorkerCrash
    <3> QED
      BY <3>1, CrashMoves DEF AgentTypes
  <2> QED
    BY <2>1 DEF AgentStart, AgentHeartbeat, AgentPoll, PollNothing, agentVars
<1>3. \A j \in Items : Undisturbed(j)
  BY <1>1, <1>2 DEF Undisturbed
<1> QED
  BY <1>1, <1>3, Everywhere DEF InCustody

\* Nothing is in custody at first.
LEMMA CustodyInit == SystemInit => InCustody
<1> SUFFICES ASSUME SystemInit PROVE InCustody
  OBVIOUS
<1>1. \A h \in Handlers, i \in Items : ~On(h, i)
  BY DEF SystemInit, Init, On
<1>2. \A i \in Items : RecordInPlace(i)
  BY DEF SystemInit, Init, RecordInPlace, NewWork, Active
<1>3. \A i \in Items : LaunchIsClaimed(i) /\ SessionIsOwned(i)
  BY DEF SystemInit, LaunchIsClaimed, SessionIsOwned
<1>4. \A i \in Items : CallIsDue(i)
  BY <1>1 DEF CallIsDue
<1> QED
  BY <1>2, <1>3, <1>4 DEF SystemInit, Init, InCustody, Custody

\* Custody is inductive.
LEMMA CustodyStep ==
    ASSUME SystemTypeOK, InCustody, Reliable, [SystemNext]_sysVars
    PROVE  InCustody'
<1>0. TypeOK /\ AgentTypes
  BY DEF SystemTypeOK, AgentTypes, Counts
<1>1. CASE UNCHANGED sysVars
  <2>1. UNCHANGED <<agentVars, call>> /\ UNCHANGED <<items, dlq, work, submit, call, clearing>>
    BY <1>1 DEF sysVars, vars
  <2> QED
    BY <2>1, StillElsewhere, Everywhere DEF InCustody
<1>2. ASSUME NEW w \in Workers, NEW i \in Items,
             HandOut(w, i) \/ HandOutLost(w, i) \/ LaunchSucceeds(w, i)
               \/ LaunchFails(w, i) \/ SessionEnds(w, i)
      PROVE  InCustody'
  BY <1>0, <1>2, CustodyHandedOut, CustodyLaunched, CustodyLaunchFailed, CustodySessionEnded
<1>3. ASSUME NEW w \in Workers,
             AgentStart(w) \/ AgentHeartbeat(w) \/ AgentPoll(w) \/ PollNothing(w) \/ WorkerCrash(w)
      PROVE  InCustody'
  BY <1>0, <1>3, CustodyWorker
<1>4. ASSUME NEW i \in Items,
             Submission(i) \/ DeregisterClears(i) \/ BackoffEnds(i) \/ ClaimExpires(i)
      PROVE  InCustody'
  <2>1. ~DeregisterClears(i)
    BY DEF DeregisterClears, ClearDeregistered, InCustody
  <2> QED
    BY <1>0, <1>4, <2>1, CustodySubmission, CustodyBackoff, CustodyExpiry
<1>5. ASSUME NEW h \in Handlers, Serve(h) PROVE InCustody'
  BY <1>0, <1>5, CustodyServe
<1>6. CASE Operator
  BY <1>0, <1>6, CustodyOperator
<1> QED
  BY <1>1, <1>2, <1>3, <1>4, <1>5, <1>6 DEF SystemNext

\* In a fleet whose StartWork calls arrive before their claim expires, and where
\* nobody cancels, deregisters or restarts, an item is at every moment in one
\* pair of hands: a launch, a session, a call, a queue.
THEOREM CustodyIsKept == ASSUME Reliable PROVE SystemSpec => []InCustody
<1>1. SystemInit => InCustody
  BY CustodyInit
<1>2. SystemTypeOK /\ InCustody /\ [SystemNext]_sysVars => InCustody'
  BY CustodyStep
<1> QED
  BY <1>1, <1>2, SystemTypeCorrect, PTL DEF SystemSpec

-----------------------------------------------------------------------------
(* What custody gives. *)

\* For any number of workers, items and handlers, and whatever polls or reports
\* are lost and agents crash, no item is ever executed twice at a time: the
\* claim of AssignBest, the two lookups of handleWorkStart, the retry of
\* retry.go and reclaimTimedOut never put it in two hands.
THEOREM ExecutionsAreSingle == ASSUME Reliable PROVE SystemSpec => []SingleExecution
<1>1. SystemTypeOK /\ InCustody => SingleExecution
  <2> SUFFICES ASSUME SystemTypeOK, InCustody, NEW i \in Items, NEW v \in Workers, NEW w \in Workers
               PROVE  /\ Live(w, i) <= 1
                      /\ Live(v, i) > 0 /\ Live(w, i) > 0 => v = w
    BY DEF SingleExecution
  <2>1. /\ launching[w][i] \in Nat /\ running[w][i] \in Nat
        /\ launching[v][i] \in Nat /\ running[v][i] \in Nat
    BY DEF SystemTypeOK
  <2>2. /\ launching[w][i] > 0 => launching[w][i] = 1 /\ running[w][i] = 0
        /\ running[w][i] > 0 => running[w][i] = 1
    BY DEF InCustody, Custody, LaunchIsClaimed, SessionIsOwned
  <2>3. /\ launching[v][i] > 0 \/ running[v][i] > 0 => work[i].owner = v
        /\ launching[w][i] > 0 \/ running[w][i] > 0 => work[i].owner = w
    BY Executed
  <2>4. /\ Live(w, i) > 0 => launching[w][i] > 0 \/ running[w][i] > 0
        /\ Live(v, i) > 0 => launching[v][i] > 0 \/ running[v][i] > 0
    BY <2>1 DEF Live
  <2>5. Live(w, i) <= 1
    BY <2>1, <2>2 DEF Live
  <2> QED
    BY <2>3, <2>4, <2>5
<1> QED
  BY <1>1, SystemTypeCorrect, CustodyIsKept, PTL

\* In such a fleet IsWorkerDrained (server_dispatch.go) never says so of a worker
\* with a launch or a session left.
THEOREM DrainedAreIdle == ASSUME Reliable PROVE SystemSpec => []DrainedMeansIdle
<1>1. SystemTypeOK /\ InCustody => DrainedMeansIdle
  <2> SUFFICES ASSUME SystemTypeOK, InCustody, NEW w \in Workers, Drained(w), NEW i \in Items
               PROVE  Live(w, i) = 0
    BY DEF DrainedMeansIdle
  <2>1. launching[w][i] \in Nat /\ running[w][i] \in Nat
    BY DEF SystemTypeOK
  <2>2. ~(launching[w][i] > 0 \/ running[w][i] > 0)
    BY Executed DEF Drained
  <2> QED
    BY <2>1, <2>2 DEF Live
<1> QED
  BY <1>1, SystemTypeCorrect, CustodyIsKept, PTL

\* Pending work has no owner, and active work has a worker for its owner, as
\* drains, reclaims and deregistrations assume.
THEOREM OwnersAreSound == ASSUME Reliable PROVE SystemSpec => []OwnerDiscipline
<1>1. InCustody => OwnerDiscipline
  <2> SUFFICES ASSUME InCustody, NEW i \in Items
               PROVE  Clearing(i) \/ OwnedSoundly(work[i])
    BY DEF OwnerDiscipline
  <2>1. RecordInPlace(i)
    BY DEF InCustody, Custody
  <2>2. CanRun[i] \subseteq Workers
    BY ItemAssumption
  <2> QED
    BY <2>1, <2>2 DEF RecordInPlace, Clearing, OwnedSoundly
<1> QED
  BY <1>1, CustodyIsKept, PTL

\* Active work is owned by a worker that meets its constraints, although
\* handleWorkStart makes any worker that calls it the owner.
THEOREM PlacementIsKept == ASSUME Reliable PROVE SystemSpec => []PlacementKept
<1>1. InCustody => PlacementKept
  BY DEF InCustody, Custody, RecordInPlace, PlacementKept
<1> QED
  BY <1>1, CustodyIsKept, PTL

-----------------------------------------------------------------------------
(* The fleet implements TaskLifecycle. *)

\* The stage of an item that was submitted, by its record.
LEMMA StageByRecord ==
    ASSUME NEW i \in Items
    PROVE  /\ submit[i] \notin {"new", "checked"} /\ i \notin dlq =>
                 /\ work[i].status = "pending" => StageOf(i) = "queued"
                 /\ work[i].status = "assigned" => StageOf(i) = "claimed"
                 /\ work[i].status = "running" => StageOf(i) = "running"
                 /\ work[i].status = "completed" => StageOf(i) = "done"
                 /\ work[i].status = "failed" => StageOf(i) = "dead"
           /\ submit[i] \in {"new", "checked"} => StageOf(i) = "new"
           /\ submit[i] \notin {"new", "checked"} /\ i \in dlq => StageOf(i) = "dead"
BY DEF StageOf

\* The same after a step.
LEMMA NextStageByRecord ==
    ASSUME NEW i \in Items
    PROVE  /\ submit'[i] \notin {"new", "checked"} /\ i \notin dlq' =>
                 /\ work'[i].status = "pending" => StageOf(i)' = "queued"
                 /\ work'[i].status = "assigned" => StageOf(i)' = "claimed"
                 /\ work'[i].status = "running" => StageOf(i)' = "running"
                 /\ work'[i].status = "completed" => StageOf(i)' = "done"
                 /\ work'[i].status = "failed" => StageOf(i)' = "dead"
           /\ submit'[i] \notin {"new", "checked"} /\ i \in dlq' => StageOf(i)' = "dead"
BY DEF StageOf

\* A step that concerns neither the status nor the place of an item leaves its
\* stage.
SameStage(j) ==
    /\ StageOf(j)' = StageOf(j)
    /\ work'[j].retries = work[j].retries

\* An item keeps its stage with its status and its place.
LEMMA StageKept ==
    ASSUME NEW j \in Items, work[j].status \in Statuses,
           work'[j].status = work[j].status, work'[j].retries = work[j].retries,
           j \in dlq' <=> j \in dlq,
           submit'[j] \in {"new", "checked"} <=> submit[j] \in {"new", "checked"}
    PROVE  SameStage(j)
<1>1. CASE submit[j] \in {"new", "checked"}
  BY <1>1 DEF SameStage, StageOf
<1>2. CASE submit[j] \notin {"new", "checked"} /\ j \in dlq
  BY <1>2 DEF SameStage, StageOf
<1>3. CASE submit[j] \notin {"new", "checked"} /\ j \notin dlq
  <2>1. submit'[j] \notin {"new", "checked"} /\ j \notin dlq'
    BY <1>3
  <2> QED
    BY <1>3, <2>1, StageByRecord, NextStageByRecord DEF SameStage, Statuses
<1> QED
  BY <1>1, <1>2, <1>3

\* A step that keeps all stages is none of the lifecycle.
LEMMA LifeStutters ==
    ASSUME \A j \in Items : SameStage(j)
    PROVE  UNCHANGED Lifecycle!lifeVars
BY DEF SameStage, Lifecycle!lifeVars

\* A step that changes one stage changes the lifecycle at that item.
LEMMA LifeMoves ==
    ASSUME NEW i \in Items, \A j \in Items : j # i => SameStage(j)
    PROVE  /\ [j \in Items |-> StageOf(j)]' =
                 [[j \in Items |-> StageOf(j)] EXCEPT ![i] = StageOf(i)']
           /\ [j \in Items |-> work[j].retries]' =
                 [[j \in Items |-> work[j].retries] EXCEPT ![i] = work'[i].retries]
BY DEF SameStage

\* No retry was counted.
LEMMA TriesKept ==
    ASSUME NEW i \in Items, work'[i].retries = work[i].retries,
           \A j \in Items : j # i => SameStage(j)
    PROVE  UNCHANGED [j \in Items |-> work[j].retries]
BY DEF SameStage

\* A step that moves no item between the queues and changes no status.
LEMMA LifeQuiet ==
    ASSUME TypeOK, dlq' = dlq,
           \A j \in Items : /\ work'[j].status = work[j].status
                            /\ work'[j].retries = work[j].retries
                            /\ submit'[j] \in {"new", "checked"} <=>
                                  submit[j] \in {"new", "checked"}
    PROVE  UNCHANGED Lifecycle!lifeVars
<1>1. ASSUME NEW j \in Items PROVE SameStage(j)
  <2>1. work[j].status \in Statuses
    BY DEF TypeOK, WorkRecords
  <2> QED
    BY <2>1, StageKept
<1> QED
  BY <1>1, LifeStutters

\* The steps of the queue move one item along its life.
LEMMA LifeQueue ==
    ASSUME TypeOK, InCustody, NEW i \in Items,
           SubmitPush(i) \/ ReclaimTimedOut(i) \/ Reap(i) \/ RetryFromDLQ(i)
             \/ \E w \in Workers : AssignBest(w, i)
    PROVE  Lifecycle!LifeNext
<1>1. ASSUME NEW j \in Items, j # i PROVE SameStage(j)
  <2>1. /\ work'[j] = work[j] /\ submit'[j] = submit[j]
        /\ j \in dlq' <=> j \in dlq
    BY <1>1 DEF TypeOK, SubmitPush, ReclaimTimedOut, Reap, RetryFromDLQ, AssignBest
  <2>2. work[j].status \in Statuses
    BY DEF TypeOK, WorkRecords
  <2> QED
    BY <2>1, <2>2, StageKept
<1>2. RecordInPlace(i) /\ work \in [Items -> WorkRecords] /\ work[i] \in WorkRecords
  BY DEF InCustody, Custody, TypeOK
<1>3. CASE SubmitPush(i)
  <2>1. /\ submit[i] = "checked" /\ submit'[i] = "pushed" /\ dlq' = dlq
        /\ work'[i] = NewWork
    BY <1>3 DEF SubmitPush, TypeOK
  <2>2. work[i] = NewWork /\ i \notin dlq
    BY <1>2, <2>1 DEF RecordInPlace
  <2>3. StageOf(i) = "new" /\ StageOf(i)' = "queued"
    BY <2>1, <2>2, StageByRecord, NextStageByRecord DEF NewWork
  <2>4. Lifecycle!Submit(i)
    <3>1. Lifecycle!Move(i, {"new"}, "queued")
      BY <1>1, <2>1, <2>2, <2>3, LifeMoves DEF Lifecycle!Move
    <3>2. UNCHANGED [j \in Items |-> work[j].retries]
      BY <1>1, <2>1, <2>2, <2>3, TriesKept
    <3> QED
      BY <3>1, <3>2 DEF Lifecycle!Submit
  <2> QED
    BY <2>4 DEF Lifecycle!LifeNext
<1>4. CASE ReclaimTimedOut(i)
  <2>1. /\ i \in items /\ work[i].status = "assigned" /\ dlq' = dlq /\ submit' = submit
        /\ work' = [work EXCEPT ![i] = Unassigned(work[i])]
    BY <1>4 DEF ReclaimTimedOut
  <2>2. work'[i].status = "pending" /\ work'[i].retries = work[i].retries
    BY <1>2, <2>1 DEF Unassigned, Owned, WorkRecords
  <2>3. submit[i] \notin {"new", "checked"} /\ i \notin dlq
    BY <1>2, <2>1 DEF RecordInPlace
  <2>4. StageOf(i) = "claimed" /\ StageOf(i)' = "queued"
    BY <2>1, <2>2, <2>3, StageByRecord, NextStageByRecord
  <2>5. Lifecycle!Expire(i)
    <3>1. Lifecycle!Move(i, {"claimed"}, "queued")
      BY <1>1, <2>2, <2>4, LifeMoves DEF Lifecycle!Move
    <3>2. UNCHANGED [j \in Items |-> work[j].retries]
      BY <1>1, <2>2, <2>4, TriesKept
    <3> QED
      BY <3>1, <3>2 DEF Lifecycle!Expire
  <2> QED
    BY <2>5 DEF Lifecycle!LifeNext
<1>5. CASE Reap(i)
  <2>1. /\ i \in items /\ work[i].status = "pending" /\ i \in dlq' /\ submit' = submit
        /\ work' = work
    BY <1>5 DEF Reap
  <2>2. submit[i] \notin {"new", "checked"} /\ i \notin dlq
    BY <1>2, <2>1 DEF RecordInPlace
  <2>3. StageOf(i) = "queued" /\ StageOf(i)' = "dead"
    BY <2>1, <2>2, StageByRecord, NextStageByRecord
  <2>4. Lifecycle!Bury(i)
    <3>1. Lifecycle!Move(i, {"queued", "claimed", "running"}, "dead")
      BY <1>1, <2>1, <2>3, LifeMoves DEF Lifecycle!Move
    <3>2. UNCHANGED [j \in Items |-> work[j].retries]
      BY <1>1, <2>1, <2>3, TriesKept
    <3> QED
      BY <3>1, <3>2 DEF Lifecycle!Bury
  <2> QED
    BY <2>4 DEF Lifecycle!LifeNext
<1>6. CASE RetryFromDLQ(i)
  <2>1. i \in dlq /\ i \notin dlq' /\ work'[i] = NewWork /\ submit' = submit
    BY <1>6 DEF RetryFromDLQ, TypeOK
  <2>2. submit[i] \notin {"new", "checked"}
    BY <1>2, <2>1 DEF RecordInPlace
  <2>3. StageOf(i) = "dead" /\ StageOf(i)' = "queued" /\ work'[i].retries = 0
    BY <2>1, <2>2, StageByRecord, NextStageByRecord DEF NewWork
  <2>4. Lifecycle!Reopen(i)
    BY <1>1, <2>3, LifeMoves DEF Lifecycle!Reopen, Lifecycle!Move
  <2> QED
    BY <2>4 DEF Lifecycle!LifeNext
<1>7. ASSUME NEW w \in Workers, AssignBest(w, i) PROVE Lifecycle!LifeNext
  <2>1. /\ i \in items /\ work[i].status = "pending" /\ dlq' = dlq /\ submit' = submit
        /\ work' = [work EXCEPT ![i] = Owned(work[i], "assigned", w)]
    BY <1>7 DEF AssignBest, Eligible
  <2>2. work'[i].status = "assigned" /\ work'[i].retries = work[i].retries
    BY <1>2, <2>1 DEF Owned, WorkRecords
  <2>3. submit[i] \notin {"new", "checked"} /\ i \notin dlq
    BY <1>2, <2>1 DEF RecordInPlace
  <2>4. StageOf(i) = "queued" /\ StageOf(i)' = "claimed"
    BY <2>1, <2>2, <2>3, StageByRecord, NextStageByRecord
  <2>5. Lifecycle!Claim(i)
    <3>1. Lifecycle!Move(i, {"queued"}, "claimed")
      BY <1>1, <2>2, <2>4, LifeMoves DEF Lifecycle!Move
    <3>2. UNCHANGED [j \in Items |-> work[j].retries]
      BY <1>1, <2>2, <2>4, TriesKept
    <3> QED
      BY <3>1, <3>2 DEF Lifecycle!Claim
  <2> QED
    BY <2>5 DEF Lifecycle!LifeNext
<1> QED
  BY <1>3, <1>4, <1>5, <1>6, <1>7

\* The handlers that change no status.
LEMMA LifeServeQuiet ==
    ASSUME TypeOK, AgentTypes, InCustody, NEW h \in Handlers,
           TakeOver(h) \/ BookCompleted(h) \/ JudgeFailed(h) \/ ClearRequeued(h) \/ FileFailed(h)
    PROVE  [Lifecycle!LifeNext]_(Lifecycle!lifeVars)
<1>0. call[h].step # "idle"
  BY DEF TakeOver, BookCompleted, JudgeFailed, ClearRequeued, FileFailed
<1>1. PICK i \in Items : call[h].item = i
  BY <1>0, CallTypes
<1>2. /\ i \in items /\ i \notin dlq /\ submit[i] \notin {"new", "checked"} /\ Due(h, i)
      /\ work \in [Items -> WorkRecords] /\ work[i] \in WorkRecords
  BY <1>0, <1>1, ServedItem DEF TypeOK
<1>3. CASE TakeOver(h) \/ BookCompleted(h) \/ JudgeFailed(h) \/ ClearRequeued(h)
  <2>1. /\ dlq' = dlq /\ submit' = submit
        /\ \/ work' = [work EXCEPT ![i].owner = call[h].worker]
           \/ work' = work
           \/ work' = [work EXCEPT ![i] = Cleared(work[i])]
    <3>1. CASE TakeOver(h) \/ BookCompleted(h) \/ JudgeFailed(h)
      BY <1>1, <3>1 DEF TakeOver, BookCompleted, JudgeFailed, queueVars
    <3>2. CASE ClearRequeued(h)
      <4>1. work[i].status = "pending"
        BY <1>2, <3>2 DEF Due, ClearRequeued
      <4> QED
        BY <1>1, <3>2, <4>1 DEF ClearRequeued, File
    <3> QED
      BY <1>3, <3>1, <3>2
  <2>2. \A j \in Items : work'[j].status = work[j].status /\ work'[j].retries = work[j].retries
    <3>1. \/ work'[i] = [work[i] EXCEPT !.owner = call[h].worker]
          \/ work'[i] = work[i]
          \/ work'[i] = Cleared(work[i])
      BY <1>2, <2>1
    <3>2. \A j \in Items : j # i => work'[j] = work[j]
      BY <1>2, <2>1
    <3>3. work'[i].status = work[i].status /\ work'[i].retries = work[i].retries
      BY <1>2, <3>1 DEF Cleared, WorkRecords
    <3> QED
      BY <3>2, <3>3
  <2> QED
    BY <2>1, <2>2, LifeQuiet
<1>4. CASE FileFailed(h)
  <2>1. work' = work /\ submit' = submit /\ work[i].status = "failed"
    BY <1>2, <1>4 DEF FileFailed, Due
  <2>2. dlq' = dlq \cup {i}
    BY <1>1, <1>4, <2>1 DEF FileFailed, File
  <2>3. ASSUME NEW j \in Items PROVE SameStage(j)
    <3>1. CASE j = i
      BY <1>2, <2>1, <2>2, <3>1, StageByRecord, NextStageByRecord DEF SameStage
    <3>2. CASE j # i
      <4>1. work[j].status \in Statuses
        BY DEF TypeOK, WorkRecords
      <4> QED
        BY <2>1, <2>2, <3>2, <4>1, StageKept
    <3> QED
      BY <3>1, <3>2
  <2> QED
    BY <2>3, LifeStutters
<1> QED
  BY <1>3, <1>4

\* The handlers that write a status, which is where a life goes on.
LEMMA LifeServeMoves ==
    ASSUME TypeOK, AgentTypes, InCustody, NEW h \in Handlers,
           MarkRunning(h) \/ MarkCompleted(h) \/ MarkRequeued(h) \/ MarkFailed(h)
    PROVE  Lifecycle!LifeNext
<1>0. call[h].step # "idle"
  BY DEF MarkRunning, MarkCompleted, MarkRequeued, MarkFailed
<1>1. PICK i \in Items : call[h].item = i
  BY <1>0, CallTypes
<1>2. /\ i \in items /\ i \notin dlq /\ submit[i] \notin {"new", "checked"} /\ Due(h, i)
      /\ work \in [Items -> WorkRecords] /\ work[i] \in WorkRecords
  BY <1>0, <1>1, ServedItem DEF TypeOK
<1>3. /\ dlq' = dlq /\ submit' = submit
      /\ \A j \in Items : j # i => work'[j] = work[j]
  BY <1>1, <1>2 DEF MarkRunning, MarkCompleted, MarkRequeued, MarkFailed, SetStatusOf
<1>4. ASSUME NEW j \in Items, j # i PROVE SameStage(j)
  <2>1. work[j].status \in Statuses
    BY DEF TypeOK, WorkRecords
  <2> QED
    BY <1>3, <1>4, <2>1, StageKept
<1>5. i \notin dlq' /\ submit'[i] \notin {"new", "checked"}
  BY <1>2, <1>3
<1>6. CASE MarkRunning(h)
  <2>1. work[i].status = "assigned" /\ work' = [work EXCEPT ![i].status = "running"]
    BY <1>1, <1>2, <1>6 DEF MarkRunning, SetStatusOf, Due
  <2>2. work'[i].status = "running" /\ work'[i].retries = work[i].retries
    BY <1>2, <2>1 DEF WorkRecords
  <2>3. StageOf(i) = "claimed" /\ StageOf(i)' = "running"
    BY <1>2, <1>5, <2>1, <2>2, StageByRecord, NextStageByRecord
  <2>4. Lifecycle!Start(i)
    <3>1. Lifecycle!Move(i, {"claimed"}, "running")
      BY <1>4, <2>2, <2>3, LifeMoves DEF Lifecycle!Move
    <3>2. UNCHANGED [j \in Items |-> work[j].retries]
      BY <1>4, <2>2, <2>3, TriesKept
    <3> QED
      BY <3>1, <3>2 DEF Lifecycle!Start
  <2> QED
    BY <2>4 DEF Lifecycle!LifeNext
<1>7. CASE MarkCompleted(h)
  <2>1. work[i].status = "running" /\ work' = [work EXCEPT ![i].status = "completed"]
    BY <1>1, <1>2, <1>7 DEF MarkCompleted, SetStatusOf, Due
  <2>2. work'[i].status = "completed" /\ work'[i].retries = work[i].retries
    BY <1>2, <2>1 DEF WorkRecords
  <2>3. StageOf(i) = "running" /\ StageOf(i)' = "done"
    BY <1>2, <1>5, <2>1, <2>2, StageByRecord, NextStageByRecord
  <2>4. Lifecycle!Finish(i)
    <3>1. Lifecycle!Move(i, {"running"}, "done")
      BY <1>4, <2>2, <2>3, LifeMoves DEF Lifecycle!Move
    <3>2. UNCHANGED [j \in Items |-> work[j].retries]
      BY <1>4, <2>2, <2>3, TriesKept
    <3> QED
      BY <3>1, <3>2 DEF Lifecycle!Finish
  <2> QED
    BY <2>4 DEF Lifecycle!LifeNext
<1>8. CASE MarkRequeued(h)
  <2>1. /\ work[i].status \in Active /\ work[i].retries < MaxRetries
        /\ work' = [work EXCEPT ![i] = Requeued(work[i])]
    BY <1>1, <1>2, <1>8 DEF MarkRequeued, Due
  <2>2. work'[i].status = "pending" /\ work'[i].retries = work[i].retries + 1
    BY <1>2, <2>1 DEF Requeued, WorkRecords
  <2>3. StageOf(i) \in {"claimed", "running"} /\ StageOf(i)' = "queued"
    BY <1>2, <1>5, <2>1, <2>2, StageByRecord, NextStageByRecord DEF Active
  <2>4. Lifecycle!Retry(i)
    BY <1>4, <2>1, <2>2, <2>3, LifeMoves DEF Lifecycle!Retry, Lifecycle!Move
  <2> QED
    BY <2>4 DEF Lifecycle!LifeNext
<1>9. CASE MarkFailed(h)
  <2>1. work[i].status \in Active /\ work' = [work EXCEPT ![i].status = "failed"]
    BY <1>1, <1>2, <1>9 DEF MarkFailed, SetStatusOf, Due
  <2>2. work'[i].status = "failed" /\ work'[i].retries = work[i].retries
    BY <1>2, <2>1 DEF WorkRecords
  <2>3. StageOf(i) \in {"queued", "claimed", "running"} /\ StageOf(i)' = "dead"
    BY <1>2, <1>5, <2>1, <2>2, StageByRecord, NextStageByRecord DEF Active
  <2>4. Lifecycle!Bury(i)
    <3>1. Lifecycle!Move(i, {"queued", "claimed", "running"}, "dead")
      BY <1>4, <2>2, <2>3, LifeMoves DEF Lifecycle!Move
    <3>2. UNCHANGED [j \in Items |-> work[j].retries]
      BY <1>4, <2>2, <2>3, TriesKept
    <3> QED
      BY <3>1, <3>2 DEF Lifecycle!Bury
  <2> QED
    BY <2>4 DEF Lifecycle!LifeNext
<1> QED
  BY <1>6, <1>7, <1>8, <1>9

\* Lookups, registrations, polls and the agents' own steps change no record.
LEMMA LifeUntouched ==
    ASSUME TypeOK, UNCHANGED <<dlq, work>>,
           \A j \in Items : submit'[j] \in {"new", "checked"} <=> submit[j] \in {"new", "checked"}
    PROVE  UNCHANGED Lifecycle!lifeVars
BY LifeQuiet

\* What an agent does is a step of the lifecycle or none.
LEMMA LifeAgent ==
    ASSUME TypeOK, InCustody, NEW w \in Workers, NEW i \in Items,
           HandOut(w, i) \/ HandOutLost(w, i) \/ LaunchSucceeds(w, i)
             \/ LaunchFails(w, i) \/ SessionEnds(w, i)
    PROVE  [Lifecycle!LifeNext]_(Lifecycle!lifeVars)
<1>1. CASE HandOut(w, i) \/ HandOutLost(w, i)
  <2>1. AssignBest(w, i)
    BY <1>1 DEF HandOut, HandOutLost, Assign
  <2> QED
    BY <2>1, LifeQueue
<1>2. CASE LaunchSucceeds(w, i) \/ LaunchFails(w, i) \/ SessionEnds(w, i)
  <2>1. \/ UNCHANGED vars
        \/ LookupStart(w, i)
        \/ LookupFailed(i)
        \/ \E r \in Costs : LookupCompleted(i, r)
    BY <1>2 DEF LaunchSucceeds, LaunchFails, SessionEnds, ReportFailed, ReportCompleted
  <2>2. UNCHANGED <<dlq, work>> /\ submit' = submit
    BY <2>1 DEF vars, LookupStart, LookupFailed, LookupCompleted, Lookup, queueVars
  <2> QED
    BY <2>2, LifeUntouched
<1> QED
  BY <1>1, <1>2

\* So is what the operator and the maintenance loop do.
LEMMA LifeOperator ==
    ASSUME TypeOK, InCustody, Reliable, "purge" \notin Disturbances, Operator
    PROVE  [Lifecycle!LifeNext]_(Lifecycle!lifeVars)
<1>1. CASE \E i \in Items : Reap(i) \/ RetryFromDLQ(i)
  BY <1>1, LifeQueue
<1>2. CASE \/ \E i \in Items : LookupCancel(i)
           \/ \E w \in Workers : PauseWorker(w) \/ DrainWorker(w) \/ ResumeWorker(w)
           \/ \E l \in Limits : SetBudgetLimit(l)
  <2>1. UNCHANGED <<dlq, work>> /\ submit' = submit
    BY <1>2 DEF LookupCancel, Lookup, PauseWorker, DrainWorker, ResumeWorker, SetStatus,
                SetBudgetLimit, queueVars
  <2> QED
    BY <2>1, LifeUntouched
<1>3. ~Disturb("deregister") /\ ~Disturb("restart") /\ "restart" \notin Disturbances
  BY NotDisturbed
<1>4. ~Disturb("purge")
  BY DEF Disturb
<1> QED
  BY <1>1, <1>2, <1>3, <1>4 DEF Operator

\* Every step of the fleet is a step of the lifecycle or none.
LEMMA LifeStep ==
    ASSUME SystemTypeOK, InCustody, Reliable, "purge" \notin Disturbances, [SystemNext]_sysVars
    PROVE  [Lifecycle!LifeNext]_(Lifecycle!lifeVars)
<1>0. TypeOK /\ AgentTypes
  BY DEF SystemTypeOK, AgentTypes, Counts
<1>1. CASE UNCHANGED sysVars
  <2>1. UNCHANGED <<dlq, work>> /\ submit' = submit
    BY <1>1 DEF sysVars, vars
  <2> QED
    BY <1>0, <2>1, LifeUntouched
<1>2. ASSUME NEW w \in Workers, NEW i \in Items,
             HandOut(w, i) \/ HandOutLost(w, i) \/ LaunchSucceeds(w, i)
               \/ LaunchFails(w, i) \/ SessionEnds(w, i)
      PROVE  [Lifecycle!LifeNext]_(Lifecycle!lifeVars)
  BY <1>0, <1>2, LifeAgent
<1>3. ASSUME NEW w \in Workers,
             AgentStart(w) \/ AgentHeartbeat(w) \/ AgentPoll(w) \/ PollNothing(w) \/ WorkerCrash(w)
      PROVE  [Lifecycle!LifeNext]_(Lifecycle!lifeVars)
  <2>1. UNCHANGED <<dlq, work>> /\ submit' = submit
    BY <1>3 DEF AgentStart, AgentHeartbeat, AgentPoll, PollNothing, WorkerCrash, Register,
                Heartbeat, PollAdmit, PollEmpty, queueVars, vars
  <2> QED
    BY <1>0, <2>1, LifeUntouched
<1>4. ASSUME NEW i \in Items,
             Submission(i) \/ DeregisterClears(i) \/ BackoffEnds(i) \/ ClaimExpires(i)
      PROVE  [Lifecycle!LifeNext]_(Lifecycle!lifeVars)
  <2>1. CASE SubmitPush(i) \/ ReclaimTimedOut(i)
    BY <1>0, <2>1, LifeQueue
  <2>2. CASE SubmitCheck(i) \/ SubmitReject(i) \/ SubmitReserve(i)
    <3>1. /\ UNCHANGED <<dlq, work>>
          /\ \A j \in Items : submit'[j] \in {"new", "checked"} <=> submit[j] \in {"new", "checked"}
      BY <1>0, <2>2 DEF SubmitCheck, SubmitReject, SubmitReserve, queueVars, TypeOK
    <3> QED
      BY <1>0, <3>1, LifeUntouched
  <2>3. CASE BackoffElapsed(i)
    <3>1. /\ dlq' = dlq /\ submit' = submit
          /\ work' = [work EXCEPT ![i].backoff = FALSE]
          /\ work \in [Items -> WorkRecords]
      BY <1>0, <2>3 DEF BackoffElapsed, TypeOK
    <3>2. \A j \in Items : work'[j].status = work[j].status /\ work'[j].retries = work[j].retries
      BY <3>1 DEF WorkRecords
    <3> QED
      BY <1>0, <3>1, <3>2, LifeQuiet
  <2>4. ~ClearDeregistered(i)
    BY DEF ClearDeregistered, InCustody
  <2> QED
    BY <1>4, <2>1, <2>2, <2>3, <2>4 DEF Submission, DeregisterClears, BackoffEnds, ClaimExpires
<1>5. ASSUME NEW h \in Handlers, Serve(h)
      PROVE  [Lifecycle!LifeNext]_(Lifecycle!lifeVars)
  <2>1. ~MarkCancelled(h) /\ ~ClearCancelled(h)
    BY <1>0, NeverCancelled
  <2> QED
    BY <1>0, <1>5, <2>1, LifeServeQuiet, LifeServeMoves DEF Serve, HandlerStep
<1>6. CASE Operator
  BY <1>0, <1>6, LifeOperator
<1> QED
  BY <1>1, <1>2, <1>3, <1>4, <1>5, <1>6 DEF SystemNext

\* The fleet implements TaskLifecycle: with all its polls, calls, retries, crashes
\* and lost reports, each item is submitted, claimed, started, retried at most
\* MaxRetries times and closed once.  A purge of the dead letter queue is
\* excluded as well: a purged item has left the life.
THEOREM FleetImplementsLifecycle ==
    ASSUME Reliable, "purge" \notin Disturbances
    PROVE  SystemSpec => ImplementsLifecycle
<1>1. SystemInit => Lifecycle!LifeInit
  BY DEF SystemInit, Init, Lifecycle!LifeInit, StageOf, NewWork
<1>2. SystemTypeOK /\ InCustody /\ [SystemNext]_sysVars => [Lifecycle!LifeNext]_(Lifecycle!lifeVars)
  BY LifeStep
<1> QED
  BY <1>1, <1>2, SystemTypeCorrect, CustodyIsKept, PTL
     DEF SystemSpec, ImplementsLifecycle, Lifecycle!LifeSpec

-----------------------------------------------------------------------------
(* A drained worker stays drained. *)

\* A step that brings no new request about an item outside the queue.
VacancyKept(j) ==
    /\ j \in items => j \in items' \/ work'[j].status \notin Active
    /\ work'[j].status \in Active => \/ work[j].status \in Active
                                     \/ j \in items'
                                     \/ \E h \in Handlers : At(h, {"start_owner"}, j)'
    /\ \A h \in Handlers : At(h, {"start_owner"}, j) => At(h, {"start_owner"}, j)' \/ j \in items'
    /\ \A h \in Handlers : On(h, j)' /\ call'[h].step \notin CancelSteps =>
          (On(h, j) /\ call[h].step \notin CancelSteps) \/ j \in items'

\* Such a step keeps an item vacated.
LEMMA VacancyFrame ==
    ASSUME NEW j, Vacated(j), VacancyKept(j)
    PROVE  Vacated(j)'
BY DEF Vacated, VacancyKept

\* Without a new request, only the record and its place matter.
LEMMA VacancyQuiet ==
    ASSUME NEW j, call' = call, j \in items => j \in items' \/ work'[j].status \notin Active,
           work'[j].status \in Active => work[j].status \in Active \/ j \in items'
    PROVE  VacancyKept(j)
BY DEF VacancyKept, At, On

\* A handler that makes an item active also puts it back into the queue, at this
\* step or at its next.
LEMMA VacatedServe ==
    ASSUME TypeOK, AllVacated, NEW h \in Handlers, HandlerStep(h)
    PROVE  AllVacated'
<1>0. call[h].step # "idle"
  BY DEF HandlerStep, MarkRunning, TakeOver, MarkCompleted, BookCompleted, JudgeFailed,
         MarkRequeued, ClearRequeued, MarkFailed, FileFailed, MarkCancelled, ClearCancelled
<1>1. PICK i \in Items : call[h].item = i
  BY <1>0, CallTypes
<1>2. work \in [Items -> WorkRecords] /\ work[i] \in WorkRecords
  BY DEF TypeOK
<1>3. On(h, i)
  BY <1>0, <1>1 DEF On, Idle
<1> SUFFICES ASSUME NEW j \in Items PROVE VacancyKept(j)
  BY VacancyFrame DEF AllVacated
<1>4. \/ /\ \E s \in CallSteps : /\ Advance(h, s)
                                 /\ s = "start_owner" <=> MarkRunning(h)
                                 /\ call[h].step = "start_owner" => s = "start_owner"
                                 /\ s \notin CancelSteps => call[h].step \notin CancelSteps
         /\ items' = items
         /\ \A k \in Items : k # i => work'[k] = work[k]
         /\ work'[i].status \in Active => work[i].status \in Active \/ MarkRunning(h)
      \/ /\ Return(h)
         /\ call[h].step = "start_owner" => i \in items'
         /\ \A k \in Items : k # i => work'[k] = work[k] /\ (k \in items => k \in items')
         /\ i \in items' \/ work'[i].status \notin Active
         /\ work'[i].status \in Active => work[i].status \in Active
  <2>1. CASE MarkRunning(h)
    <3>1. Advance(h, "start_owner") /\ items' = items /\ call[h].step = "start"
          /\ work' = [work EXCEPT ![i].status = "running"]
      BY <1>1, <2>1 DEF MarkRunning, SetStatusOf
    <3> QED
      BY <1>2, <2>1, <3>1 DEF CallSteps, CancelSteps
  <2>2. CASE TakeOver(h)
    <3>1. Return(h) /\ items' = items \cup {i}
          /\ work' = [work EXCEPT ![i].owner = call[h].worker]
      BY <1>1, <2>2 DEF TakeOver
    <3>2. work'[i].status = work[i].status
      BY <1>2, <3>1 DEF WorkRecords
    <3> QED
      BY <1>2, <3>1, <3>2
  <2>3. CASE MarkCompleted(h)
    <3>1. Advance(h, "complete_book") /\ items' = items /\ call[h].step = "complete"
          /\ work' = [work EXCEPT ![i].status = "completed"]
      BY <1>1, <2>3 DEF MarkCompleted, SetStatusOf
    <3>2. work'[i].status = "completed" /\ ~MarkRunning(h)
      BY <1>2, <3>1 DEF MarkRunning
    <3> QED
      BY <1>2, <3>1, <3>2 DEF CallSteps, CancelSteps, Active
  <2>4. CASE BookCompleted(h)
    <3>1. Return(h) /\ items' = items \cup {i} /\ work' = work
      BY <1>1, <2>4 DEF BookCompleted
    <3> QED
      BY <3>1
  <2>5. CASE JudgeFailed(h)
    <3>1. PICK s \in {"fail_requeue", "fail_bury"} : Advance(h, s)
      BY <1>1, <2>5 DEF JudgeFailed
    <3>2. items' = items /\ work' = work /\ call[h].step = "fail" /\ ~MarkRunning(h)
      BY <2>5 DEF JudgeFailed, queueVars, MarkRunning
    <3> QED
      BY <3>1, <3>2 DEF CallSteps, CancelSteps
  <2>6. CASE MarkRequeued(h)
    <3>1. Advance(h, "fail_clear") /\ items' = items /\ call[h].step = "fail_requeue"
          /\ work' = [work EXCEPT ![i] = Requeued(work[i])]
      BY <1>1, <2>6 DEF MarkRequeued
    <3>2. work'[i].status = "pending" /\ ~MarkRunning(h)
      BY <1>2, <3>1 DEF MarkRunning, Requeued, WorkRecords
    <3> QED
      BY <1>2, <3>1, <3>2 DEF CallSteps, CancelSteps, Active
  <2>7. CASE ClearRequeued(h)
    <3>1. Return(h) /\ File(i) /\ call[h].step = "fail_clear"
          /\ work' = [work EXCEPT ![i] = Cleared(work[i])]
      BY <1>1, <2>7 DEF ClearRequeued
    <3>2. work'[i].status = work[i].status
      BY <1>2, <3>1 DEF Cleared, WorkRecords
    <3>3. \/ items' = items \ {i} /\ work[i].status = "failed"
          \/ items' = items \cup {i}
      BY <3>1 DEF File
    <3> QED
      BY <1>2, <3>1, <3>2, <3>3 DEF Active
  <2>8. CASE MarkFailed(h)
    <3>1. Advance(h, "fail_file") /\ items' = items /\ call[h].step = "fail_bury"
          /\ work' = [work EXCEPT ![i].status = "failed"]
      BY <1>1, <2>8 DEF MarkFailed, SetStatusOf
    <3>2. work'[i].status = "failed" /\ ~MarkRunning(h)
      BY <1>2, <3>1 DEF MarkRunning
    <3> QED
      BY <1>2, <3>1, <3>2 DEF CallSteps, CancelSteps, Active
  <2>9. CASE FileFailed(h)
    <3>1. Return(h) /\ File(i) /\ call[h].step = "fail_file" /\ work' = work
      BY <1>1, <2>9 DEF FileFailed
    <3>2. \/ items' = items \ {i} /\ work[i].status = "failed"
          \/ items' = items \cup {i}
      BY <3>1 DEF File
    <3> QED
      BY <3>1, <3>2 DEF Active
  <2>10. CASE MarkCancelled(h)
    <3>1. Advance(h, "cancel_clear") /\ items' = items /\ call[h].step = "cancel"
          /\ work' = [work EXCEPT ![i].status = "failed"]
      BY <1>1, <2>10 DEF MarkCancelled, SetStatusOf
    <3>2. work'[i].status = "failed" /\ ~MarkRunning(h)
      BY <1>2, <3>1 DEF MarkRunning
    <3> QED
      BY <1>2, <3>1, <3>2 DEF CallSteps, CancelSteps, Active
  <2>11. CASE ClearCancelled(h)
    <3>1. Return(h) /\ items' = items \cup {i}
          /\ work' = [work EXCEPT ![i].owner = NoWorker]
      BY <1>1, <2>11 DEF ClearCancelled
    <3>2. work'[i].status = work[i].status
      BY <1>2, <3>1 DEF WorkRecords
    <3> QED
      BY <1>2, <3>1, <3>2
  <2> QED
    BY <2>1, <2>2, <2>3, <2>4, <2>5, <2>6, <2>7, <2>8, <2>9, <2>10, <2>11 DEF HandlerStep
<1>5. ASSUME NEW s \in CallSteps, Advance(h, s),
             s = "start_owner" <=> MarkRunning(h),
             call[h].step = "start_owner" => s = "start_owner",
             s \notin CancelSteps => call[h].step \notin CancelSteps,
             items' = items,
             \A k \in Items : k # i => work'[k] = work[k],
             work'[i].status \in Active => work[i].status \in Active \/ MarkRunning(h)
      PROVE  VacancyKept(j)
  <2>1. /\ call'[h].step = s /\ call'[h].item = i
        /\ \A g \in Handlers : g # h => call'[g] = call[g]
        /\ j # i => ~On(h, j) /\ ~On(h, j)'
    BY <1>0, <1>1, <1>5, Advances
  <2>2. \A g \in Handlers : At(g, {"start_owner"}, j) => At(g, {"start_owner"}, j)'
    BY <1>1, <1>5, <2>1 DEF At
  <2>3. MarkRunning(h) => At(h, {"start_owner"}, i)'
    BY <1>5, <2>1 DEF At
  <2>4. \A g \in Handlers : On(g, j)' /\ call'[g].step \notin CancelSteps =>
           On(g, j) /\ call[g].step \notin CancelSteps
    BY <1>3, <1>5, <2>1 DEF On
  <2> QED
    BY <1>5, <2>2, <2>3, <2>4 DEF VacancyKept
<1>6. ASSUME Return(h),
             call[h].step = "start_owner" => i \in items',
             \A k \in Items : k # i => work'[k] = work[k] /\ (k \in items => k \in items'),
             i \in items' \/ work'[i].status \notin Active,
             work'[i].status \in Active => work[i].status \in Active
      PROVE  VacancyKept(j)
  <2>1. /\ \A g \in Handlers : g # h => call'[g] = call[g]
        /\ ~On(h, j)'
    BY <1>0, <1>1, <1>6, Returns
  <2>2. \A g \in Handlers : At(g, {"start_owner"}, j) => At(g, {"start_owner"}, j)' \/ j \in items'
    BY <1>1, <1>6, <2>1 DEF At
  <2>3. \A g \in Handlers : On(g, j)' /\ call'[g].step \notin CancelSteps =>
           On(g, j) /\ call[g].step \notin CancelSteps
    BY <2>1 DEF On
  <2> QED
    BY <1>6, <2>2, <2>3 DEF VacancyKept
<1> QED
  BY <1>4, <1>5, <1>6

\* A request is only accepted about an item in the queue, or to cancel it.
LEMMA VacatedLookup ==
    ASSUME TypeOK, AllVacated, NEW i \in Items, NEW c \in Calls, c.item = i, Lookup(c),
           i \in items \/ c.step \in CancelSteps
    PROVE  AllVacated'
<1>1. /\ UNCHANGED <<items, dlq, work, submit, clearing>>
      /\ \E h \in Handlers :
            /\ call'[h] = c
            /\ On(h, i)'
            /\ \A j \in Items : ~On(h, j)
            /\ \A j \in Items : j # i => ~On(h, j)'
            /\ \A g \in Handlers : g # h => call'[g] = call[g]
  BY LookedUp
<1>2. PICK h \in Handlers :
            /\ call'[h] = c
            /\ On(h, i)'
            /\ \A j \in Items : ~On(h, j)
            /\ \A j \in Items : j # i => ~On(h, j)'
            /\ \A g \in Handlers : g # h => call'[g] = call[g]
  BY <1>1
<1> SUFFICES ASSUME NEW j \in Items PROVE VacancyKept(j)
  BY VacancyFrame DEF AllVacated
<1>3. \A g \in Handlers : At(g, {"start_owner"}, j) => At(g, {"start_owner"}, j)'
  <2> SUFFICES ASSUME NEW g \in Handlers, At(g, {"start_owner"}, j)
               PROVE  At(g, {"start_owner"}, j)'
    OBVIOUS
  <2>1. On(g, j)
    BY AtIsOn
  <2> QED
    BY <1>2, <2>1 DEF At
<1>4. \A g \in Handlers : On(g, j)' /\ call'[g].step \notin CancelSteps =>
         (On(g, j) /\ call[g].step \notin CancelSteps) \/ j \in items'
  BY <1>1, <1>2 DEF On
<1> QED
  BY <1>1, <1>3, <1>4 DEF VacancyKept

\* No step of the coordinator leaves an active item outside the queue for good.
LEMMA VacatedStep ==
    ASSUME TypeOK, AllVacated, [Next]_vars
    PROVE  AllVacated'
<1>0. work \in [Items -> WorkRecords]
  BY DEF TypeOK
<1>1. ASSUME call' = call,
             \A j \in Items : j \in items => j \in items' \/ work'[j].status \notin Active,
             \A j \in Items :
                work'[j].status \in Active => work[j].status \in Active \/ j \in items'
      PROVE  AllVacated'
  BY <1>1, VacancyQuiet, VacancyFrame DEF AllVacated
<1>2. ASSUME UNCHANGED <<call, items, work>> PROVE AllVacated'
  BY <1>1, <1>2
<1>3. CASE UNCHANGED vars
  BY <1>2, <1>3 DEF vars
<1>4. ASSUME NEW i \in Items, ItemStep(i) PROVE AllVacated'
  <2>1. CASE SubmitCheck(i) \/ SubmitReject(i) \/ SubmitReserve(i)
    BY <1>2, <2>1 DEF SubmitCheck, SubmitReject, SubmitReserve, queueVars, callVars
  <2>2. CASE SubmitPush(i) \/ RetryFromDLQ(i)
    BY <1>0, <1>1, <2>2 DEF SubmitPush, RetryFromDLQ, callVars, NewWork, Active
  <2>3. CASE Reap(i)
    BY <1>1, <2>3 DEF Reap, callVars, Active
  <2>4. CASE BackoffElapsed(i) \/ ReclaimTimedOut(i) \/ ClearDeregistered(i)
    <3>1. /\ call' = call /\ items \subseteq items'
          /\ \/ work' = [work EXCEPT ![i].backoff = FALSE]
             \/ work' = [work EXCEPT ![i] = Unassigned(work[i])]
             \/ work' = [work EXCEPT ![i].owner = NoWorker]
      BY <2>4 DEF BackoffElapsed, ReclaimTimedOut, ClearDeregistered, callVars
    <3>2. \/ work'[i] = [work[i] EXCEPT !.backoff = FALSE]
          \/ work'[i] = Unassigned(work[i])
          \/ work'[i] = [work[i] EXCEPT !.owner = NoWorker]
      BY <1>0, <3>1
    <3>3. work'[i].status \in Active => work[i].status \in Active
      BY <1>0, <3>2 DEF Unassigned, Owned, WorkRecords, Active
    <3>4. \A j \in Items : j # i => work'[j] = work[j]
      BY <1>0, <3>1
    <3> QED
      BY <1>1, <3>1, <3>3, <3>4
  <2>5. ASSUME NEW r \in Costs \cup {NoResult}, LookupCompleted(i, r) PROVE AllVacated'
    <3>1. Completion(i, r) \in Calls /\ Completion(i, r).item = i
      BY DEF Completion, Calls, CallSteps
    <3> QED
      BY <2>5, <3>1, VacatedLookup DEF LookupCompleted
  <2>6. CASE LookupFailed(i)
    <3>1. Call("fail", i) \in Calls /\ Call("fail", i).item = i
      BY DEF Call, Calls, CallSteps
    <3> QED
      BY <2>6, <3>1, VacatedLookup DEF LookupFailed
  <2>7. CASE LookupCancel(i)
    <3>1. /\ Call("cancel", i) \in Calls /\ Call("cancel", i).item = i
          /\ Call("cancel", i).step \in CancelSteps
      BY DEF Call, Calls, CallSteps, CancelSteps
    <3> QED
      BY <2>7, <3>1, VacatedLookup DEF LookupCancel
  <2> QED
    BY <1>4, <2>1, <2>2, <2>3, <2>4, <2>5, <2>6, <2>7 DEF ItemStep
<1>5. ASSUME NEW w \in Workers, WorkerStep(w) PROVE AllVacated'
  <2>1. ASSUME NEW i \in Items, LookupStart(w, i) PROVE AllVacated'
    <3>1. Start(w, i) \in Calls /\ Start(w, i).item = i
      BY DEF Start, Calls, CallSteps
    <3> QED
      BY <2>1, <3>1, VacatedLookup DEF LookupStart
  <2>2. ASSUME NEW i \in Items, AssignBest(w, i) PROVE AllVacated'
    <3>1. /\ call' = call /\ items' = items /\ i \in items
          /\ \A j \in Items : j # i => work'[j] = work[j]
      BY <1>0, <2>2 DEF AssignBest, Eligible, callVars
    <3> QED
      BY <1>1, <3>1
  <2>3. CASE DeregisterWorker(w)
    <3>1. /\ call' = call /\ items' = items
          /\ \A j \in Items : \/ work'[j] = work[j]
                              \/ work'[j] = [work[j] EXCEPT !.status = "pending"]
      BY <2>3 DEF DeregisterWorker
    <3>2. \A j \in Items : work'[j].status \in Active => work[j].status \in Active
      BY <1>0, <3>1 DEF WorkRecords, Active
    <3> QED
      BY <1>1, <3>1, <3>2
  <2>4. CASE \/ Register(w) \/ PauseWorker(w) \/ DrainWorker(w) \/ ResumeWorker(w)
             \/ PollAdmit(w) \/ PollEmpty(w) \/ \E f \in BOOLEAN : Heartbeat(w, f)
    BY <1>2, <2>4 DEF Register, PauseWorker, DrainWorker, ResumeWorker, SetStatus, PollAdmit,
                      PollEmpty, Heartbeat, queueVars, callVars
  <2> QED
    BY <1>5, <2>1, <2>2, <2>3, <2>4 DEF WorkerStep
<1>6. ASSUME NEW h \in Handlers, HandlerStep(h) PROVE AllVacated'
  BY <1>6, VacatedServe
<1>7. CASE Checkpoint \/ PurgeDLQ \/ \E l \in Limits : SetBudgetLimit(l)
  BY <1>2, <1>7 DEF Checkpoint, PurgeDLQ, SetBudgetLimit, queueVars, callVars
<1>8. CASE Restart
  <2>1. \A h \in Handlers, j \in Items : ~On(h, j)'
    BY <1>8 DEF Restart, On
  <2> QED
    BY <2>1 DEF AllVacated, Vacated
<1> QED
  BY <1>3, <1>4, <1>5, <1>6, <1>7, <1>8 DEF Next

\* Under every disturbance, an item that a cancel, a failure or a deregistration
\* took out of the queue while active is so only for calls that put it back.
THEOREM VacatedAlways == SystemSpec => [](SystemTypeOK /\ AllVacated)
<1>1. SystemInit => AllVacated
  BY DEF SystemInit, Init, AllVacated, Vacated, NewWork, Active
<1>2. SystemTypeOK /\ AllVacated /\ [SystemNext]_sysVars => AllVacated'
  BY Projects, VacatedStep DEF SystemTypeOK
<1> QED
  BY <1>1, <1>2, SystemTypeCorrect, PTL DEF SystemSpec

\* No request to start work for w is being served.
Unasked(w) == \A i \in Items : Starting(w, i) = {}

\* A handler never turns to starting work.
LEMMA UnaskedServe ==
    ASSUME TypeOK, NEW w \in Workers, Unasked(w), NEW h \in Handlers, HandlerStep(h)
    PROVE  Unasked(w)'
<1>0. call[h].step # "idle"
  BY DEF HandlerStep, MarkRunning, TakeOver, MarkCompleted, BookCompleted, JudgeFailed,
         MarkRequeued, ClearRequeued, MarkFailed, FileFailed, MarkCancelled, ClearCancelled
<1>1. PICK i \in Items : call[h].item = i
  BY <1>0, CallTypes
<1>2. \/ Return(h)
      \/ \E s \in CallSteps \ {"start", "start_owner"} : Advance(h, s)
      \/ call[h].step = "start" /\ Advance(h, "start_owner")
  BY DEF HandlerStep, MarkRunning, TakeOver, MarkCompleted, BookCompleted, JudgeFailed,
         MarkRequeued, ClearRequeued, MarkFailed, FileFailed, MarkCancelled, ClearCancelled,
         CallSteps
<1>3. /\ \A g \in Handlers : g # h => call'[g] = call[g]
      /\ \/ call'[h].step \notin {"start", "start_owner"}
         \/ /\ call[h].step = "start" /\ call'[h].step = "start_owner"
            /\ call'[h].item = i /\ call'[h].worker = call[h].worker
  <2>1. CASE Return(h)
    <3>1. call'[h] = Idle /\ \A g \in Handlers : g # h => call'[g] = call[g]
      BY <2>1 DEF Return, TypeOK
    <3> QED
      BY <3>1 DEF Idle
  <2>2. ASSUME NEW s \in CallSteps \ {"start", "start_owner"}, Advance(h, s)
        PROVE  /\ \A g \in Handlers : g # h => call'[g] = call[g]
               /\ call'[h].step \notin {"start", "start_owner"}
    BY <1>0, <1>1, <2>2, Advances
  <2>3. CASE call[h].step = "start" /\ Advance(h, "start_owner")
    <3>1. "start_owner" \in CallSteps
      BY DEF CallSteps
    <3> QED
      BY <1>0, <1>1, <2>3, <3>1, Advances
  <2> QED
    BY <1>2, <2>1, <2>2, <2>3
<1> QED
  BY <1>1, <1>3 DEF Unasked, Starting, At

\* Nor does a new call that is not a StartWork of the worker.
LEMMA UnaskedLookup ==
    ASSUME TypeOK, NEW w \in Workers, Unasked(w), NEW c \in Calls, Lookup(c),
           c.step \notin {"start", "start_owner"} \/ c.worker # w
    PROVE  Unasked(w)'
<1>1. PICK h \in Handlers : call' = [call EXCEPT ![h] = c]
  BY DEF Lookup
<1>2. call'[h] = c /\ \A g \in Handlers : g # h => call'[g] = call[g]
  BY <1>1 DEF TypeOK
<1> QED
  BY <1>2 DEF Unasked, Starting, At

\* What a worker may ask for but the start of an item.
RegistryStep(v) ==
    \/ Register(v)
    \/ \E f \in BOOLEAN : Heartbeat(v, f)
    \/ PauseWorker(v)
    \/ DrainWorker(v)
    \/ ResumeWorker(v)
    \/ DeregisterWorker(v)
    \/ PollAdmit(v)
    \/ PollEmpty(v)
    \/ \E i \in Items : AssignBest(v, i)

\* The steps of the coordinator that are not about a start by w.
OtherStep(w) ==
    \/ UNCHANGED vars
    \/ \E i \in Items : ItemStep(i)
    \/ \E v \in Workers : RegistryStep(v)
    \/ \E v \in Workers, i \in Items : v # w /\ LookupStart(v, i)
    \/ \E h \in Handlers : HandlerStep(h)
    \/ Checkpoint
    \/ PurgeDLQ
    \/ \E l \in Limits : SetBudgetLimit(l)
    \/ Restart

\* So only LaunchSucceeds asks to start work for a worker.
LEMMA UnaskedStep ==
    ASSUME TypeOK, NEW w \in Workers, Unasked(w), OtherStep(w)
    PROVE  Unasked(w)'
<1>1. ASSUME call' = call PROVE Unasked(w)'
  BY <1>1 DEF Unasked, Starting, At
<1>2. CASE UNCHANGED vars
  BY <1>1, <1>2 DEF vars
<1>3. ASSUME NEW i \in Items, ItemStep(i) PROVE Unasked(w)'
  <2>1. CASE \/ SubmitCheck(i) \/ SubmitReject(i) \/ SubmitPush(i) \/ SubmitReserve(i)
             \/ ClearDeregistered(i) \/ BackoffElapsed(i) \/ ReclaimTimedOut(i) \/ Reap(i)
             \/ RetryFromDLQ(i)
    BY <1>1, <2>1 DEF SubmitCheck, SubmitReject, SubmitPush, SubmitReserve, ClearDeregistered,
                      BackoffElapsed, ReclaimTimedOut, Reap, RetryFromDLQ, callVars
  <2>2. ASSUME NEW r \in Costs \cup {NoResult}, LookupCompleted(i, r) PROVE Unasked(w)'
    <3>1. Completion(i, r) \in Calls /\ Completion(i, r).step \notin {"start", "start_owner"}
      BY DEF Completion, Calls, CallSteps
    <3> QED
      BY <2>2, <3>1, UnaskedLookup DEF LookupCompleted
  <2>3. CASE LookupFailed(i) \/ LookupCancel(i)
    <3>1. PICK s \in {"fail", "cancel"} : Lookup(Call(s, i))
      BY <2>3 DEF LookupFailed, LookupCancel
    <3>2. Call(s, i) \in Calls /\ Call(s, i).step \notin {"start", "start_owner"}
      BY DEF Call, Calls, CallSteps
    <3> QED
      BY <3>1, <3>2, UnaskedLookup
  <2> QED
    BY <1>3, <2>1, <2>2, <2>3 DEF ItemStep
<1>4. ASSUME NEW v \in Workers, RegistryStep(v) PROVE Unasked(w)'
  BY <1>1, <1>4 DEF RegistryStep, Register, PauseWorker, DrainWorker, ResumeWorker, SetStatus,
     PollAdmit, PollEmpty, DeregisterWorker, Heartbeat, AssignBest, callVars
<1>8. ASSUME NEW v \in Workers, NEW i \in Items, v # w, LookupStart(v, i) PROVE Unasked(w)'
  <2>1. Start(v, i) \in Calls /\ Start(v, i).worker # w
    BY <1>8 DEF Start, Calls, CallSteps
  <2> QED
    BY <1>8, <2>1, UnaskedLookup DEF LookupStart
<1>5. ASSUME NEW h \in Handlers, HandlerStep(h) PROVE Unasked(w)'
  BY <1>5, UnaskedServe
<1>6. CASE Checkpoint \/ PurgeDLQ \/ \E l \in Limits : SetBudgetLimit(l)
  BY <1>1, <1>6 DEF Checkpoint, PurgeDLQ, SetBudgetLimit, callVars
<1>7. CASE Restart
  <2>1. \A h \in Handlers : call'[h] = Idle
    BY <1>7 DEF Restart
  <2> QED
    BY <2>1 DEF Unasked, Starting, At, Idle
<1> QED
  BY <1>2, <1>3, <1>4, <1>5, <1>6, <1>7, <1>8 DEF OtherStep

\* Nothing makes a worker answer for an item but a poll or a start of its own.
LEMMA SilentServe ==
    ASSUME TypeOK, AllVacated, NEW w \in Workers, Unasked(w), NEW h \in Handlers, HandlerStep(h),
           NEW j \in Items, Answers(w, j)'
    PROVE  Answers(w, j)
<1>0. call[h].step # "idle"
  BY DEF HandlerStep, MarkRunning, TakeOver, MarkCompleted, BookCompleted, JudgeFailed,
         MarkRequeued, ClearRequeued, MarkFailed, FileFailed, MarkCancelled, ClearCancelled
<1>1. PICK i \in Items : call[h].item = i
  BY <1>0, CallTypes
<1>2. work \in [Items -> WorkRecords] /\ work[i] \in WorkRecords /\ NoWorker # w
  BY WorkerAssumption DEF TypeOK
<1>3. On(h, i)
  BY <1>0, <1>1 DEF On, Idle
<1>4. /\ j \in items' /\ work'[j].owner = w /\ work'[j].status \in Active
      /\ \A g \in Handlers : ~At(g, {"start_owner"}, j)'
  BY DEF Answers
<1>5. /\ \A k \in Items : k # i => work'[k] = work[k] /\ (k \in items' => k \in items)
      /\ \E s \in CallSteps : Advance(h, s) \/ Return(h)
  BY <1>1, <1>2 DEF HandlerStep, MarkRunning, TakeOver, MarkCompleted, BookCompleted, JudgeFailed,
         MarkRequeued, ClearRequeued, MarkFailed, FileFailed, MarkCancelled, ClearCancelled,
         SetStatusOf, File, queueVars, CallSteps
<1>6. \A g \in Handlers : g # h => call'[g] = call[g]
  BY <1>0, <1>1, <1>5, Advances, Returns
<1>7. CASE j # i
  <2>1. \A g \in Handlers : ~At(g, {"start_owner"}, j)
    BY <1>1, <1>4, <1>6, <1>7 DEF At
  <2> QED
    BY <1>4, <1>5, <1>7, <2>1 DEF Answers
<1>8. CASE j = i
  <2>1. ~MarkRunning(h)
    <3> SUFFICES ASSUME MarkRunning(h) PROVE FALSE
      OBVIOUS
    <3>1. Advance(h, "start_owner") /\ "start_owner" \in CallSteps
      BY DEF MarkRunning, CallSteps
    <3>2. At(h, {"start_owner"}, i)'
      BY <1>0, <1>1, <3>1, Advances DEF At
    <3> QED
      BY <1>4, <1>8, <3>2
  <2>2. ~TakeOver(h)
    <3> SUFFICES ASSUME TakeOver(h) PROVE FALSE
      OBVIOUS
    <3>1. call[h].step = "start_owner" /\ work' = [work EXCEPT ![i].owner = call[h].worker]
      BY <1>1 DEF TakeOver
    <3>2. work'[i].owner = call[h].worker
      BY <1>2, <3>1 DEF WorkRecords
    <3>3. h \in Starting(w, i)
      BY <1>1, <1>4, <1>8, <3>1, <3>2 DEF Starting, At
    <3> QED
      BY <3>3 DEF Unasked
  <2>3. ~MarkCompleted(h) /\ ~MarkFailed(h) /\ ~MarkCancelled(h)
    BY <1>1, <1>2, <1>4, <1>8 DEF MarkCompleted, MarkFailed, MarkCancelled, SetStatusOf, Active,
                                  WorkRecords
  <2>4. ~MarkRequeued(h)
    <3> SUFFICES ASSUME MarkRequeued(h) PROVE FALSE
      OBVIOUS
    <3>1. work'[i] = Requeued(work[i])
      BY <1>1, <1>2 DEF MarkRequeued
    <3>2. work'[i].status = "pending"
      BY <1>2, <3>1 DEF Requeued, WorkRecords
    <3> QED
      BY <1>4, <1>8, <3>2 DEF Active
  <2>5. ~ClearRequeued(h) /\ ~ClearCancelled(h)
    <3> SUFFICES ASSUME ClearRequeued(h) \/ ClearCancelled(h) PROVE FALSE
      OBVIOUS
    <3>1. work'[i] = Cleared(work[i]) \/ work'[i] = [work[i] EXCEPT !.owner = NoWorker]
      BY <1>1, <1>2 DEF ClearRequeued, ClearCancelled
    <3>2. work'[i].owner = NoWorker
      BY <1>2, <3>1 DEF Cleared, WorkRecords
    <3> QED
      BY <1>2, <1>4, <1>8, <3>2
  <2>6. CASE BookCompleted(h) \/ JudgeFailed(h) \/ FileFailed(h)
    <3>1. work' = work /\ call[h].step \in {"complete_book", "fail", "fail_file"}
          /\ (JudgeFailed(h) => items' = items)
      BY <2>6 DEF BookCompleted, JudgeFailed, FileFailed, queueVars
    <3>2. \A g \in Handlers : ~At(g, {"start_owner"}, j)
      BY <1>4, <1>6, <3>1 DEF At
    <3>3. ~(\A g \in Handlers : On(g, j) => call[g].step \in CancelSteps)
      BY <1>3, <1>8, <3>1 DEF CancelSteps
    <3>4. j \in items
      BY <1>4, <3>1, <3>2, <3>3 DEF AllVacated, Vacated
    <3> QED
      BY <1>4, <3>1, <3>2, <3>4 DEF Answers
  <2> QED
    BY <2>1, <2>2, <2>3, <2>4, <2>5, <2>6 DEF HandlerStep
<1> QED
  BY <1>7, <1>8

\* No step makes a worker that is not asked, does not poll and is draining answer
\* for an item.
LEMMA SilentStep ==
    ASSUME TypeOK, AllVacated, NEW w \in Workers, Unasked(w), poll[w] = NoPoll,
           worker'[w] = "draining", [Next]_vars, NEW j \in Items, Answers(w, j)'
    PROVE  Answers(w, j)
<1>0. work \in [Items -> WorkRecords] /\ NoWorker # w
  BY WorkerAssumption DEF TypeOK
<1>1. /\ j \in items' /\ work'[j].owner = w /\ work'[j].status \in Active
      /\ \A g \in Handlers : ~At(g, {"start_owner"}, j)'
  BY DEF Answers
<1>2. ASSUME call' = call, j \in items, work[j].owner = w, work[j].status \in Active
      PROVE  Answers(w, j)
  BY <1>1, <1>2 DEF Answers, At
<1>3. ASSUME UNCHANGED <<call, items, work>> PROVE Answers(w, j)
  BY <1>1, <1>2, <1>3
<1>4. CASE UNCHANGED vars
  BY <1>3, <1>4 DEF vars
<1>5. ASSUME NEW c, Lookup(c) PROVE Answers(w, j)
  <2>1. /\ UNCHANGED <<items, work>>
        /\ \E h \in Handlers : call[h] = Idle /\ call' = [call EXCEPT ![h] = c]
    BY <1>5 DEF Lookup, queueVars
  <2>2. \A g \in Handlers : ~At(g, {"start_owner"}, j)
    <3> SUFFICES ASSUME NEW g \in Handlers, At(g, {"start_owner"}, j) PROVE FALSE
      OBVIOUS
    <3>1. call[g] # Idle
      BY DEF At, Idle
    <3>2. call'[g] = call[g]
      BY <2>1, <3>1 DEF TypeOK
    <3> QED
      BY <1>1, <3>2 DEF At
  <2> QED
    BY <1>1, <2>1, <2>2 DEF Answers
<1>6. ASSUME NEW i \in Items, ItemStep(i) PROVE Answers(w, j)
  <2>1. CASE \/ SubmitCheck(i) \/ SubmitReject(i) \/ SubmitReserve(i)
    BY <1>3, <2>1 DEF SubmitCheck, SubmitReject, SubmitReserve, queueVars, callVars
  <2>2. CASE \/ (\E r \in Costs \cup {NoResult} : LookupCompleted(i, r))
             \/ LookupFailed(i) \/ LookupCancel(i)
    BY <1>5, <2>2 DEF LookupCompleted, LookupFailed, LookupCancel
  <2>3. CASE SubmitPush(i) \/ RetryFromDLQ(i)
    BY <1>0, <1>1, <1>2, <2>3 DEF SubmitPush, RetryFromDLQ, callVars, NewWork
  <2>4. CASE Reap(i)
    BY <1>1, <1>2, <2>4 DEF Reap, callVars
  <2>5. CASE BackoffElapsed(i)
    <3>1. /\ call' = call /\ items' = items /\ work' = [work EXCEPT ![i].backoff = FALSE]
      BY <2>5 DEF BackoffElapsed, callVars
    <3>2. work'[j].owner = work[j].owner /\ work'[j].status = work[j].status
      BY <1>0, <3>1 DEF WorkRecords
    <3> QED
      BY <1>1, <1>2, <3>1, <3>2
  <2>6. CASE ReclaimTimedOut(i) \/ ClearDeregistered(i)
    <3>1. /\ call' = call /\ items' \subseteq items \cup {i}
          /\ \/ work' = [work EXCEPT ![i] = Unassigned(work[i])]
             \/ work' = [work EXCEPT ![i].owner = NoWorker]
      BY <2>6 DEF ReclaimTimedOut, ClearDeregistered, callVars
    <3>2. work'[i].owner = NoWorker /\ (j # i => work'[j] = work[j])
      BY <1>0, <3>1 DEF Unassigned, Owned, WorkRecords
    <3> QED
      BY <1>0, <1>1, <1>2, <3>1, <3>2
  <2> QED
    BY <1>6, <2>1, <2>2, <2>3, <2>4, <2>5, <2>6 DEF ItemStep
<1>7. ASSUME NEW v \in Workers, WorkerStep(v) PROVE Answers(w, j)
  <2>1. CASE \E i \in Items : LookupStart(v, i)
    BY <1>5, <2>1 DEF LookupStart
  <2>2. ASSUME NEW i \in Items, AssignBest(v, i) PROVE Answers(w, j)
    <3>1. /\ v # w /\ call' = call /\ items' = items
          /\ work' = [work EXCEPT ![i] = Owned(work[i], "assigned", v)]
      BY <2>2 DEF AssignBest, callVars
    <3>2. work'[i].owner = v /\ (j # i => work'[j] = work[j])
      BY <1>0, <3>1 DEF Owned, WorkRecords
    <3> QED
      BY <1>1, <1>2, <3>1, <3>2
  <2>3. CASE DeregisterWorker(v)
    <3>1. /\ call' = call /\ items' = items
          /\ \/ work'[j] = work[j]
             \/ work'[j] = [work[j] EXCEPT !.status = "pending"]
      BY <2>3 DEF DeregisterWorker
    <3>2. work'[j] = work[j]
      BY <1>0, <1>1, <3>1 DEF WorkRecords, Active
    <3> QED
      BY <1>1, <1>2, <3>1, <3>2
  <2>4. CASE \/ Register(v) \/ PauseWorker(v) \/ DrainWorker(v) \/ ResumeWorker(v)
             \/ PollAdmit(v) \/ PollEmpty(v) \/ \E f \in BOOLEAN : Heartbeat(v, f)
    BY <1>3, <2>4 DEF Register, PauseWorker, DrainWorker, ResumeWorker, SetStatus, PollAdmit,
                      PollEmpty, Heartbeat, queueVars, callVars
  <2> QED
    BY <1>7, <2>1, <2>2, <2>3, <2>4 DEF WorkerStep
<1>8. ASSUME NEW h \in Handlers, HandlerStep(h) PROVE Answers(w, j)
  BY <1>8, SilentServe
<1>9. CASE Checkpoint \/ PurgeDLQ \/ \E l \in Limits : SetBudgetLimit(l)
  BY <1>3, <1>9 DEF Checkpoint, PurgeDLQ, SetBudgetLimit, queueVars, callVars
<1>10. ~Restart
  BY DEF Restart
<1> QED
  BY <1>4, <1>6, <1>7, <1>8, <1>9, <1>10 DEF Next

\* A draining worker is not admitted to a poll.
LEMMA PollStays ==
    ASSUME TypeOK, NEW w \in Workers, worker[w] = "draining", poll[w] = NoPoll, [Next]_vars
    PROVE  poll'[w] = NoPoll
<1>1. ASSUME poll' = poll PROVE poll'[w] = NoPoll
  BY <1>1
<1>2. CASE UNCHANGED vars
  BY <1>1, <1>2 DEF vars
<1>3. ASSUME NEW i \in Items, ItemStep(i) PROVE poll'[w] = NoPoll
  BY <1>1, <1>3 DEF ItemStep, SubmitCheck, SubmitReject, SubmitPush, SubmitReserve,
     LookupCompleted, LookupFailed, LookupCancel, Lookup, ClearDeregistered, BackoffElapsed,
     ReclaimTimedOut, Reap, RetryFromDLQ
<1>4. ASSUME NEW v \in Workers, WorkerStep(v) PROVE poll'[w] = NoPoll
  <2>1. CASE PollAdmit(v)
    <3>1. v # w /\ poll' = [poll EXCEPT ![v] = AvailableBudget]
      BY <2>1 DEF PollAdmit
    <3> QED
      BY <3>1 DEF TypeOK
  <2>2. CASE PollEmpty(v) \/ \E i \in Items : AssignBest(v, i)
    <3>1. poll' = [poll EXCEPT ![v] = NoPoll]
      BY <2>2 DEF PollEmpty, AssignBest
    <3> QED
      BY <3>1 DEF TypeOK
  <2> QED
    BY <1>1, <1>4, <2>1, <2>2 DEF WorkerStep, Register, PauseWorker, DrainWorker, ResumeWorker,
       SetStatus, DeregisterWorker, Heartbeat, LookupStart, Lookup
<1>5. ASSUME NEW h \in Handlers, HandlerStep(h) PROVE poll'[w] = NoPoll
  BY <1>1, <1>5 DEF HandlerStep, MarkRunning, TakeOver, MarkCompleted, BookCompleted, JudgeFailed,
     MarkRequeued, ClearRequeued, MarkFailed, FileFailed, MarkCancelled, ClearCancelled
<1>6. CASE Checkpoint \/ PurgeDLQ \/ \E l \in Limits : SetBudgetLimit(l)
  BY <1>1, <1>6 DEF Checkpoint, PurgeDLQ, SetBudgetLimit
<1>7. CASE Restart
  BY <1>7 DEF Restart
<1> QED
  BY <1>2, <1>3, <1>4, <1>5, <1>6, <1>7 DEF Next

\* A worker that launches nothing and polls for nothing is handed nothing and
\* asks for no start.
LEMMA NothingLaunched ==
    ASSUME AgentTypes, NEW w \in Workers, poll[w] = NoPoll,
           \A i \in Items : launching[w][i] = 0, [SystemNext]_sysVars
    PROVE  OtherStep(w) /\ \A i \in Items : launching'[w][i] = 0
<1>1. ASSUME NEW v \in Workers, NEW i \in Items, HandOut(v, i) \/ HandOutLost(v, i)
      PROVE  OtherStep(w) /\ \A j \in Items : launching'[w][j] = 0
  <2>1. AssignBest(v, i) /\ v # w
    BY <1>1 DEF HandOut, HandOutLost, Assign, AssignBest
  <2>2. launching' = launching \/ launching' = Begun(launching, v, i)
    BY <1>1 DEF HandOut, HandOutLost, agentVars
  <2>3. \A j \in Items : Begun(launching, v, i)[w][j] = launching[w][j]
    BY <2>1, CountMoves DEF AgentTypes
  <2> QED
    BY <2>1, <2>2, <2>3 DEF OtherStep, RegistryStep
<1>2. ASSUME NEW v \in Workers, NEW i \in Items, LaunchSucceeds(v, i)
      PROVE  OtherStep(w) /\ \A j \in Items : launching'[w][j] = 0
  <2>1. launching[v][i] > 0 /\ launching' = Ended(launching, v, i)
    BY <1>2 DEF LaunchSucceeds
  <2>2. v # w
    BY <2>1
  <2>3. \A j \in Items : launching'[w][j] = launching[w][j]
    BY <2>1, <2>2, EndedMoves DEF AgentTypes
  <2>4. LookupStart(v, i) \/ UNCHANGED vars
    BY <1>2 DEF LaunchSucceeds
  <2> QED
    BY <2>2, <2>3, <2>4 DEF OtherStep
<1>3. ASSUME NEW v \in Workers, NEW i \in Items, LaunchFails(v, i) \/ SessionEnds(v, i)
      PROVE  OtherStep(w) /\ \A j \in Items : launching'[w][j] = 0
  <2>1. \/ launching' = launching
        \/ launching[v][i] > 0 /\ launching' = Ended(launching, v, i)
    BY <1>3 DEF LaunchFails, SessionEnds
  <2>2. launching[v][i] > 0 => v # w
    BY <2>1
  <2>3. \A j \in Items : launching'[w][j] = launching[w][j]
    BY <2>1, <2>2, EndedMoves DEF AgentTypes
  <2>4. \/ UNCHANGED vars
        \/ LookupFailed(i)
        \/ \E r \in Costs : LookupCompleted(i, r)
    BY <1>3 DEF LaunchFails, SessionEnds, ReportFailed, ReportCompleted
  <2> QED
    BY <2>3, <2>4 DEF OtherStep, ItemStep
<1>4. ASSUME NEW v \in Workers, AgentHeartbeat(v)
      PROVE  OtherStep(w) /\ \A j \in Items : launching'[w][j] = 0
  <2>1. /\ Heartbeat(v, AtCapacity(v)) /\ AtCapacity(v) \in BOOLEAN
        /\ launching' = launching
    BY <1>4 DEF AgentHeartbeat, AtCapacity, agentVars
  <2> QED
    BY <2>1 DEF OtherStep, RegistryStep
<1>5. ASSUME NEW v \in Workers, WorkerCrash(v)
      PROVE  OtherStep(w) /\ \A j \in Items : launching'[w][j] = 0
  <2>1. UNCHANGED vars /\ launching' = [launching EXCEPT ![v] = [i \in Items |-> 0]]
    BY <1>5 DEF WorkerCrash
  <2> QED
    BY <2>1, CrashMoves DEF AgentTypes, OtherStep
<1>6. ASSUME NEW v \in Workers, AgentStart(v) \/ AgentPoll(v) \/ PollNothing(v)
      PROVE  OtherStep(w) /\ \A j \in Items : launching'[w][j] = 0
  BY <1>6 DEF AgentStart, AgentPoll, PollNothing, agentVars, OtherStep, RegistryStep
<1>7. ASSUME NEW i \in Items,
             Submission(i) \/ DeregisterClears(i) \/ BackoffEnds(i) \/ ClaimExpires(i)
      PROVE  OtherStep(w) /\ \A j \in Items : launching'[w][j] = 0
  BY <1>7 DEF Submission, DeregisterClears, BackoffEnds, ClaimExpires, agentVars, OtherStep,
              ItemStep
<1>8. ASSUME NEW h \in Handlers, Serve(h)
      PROVE  OtherStep(w) /\ \A j \in Items : launching'[w][j] = 0
  BY <1>8 DEF Serve, agentVars, OtherStep
<1>9. CASE Operator
  BY <1>9 DEF Operator, agentVars, OtherStep, ItemStep, RegistryStep
<1>10. CASE UNCHANGED sysVars
  BY <1>10 DEF sysVars, agentVars, OtherStep
<1> QED
  BY <1>1, <1>2, <1>3, <1>4, <1>5, <1>6, <1>7, <1>8, <1>9, <1>10 DEF SystemNext

\* No step ends the quiet of a worker that is left draining.
LEMMA QuietStep ==
    ASSUME SystemTypeOK, AllVacated, NEW w \in Workers, Quiet(w), worker'[w] = "draining",
           [SystemNext]_sysVars
    PROVE  Quiet(w)'
<1>1. /\ worker[w] = "draining" /\ poll[w] = NoPoll
      /\ \A i \in Items : launching[w][i] = 0 /\ ~Answers(w, i)
      /\ Unasked(w)
  BY DEF Quiet, Unasked
<1>2. TypeOK /\ AgentTypes /\ [Next]_vars
  BY Projects DEF SystemTypeOK, AgentTypes, Counts
<1>3. OtherStep(w) /\ \A i \in Items : launching'[w][i] = 0
  BY <1>1, <1>2, NothingLaunched
<1>4. poll'[w] = NoPoll
  BY <1>1, <1>2, PollStays
<1>5. Unasked(w)'
  BY <1>1, <1>2, <1>3, UnaskedStep
<1>6. \A i \in Items : ~Answers(w, i)'
  BY <1>1, <1>2, SilentStep
<1> QED
  BY <1>3, <1>4, <1>5, <1>6 DEF Quiet, Unasked

\* Under every disturbance, a drained worker that is not polling is given nothing,
\* starts nothing and answers for nothing until its status changes: the drain
\* check of the poll and the lookups of the late calls suffice.
THEOREM DrainedStayDrained == SystemSpec => DrainHolds
<1>1. SystemTypeOK /\ AllVacated /\ [SystemNext]_sysVars =>
        [\A w \in Workers : Quiet(w) /\ worker'[w] = "draining" => Quiet(w)']_sysVars
  BY QuietStep
<1> QED
  BY <1>1, VacatedAlways, PTL DEF SystemSpec, DrainHolds

-----------------------------------------------------------------------------
(* Sums over finite sets. *)

\* The element that a fold takes from a set next.
OneOf(s) == CHOOSE x \in s : TRUE

\* The sums of f over the subsets of S, as the fold defines them.
Folded(f, S, it) ==
    it = [s \in SUBSET S |-> IF s = {} THEN 0 ELSE f[OneOf(s)] + it[s \ {OneOf(s)}]]

\* The definition of the community module.
LEMMA SumFolds ==
    ASSUME NEW f, NEW S
    PROVE  SumFunctionOnSet(f, S) = (CHOOSE it : Folded(f, S, it))[S]
BY DEF SumFunctionOnSet, FoldFunctionOnSet, MapThenFoldSet, Folded, OneOf

\* Numbers have a least one.
LEMMA LeastNumber ==
    ASSUME NEW B \in SUBSET Nat, B # {}
    PROVE  \E n \in B : \A m \in B : n <= m
<1>1. PICK n \in B : \A m \in B : <<m, n>> \notin OpToRel(<, Nat)
  BY NatLessThanWellFounded, WFMin, Zenon
<1>2. \A m \in B : ~(m < n)
  BY <1>1, Zenon DEF OpToRel
<1> QED
  BY <1>2

\* A set without the element that is taken from it.
LEMMA OneLess ==
    ASSUME NEW s, IsFiniteSet(s), s # {}
    PROVE  /\ OneOf(s) \in s
           /\ s \ {OneOf(s)} \in SUBSET s
           /\ IsFiniteSet(s \ {OneOf(s)})
           /\ Cardinality(s) \in Nat /\ Cardinality(s \ {OneOf(s)}) \in Nat
           /\ Cardinality(s \ {OneOf(s)}) = Cardinality(s) - 1
<1>1. OneOf(s) \in s
  BY DEF OneOf
<1>2. IsFiniteSet(s \ {OneOf(s)}) /\ Cardinality(s \ {OneOf(s)}) = Cardinality(s) - 1
  BY <1>1, FS_RemoveElement
<1> QED
  BY <1>1, <1>2, FS_CardinalityType

\* Finite sets have sums.
LEMMA FoldExists ==
    ASSUME NEW f, NEW S, IsFiniteSet(S)
    PROVE  \E it : Folded(f, S, it)
<1> DEFINE Small(n) == {s \in SUBSET S : Cardinality(s) <= n}
           Step(it, s) == IF s = {} THEN 0 ELSE f[OneOf(s)] + it[s \ {OneOf(s)}]
           Upto(n, it) == it = [s \in Small(n) |-> Step(it, s)]
           Bad == {n \in Nat : ~ \E it : Upto(n, it)}
<1>1. \A s \in SUBSET S : IsFiniteSet(s) /\ Cardinality(s) \in Nat
  BY FS_Subset, FS_CardinalityType
<1>2. \E it : Upto(0, it)
  <2>1. \A s \in Small(0) : s = {}
    BY <1>1, FS_EmptySet
  <2>2. [s \in Small(0) |-> 0] = [s \in Small(0) |-> Step([r \in Small(0) |-> 0], s)]
    BY <2>1
  <2> QED
    BY <2>2
<1>3. ASSUME NEW n \in Nat, NEW it, Upto(n, it) PROVE \E new : Upto(n + 1, new)
  <2> DEFINE new == [s \in Small(n + 1) |-> Step(it, s)]
  <2>1. \A s \in Small(n) : s \in Small(n + 1) /\ new[s] = it[s]
    <3>1. \A s \in Small(n) : s \in Small(n + 1)
      BY <1>1
    <3>2. \A s \in Small(n) : it[s] = Step(it, s)
      BY <1>3
    <3> HIDE DEF Small, Step
    <3> QED
      BY <3>1, <3>2
  <2>2. \A s \in Small(n + 1) : s # {} => s \ {OneOf(s)} \in Small(n)
    BY <1>1, OneLess
  <2>3. \A s \in Small(n + 1) : Step(new, s) = Step(it, s)
    <3> HIDE DEF Small, new
    <3> QED
      BY <2>1, <2>2
  <2>4. new = [s \in Small(n + 1) |-> Step(new, s)]
    <3>1. new = [s \in Small(n + 1) |-> Step(it, s)]
      OBVIOUS
    <3> HIDE DEF Small, Step, new
    <3> QED
      BY <2>3, <3>1
  <2> HIDE DEF new
  <2> QED
    BY <2>4
<1>4. Bad = {}
  <2> SUFFICES ASSUME Bad # {} PROVE FALSE
    OBVIOUS
  <2> HIDE DEF Upto
  <2>1. PICK n \in Bad : \A m \in Bad : n <= m
    BY LeastNumber
  <2>2. n # 0
    BY <1>2
  <2>3. n - 1 \in Nat /\ n - 1 \notin Bad
    BY <2>1, <2>2
  <2>4. PICK it : Upto(n - 1, it)
    BY <2>3
  <2>5. \E new : Upto((n - 1) + 1, new)
    BY <1>3, <2>3, <2>4
  <2> QED
    BY <2>1, <2>5
<1>5. Cardinality(S) \in Nat /\ Small(Cardinality(S)) = SUBSET S
  BY <1>1, FS_Subset
<1>6. PICK it : Upto(Cardinality(S), it)
  <2> HIDE DEF Upto
  <2> QED
    BY <1>4, <1>5
<1> QED
  BY <1>5, <1>6 DEF Folded

\* Sums of functions that agree agree, whatever else they are sums of.
LEMMA FoldsAgree ==
    ASSUME NEW f, NEW g, NEW S, NEW T, NEW a, NEW b, Folded(f, S, a), Folded(g, T, b),
           NEW U, IsFiniteSet(U), U \subseteq S, U \subseteq T, \A x \in U : f[x] = g[x]
    PROVE  a[U] = b[U]
<1> DEFINE Bad == {n \in Nat : \E s \in SUBSET U : Cardinality(s) = n /\ a[s] # b[s]}
<1>1. \A s \in SUBSET U : IsFiniteSet(s) /\ Cardinality(s) \in Nat
  BY FS_Subset, FS_CardinalityType
<1>2. \A s \in SUBSET U :
         /\ a[s] = IF s = {} THEN 0 ELSE f[OneOf(s)] + a[s \ {OneOf(s)}]
         /\ b[s] = IF s = {} THEN 0 ELSE g[OneOf(s)] + b[s \ {OneOf(s)}]
  <2> SUFFICES ASSUME NEW s \in SUBSET U
               PROVE  /\ a[s] = IF s = {} THEN 0 ELSE f[OneOf(s)] + a[s \ {OneOf(s)}]
                      /\ b[s] = IF s = {} THEN 0 ELSE g[OneOf(s)] + b[s \ {OneOf(s)}]
    OBVIOUS
  <2>1. s \in SUBSET S /\ s \in SUBSET T
    OBVIOUS
  <2> QED
    BY <2>1 DEF Folded
<1>3. Bad = {}
  <2> SUFFICES ASSUME Bad # {} PROVE FALSE
    OBVIOUS
  <2>1. PICK n \in Bad : \A m \in Bad : n <= m
    BY LeastNumber
  <2>2. PICK s \in SUBSET U : Cardinality(s) = n /\ a[s] # b[s]
    OBVIOUS
  <2>3. s # {}
    BY <1>2, <2>2
  <2>4. /\ OneOf(s) \in s /\ s \ {OneOf(s)} \in SUBSET U
        /\ Cardinality(s \ {OneOf(s)}) = n - 1 /\ Cardinality(s \ {OneOf(s)}) \in Nat
    BY <1>1, <2>2, <2>3, OneLess
  <2>5. n - 1 \notin Bad
    BY <2>1
  <2>6. a[s \ {OneOf(s)}] = b[s \ {OneOf(s)}]
    BY <2>4, <2>5
  <2> QED
    BY <1>2, <2>2, <2>3, <2>4, <2>6
<1> QED
  BY <1>1, <1>3

\* So the sum over a set is the element taken first and the sum of the others.
LEMMA SumStep ==
    ASSUME NEW f, NEW S, IsFiniteSet(S)
    PROVE  SumFunctionOnSet(f, S) =
             IF S = {} THEN 0 ELSE f[OneOf(S)] + SumFunctionOnSet(f, S \ {OneOf(S)})
<1> DEFINE it == CHOOSE a : Folded(f, S, a)
           R == S \ {OneOf(S)}
           ir == CHOOSE a : Folded(f, R, a)
<1>1. Folded(f, S, it)
  BY FoldExists
<1>2. SumFunctionOnSet(f, S) = it[S] /\ SumFunctionOnSet(f, R) = ir[R]
  BY SumFolds
<1>3. it[S] = IF S = {} THEN 0 ELSE f[OneOf(S)] + it[R]
  <2> HIDE DEF it
  <2> QED
    BY <1>1 DEF Folded
<1>4. IsFiniteSet(R)
  BY FS_Subset
<1>5. Folded(f, R, ir)
  BY <1>4, FoldExists
<1>6. it[R] = ir[R]
  <2> HIDE DEF it, ir
  <2> QED
    BY <1>1, <1>4, <1>5, FoldsAgree
<1> QED
  BY <1>2, <1>3, <1>6

\* A sum depends on the summands only.
LEMMA SumAgrees ==
    ASSUME NEW f, NEW g, NEW S, IsFiniteSet(S), \A x \in S : f[x] = g[x]
    PROVE  SumFunctionOnSet(f, S) = SumFunctionOnSet(g, S)
<1> DEFINE a == CHOOSE it : Folded(f, S, it)
           b == CHOOSE it : Folded(g, S, it)
<1>1. Folded(f, S, a) /\ Folded(g, S, b)
  BY FoldExists
<1>2. SumFunctionOnSet(f, S) = a[S] /\ SumFunctionOnSet(g, S) = b[S]
  BY SumFolds
<1> HIDE DEF a, b
<1> QED
  BY <1>1, <1>2, FoldsAgree

\* The sum of natural numbers is one.
LEMMA SumType ==
    ASSUME NEW f, NEW S, IsFiniteSet(S), \A x \in S : f[x] \in Nat
    PROVE  SumFunctionOnSet(f, S) \in Nat
<1> DEFINE Sum(s) == SumFunctionOnSet(f, s)
           Bad == {n \in Nat : \E s \in SUBSET S : Cardinality(s) = n /\ Sum(s) \notin Nat}
<1>1. \A s \in SUBSET S : IsFiniteSet(s) /\ Cardinality(s) \in Nat
  BY FS_Subset, FS_CardinalityType
<1>2. \A s \in SUBSET S : Sum(s) = IF s = {} THEN 0 ELSE f[OneOf(s)] + Sum(s \ {OneOf(s)})
  BY <1>1, SumStep
<1> HIDE DEF Sum
<1>3. Bad = {}
  <2> SUFFICES ASSUME Bad # {} PROVE FALSE
    OBVIOUS
  <2>1. PICK n \in Bad : \A m \in Bad : n <= m
    BY LeastNumber
  <2>2. PICK s \in SUBSET S : Cardinality(s) = n /\ Sum(s) \notin Nat
    OBVIOUS
  <2>3. s # {}
    BY <1>2, <2>2
  <2>4. /\ OneOf(s) \in s /\ s \ {OneOf(s)} \in SUBSET S
        /\ Cardinality(s \ {OneOf(s)}) = n - 1 /\ Cardinality(s \ {OneOf(s)}) \in Nat
    BY <1>1, <2>2, <2>3, OneLess
  <2>5. n - 1 \notin Bad
    BY <2>1
  <2>6. Sum(s \ {OneOf(s)}) \in Nat
    BY <2>4, <2>5
  <2>7. f[OneOf(s)] \in Nat
    BY <2>4
  <2> QED
    BY <1>2, <2>2, <2>3, <2>6, <2>7
<1>4. Sum(S) \in Nat
  BY <1>1, <1>3
<1> QED
  BY <1>4 DEF Sum

\* It does not matter which element is taken first.
LEMMA SumWithout ==
    ASSUME NEW f, NEW S, IsFiniteSet(S), \A x \in S : f[x] \in Nat, NEW x \in S
    PROVE  SumFunctionOnSet(f, S) = f[x] + SumFunctionOnSet(f, S \ {x})
<1> DEFINE Sum(s) == SumFunctionOnSet(f, s)
           Bad == {n \in Nat : \E s \in SUBSET S :
                     Cardinality(s) = n /\ \E y \in s : Sum(s) # f[y] + Sum(s \ {y})}
<1>1. \A s \in SUBSET S : IsFiniteSet(s) /\ Cardinality(s) \in Nat
  BY FS_Subset, FS_CardinalityType
<1>2. \A s \in SUBSET S : Sum(s) = IF s = {} THEN 0 ELSE f[OneOf(s)] + Sum(s \ {OneOf(s)})
  BY <1>1, SumStep
<1>3. \A s \in SUBSET S : Sum(s) \in Nat
  BY <1>1, SumType
<1> HIDE DEF Sum
<1>4. Bad = {}
  <2> SUFFICES ASSUME Bad # {} PROVE FALSE
    OBVIOUS
  <2>1. PICK n \in Bad : \A m \in Bad : n <= m
    BY LeastNumber
  <2>2. PICK s \in SUBSET S : Cardinality(s) = n /\ \E y \in s : Sum(s) # f[y] + Sum(s \ {y})
    OBVIOUS
  <2>3. PICK y \in s : Sum(s) # f[y] + Sum(s \ {y})
    BY <2>2
  <2> DEFINE z == OneOf(s)
  <2>4. /\ z \in s /\ s \ {z} \in SUBSET S
        /\ Cardinality(s \ {z}) = n - 1 /\ Cardinality(s \ {z}) \in Nat
        /\ Cardinality(s \ {y}) = n - 1 /\ Cardinality(s \ {y}) \in Nat
    BY <1>1, <2>2, OneLess, FS_RemoveElement
  <2>5. Sum(s) = f[z] + Sum(s \ {z})
    BY <1>2
  <2> HIDE DEF z
  <2>6. y # z
    BY <2>3, <2>5
  <2>7. n - 1 \notin Bad
    BY <2>1
  <2>8. Sum(s \ {z}) = f[y] + Sum((s \ {z}) \ {y})
    BY <2>4, <2>6, <2>7
  <2>9. Sum(s \ {y}) = f[z] + Sum((s \ {y}) \ {z})
    BY <2>4, <2>6, <2>7
  <2> DEFINE rest == Sum((s \ {y}) \ {z})
  <2>10. Sum(s \ {z}) = f[y] + rest
    <3>1. (s \ {z}) \ {y} = (s \ {y}) \ {z}
      OBVIOUS
    <3> QED
      BY <2>8, <3>1
  <2>11. f[y] \in Nat /\ f[z] \in Nat /\ rest \in Nat
    BY <1>3, <2>4
  <2>12. Sum(s \ {y}) = f[z] + rest
    BY <2>9
  <2> HIDE DEF rest
  <2> QED
    BY <2>3, <2>5, <2>10, <2>11, <2>12
<1>5. Sum(S) = f[x] + Sum(S \ {x})
  BY <1>1, <1>4
<1> QED
  BY <1>5 DEF Sum

\* A summand that grows makes the sum grow by as much.
LEMMA SumGrows ==
    ASSUME NEW f, NEW g, NEW S, IsFiniteSet(S), \A x \in S : f[x] \in Nat,
           NEW y \in S, NEW d \in Nat, g[y] = f[y] + d, \A x \in S : x # y => g[x] = f[x]
    PROVE  SumFunctionOnSet(g, S) = SumFunctionOnSet(f, S) + d
<1> DEFINE rest == SumFunctionOnSet(f, S \ {y})
<1>1. IsFiniteSet(S \ {y})
  BY FS_Subset
<1>2. SumFunctionOnSet(f, S) = f[y] + rest
  BY SumWithout
<1>3. \A x \in S : g[x] \in Nat
  OBVIOUS
<1>4. SumFunctionOnSet(g, S) = g[y] + SumFunctionOnSet(g, S \ {y})
  BY <1>3, SumWithout
<1>5. SumFunctionOnSet(g, S \ {y}) = rest
  BY <1>1, SumAgrees
<1>6. rest \in Nat
  BY <1>1, SumType
<1> HIDE DEF rest
<1> QED
  BY <1>2, <1>4, <1>5, <1>6

\* The sum over no set.
LEMMA SumOfNone == ASSUME NEW f PROVE SumFunctionOnSet(f, {}) = 0
BY SumStep, FS_EmptySet

\* A sum of zeros.
LEMMA SumOfZeros ==
    ASSUME NEW f, NEW S, IsFiniteSet(S), \A x \in S : f[x] = 0
    PROVE  SumFunctionOnSet(f, S) = 0
<1> DEFINE Bad == {n \in Nat : \E s \in SUBSET S : Cardinality(s) = n /\ SumFunctionOnSet(f, s) # 0}
<1>1. \A s \in SUBSET S : IsFiniteSet(s) /\ Cardinality(s) \in Nat
  BY FS_Subset, FS_CardinalityType
<1>2. Bad = {}
  <2> SUFFICES ASSUME Bad # {} PROVE FALSE
    OBVIOUS
  <2>1. PICK n \in Bad : \A m \in Bad : n <= m
    BY LeastNumber
  <2>2. PICK s \in SUBSET S : Cardinality(s) = n /\ SumFunctionOnSet(f, s) # 0
    OBVIOUS
  <2>3. SumFunctionOnSet(f, s) =
          IF s = {} THEN 0 ELSE f[OneOf(s)] + SumFunctionOnSet(f, s \ {OneOf(s)})
    BY <1>1, SumStep
  <2>4. s # {}
    BY <2>2, <2>3
  <2>5. /\ OneOf(s) \in s /\ s \ {OneOf(s)} \in SUBSET S
        /\ Cardinality(s \ {OneOf(s)}) = n - 1 /\ Cardinality(s \ {OneOf(s)}) \in Nat
    BY <1>1, <2>2, <2>4, OneLess
  <2>6. n - 1 \notin Bad
    BY <2>1
  <2>7. SumFunctionOnSet(f, s \ {OneOf(s)}) = 0
    BY <2>5, <2>6
  <2>8. f[OneOf(s)] = 0
    BY <2>5
  <2> QED
    BY <2>2, <2>3, <2>4, <2>7, <2>8
<1> QED
  BY <1>1, <1>2

-----------------------------------------------------------------------------
(* The ledger. *)

\* The sum of the workers' spend.
LEMMA LedgerSum ==
    ASSUME TypeOK
    PROVE  SumFunction(workerSpent) = SumFunctionOnSet(workerSpent, Workers)
BY DEF SumFunction, TypeOK

\* Reservations come and go beside what was spent.
LEMMA ReservingMoves ==
    ASSUME budget \in Budgets, NEW i \in Items
    PROVE  /\ Reserve(i).spent = budget.spent /\ Reserve(i).limit = budget.limit
           /\ Reserve(i).reserved = budget.reserved + MaxBudget[i]
           /\ Release(i).spent = budget.spent /\ Release(i).limit = budget.limit
           /\ Release(i).reserved = Monus(budget.reserved, MaxBudget[i])
BY DEF Budgets, Reserve, Release

\* Only the booking of a completion and a restart change what was spent.
LEMMA SpendMoves ==
    ASSUME TypeOK, Next, \A h \in Handlers : ~BookCompleted(h), ~Restart
    PROVE  workerSpent' = workerSpent /\ budget'.spent = budget.spent
<1>0. budget \in Budgets
  BY DEF TypeOK
<1>1. ASSUME NEW i \in Items, ItemStep(i)
      PROVE  workerSpent' = workerSpent /\ budget'.spent = budget.spent
  <2>1. CASE SubmitReserve(i)
    BY <1>0, <2>1, ReservingMoves DEF SubmitReserve
  <2>2. CASE UNCHANGED budgetVars
    BY <2>2 DEF budgetVars
  <2> QED
    BY <1>1, <2>1, <2>2 DEF ItemStep, SubmitCheck, SubmitReject, SubmitPush, LookupCompleted,
       LookupFailed, LookupCancel, Lookup, ClearDeregistered, BackoffElapsed, ReclaimTimedOut,
       Reap, RetryFromDLQ
<1>2. ASSUME NEW w \in Workers, WorkerStep(w)
      PROVE  workerSpent' = workerSpent /\ budget'.spent = budget.spent
  BY <1>2 DEF WorkerStep, Register, Heartbeat, PauseWorker, DrainWorker, ResumeWorker, SetStatus,
     DeregisterWorker, PollAdmit, PollEmpty, AssignBest, LookupStart, Lookup, budgetVars
<1>3. ASSUME NEW h \in Handlers, HandlerStep(h)
      PROVE  workerSpent' = workerSpent /\ budget'.spent = budget.spent
  <2>1. CASE ClearRequeued(h) \/ FileFailed(h) \/ ClearCancelled(h)
    <3>1. call[h].step # "idle" /\ workerSpent' = workerSpent /\ budget' = Release(call[h].item)
      BY <2>1 DEF ClearRequeued, FileFailed, ClearCancelled
    <3>2. call[h].item \in Items
      BY <3>1, CallTypes
    <3> QED
      BY <1>0, <3>1, <3>2, ReservingMoves
  <2>2. CASE UNCHANGED budgetVars
    BY <2>2 DEF budgetVars
  <2> QED
    BY <1>3, <2>1, <2>2 DEF HandlerStep, MarkRunning, TakeOver, MarkCompleted, JudgeFailed,
       MarkRequeued, MarkFailed, MarkCancelled
<1>4. ASSUME Checkpoint \/ PurgeDLQ \/ \E l \in Limits : SetBudgetLimit(l)
      PROVE  workerSpent' = workerSpent /\ budget'.spent = budget.spent
  BY <1>0, <1>4 DEF Checkpoint, PurgeDLQ, SetBudgetLimit, Budgets, budgetVars
<1> QED
  BY <1>1, <1>2, <1>3, <1>4 DEF Next

\* The ledger is kept: the fleet's spend grows with each worker's.
LEMMA LedgerStep ==
    ASSUME TypeOK, WorkerLedger, [Next]_vars
    PROVE  WorkerLedger'
<1>0. /\ budget \in Budgets /\ workerSpent \in [Workers -> Nat]
      /\ SumFunction(workerSpent) = SumFunctionOnSet(workerSpent, Workers)
  BY LedgerSum DEF TypeOK
<1>1. CASE workerSpent' = workerSpent /\ budget'.spent = budget.spent
  BY <1>1 DEF WorkerLedger
<1>2. ASSUME NEW h \in Handlers, BookCompleted(h) PROVE WorkerLedger'
  <2> DEFINE i == call[h].item
             r == call[h].cost
             w == work[i].owner
  <2>1. call[h].step # "idle" /\ Book(i, r)
    BY <1>2 DEF BookCompleted
  <2>2. i \in Items /\ r \in Costs \cup {NoResult} /\ w \in Workers \cup {NoWorker}
    BY <2>1, CallTypes DEF TypeOK, WorkRecords
  <2> HIDE DEF i, r, w
  <2>3. CASE r = NoResult
    BY <1>1, <2>1, <2>3 DEF Book, budgetVars
  <2>4. CASE r # NoResult
    <3>1. /\ r \in Nat
          /\ budget' = [Release(i) EXCEPT !.spent = Release(i).spent + r]
          /\ workerSpent' = Booked(i, r)
      BY <2>1, <2>2, <2>4, BudgetAssumption DEF Book
    <3>2. budget'.spent = budget.spent + r
      <4>1. Release(i) \in Budgets /\ Release(i).spent = budget.spent
        BY <1>0, <2>2, BudgetMoves, ReservingMoves
      <4> QED
        BY <3>1, <4>1 DEF Budgets
    <3>3. CASE w = NoWorker
      <4>1. workerSpent' = workerSpent
        BY <3>1, <3>3 DEF Booked, w
      <4>2. SumFunctionOnSet(workerSpent, Workers) \in Nat /\ budget.spent \in Nat
        BY <1>0, SumType, FiniteAssumption DEF Budgets
      <4> QED
        BY <1>0, <3>1, <3>2, <4>1, <4>2 DEF WorkerLedger
    <3>4. CASE w # NoWorker
      <4>1. w \in Workers /\ workerSpent' = [workerSpent EXCEPT ![w] = workerSpent[w] + r]
        BY <2>2, <3>1, <3>4 DEF Booked, w
      <4>2. /\ workerSpent'[w] = workerSpent[w] + r
            /\ \A v \in Workers : v # w => workerSpent'[v] = workerSpent[v]
            /\ DOMAIN workerSpent' = Workers
            /\ \A v \in Workers : workerSpent[v] \in Nat
        BY <1>0, <4>1
      <4>3. SumFunctionOnSet(workerSpent', Workers) = SumFunctionOnSet(workerSpent, Workers) + r
        <5> DEFINE f == workerSpent
                   g == workerSpent'
        <5>1. /\ IsFiniteSet(Workers) /\ w \in Workers /\ r \in Nat /\ g[w] = f[w] + r
              /\ \A v \in Workers : v # w => g[v] = f[v]
              /\ \A v \in Workers : f[v] \in Nat
          BY <3>1, <4>1, <4>2, FiniteAssumption
        <5> HIDE DEF f, g
        <5>2. SumFunctionOnSet(g, Workers) = SumFunctionOnSet(f, Workers) + r
          BY <5>1, SumGrows
        <5> QED
          BY <5>2 DEF f, g
      <4>4. SumFunction(workerSpent') = SumFunctionOnSet(workerSpent', Workers)
        BY <4>2 DEF SumFunction
      <4>5. SumFunctionOnSet(workerSpent, Workers) \in Nat /\ budget.spent \in Nat
        BY <1>0, SumType, FiniteAssumption DEF Budgets
      <4> QED
        BY <1>0, <3>1, <3>2, <4>3, <4>4, <4>5 DEF WorkerLedger
    <3> QED
      BY <3>3, <3>4
  <2> QED
    BY <2>3, <2>4
<1>3. CASE Restart
  <2>1. workerSpent' = [w \in Workers |-> 0] /\ budget'.spent = 0
    BY <1>3 DEF Restart
  <2>2. DOMAIN workerSpent' = Workers /\ \A w \in Workers : workerSpent'[w] = 0
    BY <2>1
  <2>3. SumFunctionOnSet(workerSpent', Workers) = 0
    BY <2>2, SumOfZeros, FiniteAssumption
  <2> QED
    BY <2>1, <2>2, <2>3 DEF WorkerLedger, SumFunction
<1>4. CASE UNCHANGED vars
  BY <1>1, <1>4 DEF vars
<1> QED
  BY <1>1, <1>2, <1>3, <1>4, SpendMoves

\* What the workers' ledgers say was spent is never more than what the fleet's
\* says, whatever reports are repeated, lost or late and whoever owns the item by
\* then (budget.go:54, server_handlers.go:226): both are booked in one step.
THEOREM LedgerIsKept == SystemSpec => []WorkerLedger
<1>1. SystemInit => WorkerLedger
  <2> SUFFICES ASSUME SystemInit PROVE WorkerLedger
    OBVIOUS
  <2>1. /\ DOMAIN workerSpent = Workers /\ \A w \in Workers : workerSpent[w] = 0
        /\ budget.spent = 0
    BY DEF SystemInit, Init
  <2> QED
    BY <2>1, SumOfZeros, FiniteAssumption DEF WorkerLedger, SumFunction
<1>2. TypeOK /\ WorkerLedger /\ [SystemNext]_sysVars => WorkerLedger'
  BY LedgerStep, Projects
<1>3. SystemTypeOK => TypeOK
  BY DEF SystemTypeOK
<1> QED
  BY <1>1, <1>2, <1>3, SystemTypeCorrect, PTL DEF SystemSpec

-----------------------------------------------------------------------------
(* The reservations. *)

\* Neither does a session fail nor is the dead letter queue purged.  A failure
\* releases the reservation of an item that is tried again and reserves
\* nothing for the next attempt (server_handlers.go:228), and a purged item
\* keeps what was reserved for it.
Unfailing == Disturbances \cap {"fail", "purge"} = {}

\* The calls of agents whose sessions do not fail, with a cost of what a session
\* may spend.
InOrder(h, i) ==
    /\ call[h].step \in {"start", "start_owner", "complete", "complete_book"}
    /\ call[h].step \in {"complete", "complete_book"} =>
          /\ call[h].cost \in Costs
          /\ MaxBudget[i] > 0 => call[h].cost <= MaxBudget[i]

\* The submission, the record and the calls of an item that never fails: what
\* was reaped is pending, and nothing runs or is called about before it is
\* accepted.
Orderly(i) ==
    /\ submit[i] \in {"new", "checked", "pushed", "accepted"}
    /\ work[i].status # "failed"
    /\ i \in dlq => work[i].status = "pending"
    /\ submit[i] = "pushed" => /\ work[i].status \in {"pending", "assigned"}
                               /\ \A w \in Workers : running[w][i] = 0
                               /\ \A h \in Handlers : ~On(h, i)
    /\ \A h \in Handlers : On(h, i) => InOrder(h, i)

\* All items are in order.
AllOrderly == \A i \in Items : Orderly(i)

\* The item's reservation stands.
Holds(i) == submit[i] = "accepted" /\ ~Closed(i)

\* A step changes nothing of item j but perhaps its owner, and ends executions at
\* most.
Untouched(j) ==
    /\ work'[j].status = work[j].status
    /\ j \in dlq' => j \in dlq
    /\ submit'[j] = submit[j]
    /\ \A w \in Workers : running'[w][j] \in {running[w][j], 0}
    /\ \A h \in Handlers : call'[h] = call[h] \/ (~On(h, j) /\ ~On(h, j)')

\* Then the item stays in order, and its reservation as it is.
LEMMA UntouchedKept ==
    ASSUME NEW j \in Items, Orderly(j), Untouched(j)
    PROVE  Orderly(j)' /\ (Holds(j)' <=> Holds(j))
<1>1. \A h \in Handlers : On(h, j)' => On(h, j) /\ call'[h] = call[h]
  BY DEF Untouched, On
<1>2. \A h \in Handlers : On(h, j) => On(h, j)' /\ call'[h] = call[h]
  BY DEF Untouched, On
<1>3. \A h \in Handlers : At(h, {"complete_book"}, j)' <=> At(h, {"complete_book"}, j)
  <2> SUFFICES ASSUME NEW h \in Handlers
               PROVE  At(h, {"complete_book"}, j)' <=> At(h, {"complete_book"}, j)
    OBVIOUS
  <2>1. At(h, {"complete_book"}, j) => On(h, j)
    BY AtIsOn
  <2>2. At(h, {"complete_book"}, j)' => On(h, j)'
    BY DEF At, On, Idle
  <2> QED
    BY <1>1, <1>2, <2>1, <2>2 DEF At
<1>4. Holds(j)' <=> Holds(j)
  BY <1>3 DEF Untouched, Holds, Closed
<1>5. \A h \in Handlers : On(h, j)' => InOrder(h, j)'
  BY <1>1 DEF Orderly, InOrder
<1>6. \A w \in Workers : running[w][j] = 0 => running'[w][j] = 0
  BY DEF Untouched
<1>7. Orderly(j)'
  BY <1>1, <1>5, <1>6 DEF Orderly, Untouched
<1> QED
  BY <1>4, <1>7

\* An item that has no outcome goes back to the queue, on to a worker or to the
\* dead letter queue.
LEMMA RequeuedKept ==
    ASSUME NEW i \in Items, Orderly(i), work[i].status \notin Terminal,
           work'[i].status \in {"pending", "assigned"}, i \in dlq' => work'[i].status = "pending",
           submit'[i] = submit[i], UNCHANGED call,
           \A w \in Workers : running'[w][i] = running[w][i]
    PROVE  Orderly(i)' /\ (Holds(i)' <=> Holds(i))
<1>1. work'[i].status \notin Terminal /\ work'[i].status # "failed"
  BY DEF Terminal
<1>2. Holds(i)' <=> Holds(i)
  BY <1>1 DEF Holds, Closed
<1>3. Orderly(i)'
  BY <1>1 DEF Orderly, InOrder, On
<1> QED
  BY <1>2, <1>3

\* What a step does to the money.  It may leave the reservations, the amounts and
\* the submissions alone (but for the ceiling when an operator sets it);
Still ==
    /\ \A j \in Items : Holds(j)' <=> Holds(j)
    /\ budget'.spent = budget.spent /\ budget'.reserved = budget.reserved
    /\ budget'.limit # budget.limit => "limit" \in Disturbances
    /\ \A j \in Items : SubmissionOpen(j)' => SubmissionOpen(j)

\* ... admit a submission;
Admits(i) ==
    /\ \A j \in Items : Holds(j)' <=> Holds(j)
    /\ UNCHANGED budget
    /\ MaxBudget[i] > 0 => MaxBudget[i] <= AvailableBudget
    /\ \A j \in Items : SubmissionOpen(j)' => j = i \/ SubmissionOpen(j)
    /\ "race" \in Disturbances \/ \A j \in Items : ~SubmissionOpen(j)

\* ... reserve what an admitted one needs;
Reserves(i) ==
    /\ Holds(i)' /\ ~Holds(i)
    /\ \A j \in Items : j # i => (Holds(j)' <=> Holds(j))
    /\ budget' = Reserve(i)
    /\ SubmissionOpen(i) /\ ~SubmissionOpen(i)'
    /\ \A j \in Items : SubmissionOpen(j)' => SubmissionOpen(j)

\* ... or release what an item had reserved and book what it spent.
Pays(i) ==
    /\ ~Holds(i)' /\ Holds(i)
    /\ \A j \in Items : j # i => (Holds(j)' <=> Holds(j))
    /\ \E r \in Costs : /\ MaxBudget[i] > 0 => r <= MaxBudget[i]
                        /\ budget' = [Release(i) EXCEPT !.spent = @ + r]
    /\ \A j \in Items : SubmissionOpen(j)' => SubmissionOpen(j)

\* One of the four.
MoneyMoves == Still \/ \E i \in Items : Admits(i) \/ Reserves(i) \/ Pays(i)

\* A step that concerns item i only.
LEMMA OthersUntouched ==
    ASSUME AllOrderly, NEW i \in Items, Orderly(i)', \A j \in Items : j # i => Untouched(j)
    PROVE  AllOrderly' /\ \A j \in Items : j # i => (Holds(j)' <=> Holds(j))
BY UntouchedKept DEF AllOrderly

\* A step that leaves all items alone.
LEMMA AllUntouched ==
    ASSUME AllOrderly, \A j \in Items : Untouched(j)
    PROVE  AllOrderly' /\ \A j \in Items : Holds(j)' <=> Holds(j)
BY UntouchedKept DEF AllOrderly

\* Submissions.
LEMMA MoneySubmission ==
    ASSUME TypeOK, AgentTypes, InCustody, AllOrderly, NEW i \in Items, Submission(i)
    PROVE  AllOrderly' /\ MoneyMoves
<1>0. /\ running' = running
      /\ \/ SubmitCheck(i) /\ ("race" \in Disturbances \/ \A j \in Items : ~SubmissionOpen(j))
         \/ SubmitReject(i) \/ SubmitPush(i) \/ SubmitReserve(i)
  BY DEF Submission, agentVars, Disturb
<1>1. Orderly(i) /\ RecordInPlace(i) /\ CallIsDue(i) /\ submit \in [Items -> SubmitPhases]
  BY DEF AllOrderly, InCustody, Custody, TypeOK
<1>2. CASE SubmitCheck(i) \/ SubmitReject(i)
  <2>1. /\ submit[i] \in {"new", "checked"} /\ submit'[i] \in {"new", "checked"}
        /\ \A j \in Items : j # i => submit'[j] = submit[j]
        /\ UNCHANGED <<work, dlq, call, budget>>
    BY <1>1, <1>2 DEF SubmitCheck, SubmitReject, queueVars, callVars, budgetVars
  <2>2. Orderly(i)'
    BY <1>0, <1>1, <2>1 DEF Orderly, InOrder, On
  <2>3. \A j \in Items : j # i => Untouched(j)
    BY <1>0, <2>1 DEF Untouched
  <2>4. AllOrderly' /\ \A j \in Items : j # i => (Holds(j)' <=> Holds(j))
    BY <2>2, <2>3, OthersUntouched
  <2>5. ~Holds(i)' /\ ~Holds(i)
    BY <2>1 DEF Holds
  <2>6. CASE SubmitReject(i)
    <3>1. submit'[i] = "new"
      BY <1>1, <2>6 DEF SubmitReject
    <3>2. Still
      BY <2>1, <2>4, <2>5, <3>1 DEF Still, SubmissionOpen
    <3> QED
      BY <2>4, <3>2 DEF MoneyMoves
  <2>7. CASE ~SubmitReject(i)
    <3>1. Admits(i)
      BY <1>0, <1>2, <2>1, <2>4, <2>5, <2>7 DEF Admits, SubmissionOpen, SubmitCheck, SubmitReject,
         SubmitPush, SubmitReserve
    <3> QED
      BY <2>4, <3>1 DEF MoneyMoves
  <2> QED
    BY <2>6, <2>7
<1>3. CASE SubmitPush(i)
  <2>1. /\ submit[i] = "checked" /\ submit'[i] = "pushed"
        /\ \A j \in Items : j # i => submit'[j] = submit[j] /\ work'[j] = work[j]
        /\ work'[i] = NewWork /\ UNCHANGED <<dlq, call, budget>>
    BY <1>1, <1>3 DEF SubmitPush, callVars, budgetVars, TypeOK
  <2>2. i \notin items /\ i \notin dlq /\ work[i] = NewWork
    BY <1>1, <2>1 DEF RecordInPlace
  <2>3. NewWork.status = "pending"
    BY DEF NewWork
  <2>4. \A w \in Workers : running'[w][i] = 0
    BY <1>0, <2>2, <2>3, AtRest DEF Active
  <2>5. \A h \in Handlers : ~On(h, i)'
    BY <1>1, <2>1, <2>2 DEF CallIsDue, On
  <2>6. Orderly(i)'
    BY <2>1, <2>2, <2>3, <2>4, <2>5 DEF Orderly
  <2>7. \A j \in Items : j # i => Untouched(j)
    BY <1>0, <2>1 DEF Untouched
  <2>8. AllOrderly' /\ \A j \in Items : j # i => (Holds(j)' <=> Holds(j))
    BY <2>6, <2>7, OthersUntouched
  <2>9. Still
    BY <2>1, <2>8 DEF Still, Holds, SubmissionOpen
  <2> QED
    BY <2>8, <2>9 DEF MoneyMoves
<1>4. CASE SubmitReserve(i)
  <2>1. /\ submit[i] = "pushed" /\ submit'[i] = "accepted"
        /\ \A j \in Items : j # i => submit'[j] = submit[j]
        /\ UNCHANGED <<work, dlq, call>> /\ budget' = Reserve(i)
    BY <1>1, <1>4 DEF SubmitReserve, queueVars, callVars
  <2>2. Orderly(i)'
    BY <1>0, <1>1, <2>1 DEF Orderly, InOrder, On
  <2>3. \A j \in Items : j # i => Untouched(j)
    BY <1>0, <2>1 DEF Untouched
  <2>4. AllOrderly' /\ \A j \in Items : j # i => (Holds(j)' <=> Holds(j))
    BY <2>2, <2>3, OthersUntouched
  <2>5. Holds(i)' /\ ~Holds(i)
    BY <1>1, <2>1 DEF Holds, Closed, Orderly, Terminal
  <2>6. Reserves(i)
    BY <2>1, <2>4, <2>5 DEF Reserves, SubmissionOpen
  <2> QED
    BY <2>4, <2>6 DEF MoneyMoves
<1> QED
  BY <1>0, <1>2, <1>3, <1>4

\* What moves an item between queue, workers and dead letters, and time.
LEMMA MoneyRequeue ==
    ASSUME TypeOK, AgentTypes, InCustody, AllOrderly, NEW i \in Items,
           \/ \E w \in Workers : AssignBest(w, i)
           \/ ReclaimTimedOut(i) \/ Reap(i) \/ RetryFromDLQ(i) \/ BackoffElapsed(i),
           running' = running
    PROVE  AllOrderly' /\ MoneyMoves
<1>1. /\ UNCHANGED <<submit, call, budget>>
      /\ \A j \in Items : j # i => work'[j] = work[j] /\ (j \in dlq' <=> j \in dlq)
  BY DEF AssignBest, ReclaimTimedOut, Reap, RetryFromDLQ, BackoffElapsed, callVars, budgetVars,
         TypeOK
<1>2. Orderly(i) /\ RecordInPlace(i) /\ work[i] \in WorkRecords /\ work \in [Items -> WorkRecords]
  BY DEF AllOrderly, InCustody, Custody, TypeOK
<1>3. Orderly(i)' /\ (Holds(i)' <=> Holds(i))
  <2>1. CASE BackoffElapsed(i)
    <3>1. work'[i].status = work[i].status /\ dlq' = dlq
      BY <1>2, <2>1 DEF BackoffElapsed, WorkRecords
    <3>2. Untouched(i)
      BY <1>1, <3>1 DEF Untouched
    <3> QED
      BY <1>2, <3>2, UntouchedKept
  <2>2. CASE \E w \in Workers : AssignBest(w, i)
    <3>1. PICK w \in Workers : AssignBest(w, i)
      BY <2>2
    <3>2. /\ i \in items /\ work[i].status = "pending" /\ dlq' = dlq
          /\ work' = [work EXCEPT ![i] = Owned(work[i], "assigned", w)]
      BY <3>1 DEF AssignBest, Eligible
    <3>3. work'[i].status = "assigned"
      BY <1>2, <3>2 DEF Owned, WorkRecords
    <3> QED
      BY <1>1, <1>2, <3>2, <3>3, RequeuedKept DEF RecordInPlace, Terminal
  <2>3. CASE ReclaimTimedOut(i)
    <3>1. /\ work[i].status = "assigned" /\ work'[i].status = "pending"
      BY <1>2, <2>3 DEF ReclaimTimedOut, Unassigned, Owned, WorkRecords
    <3> QED
      BY <1>1, <1>2, <3>1, RequeuedKept DEF Terminal
  <2>4. CASE Reap(i)
    <3>1. work[i].status = "pending" /\ work'[i].status = "pending"
      BY <2>4 DEF Reap
    <3> QED
      BY <1>1, <1>2, <3>1, RequeuedKept DEF Terminal
  <2>5. CASE RetryFromDLQ(i)
    <3>1. work[i].status = "pending" /\ work'[i].status = "pending"
      BY <1>2, <2>5 DEF RetryFromDLQ, NewWork, Orderly
    <3> QED
      BY <1>1, <1>2, <3>1, RequeuedKept DEF Terminal
  <2> QED
    BY <2>1, <2>2, <2>3, <2>4, <2>5
<1>4. \A j \in Items : j # i => Untouched(j)
  BY <1>1 DEF Untouched
<1>5. AllOrderly' /\ \A j \in Items : j # i => (Holds(j)' <=> Holds(j))
  BY <1>3, <1>4, OthersUntouched
<1>6. Still
  BY <1>1, <1>3, <1>5 DEF Still, SubmissionOpen
<1> QED
  BY <1>5, <1>6 DEF MoneyMoves

\* A step that changes no item, no submission and no amount.
LEMMA MoneyAlone ==
    ASSUME AllOrderly, UNCHANGED <<submit, call>>,
           \A j \in Items : work'[j].status = work[j].status /\ (j \in dlq' => j \in dlq),
           \A w \in Workers, j \in Items : running'[w][j] \in {running[w][j], 0},
           budget' = budget \/ /\ "limit" \in Disturbances
                               /\ budget'.spent = budget.spent
                               /\ budget'.reserved = budget.reserved
    PROVE  AllOrderly' /\ MoneyMoves
<1>1. \A j \in Items : Untouched(j)
  BY DEF Untouched
<1>2. AllOrderly' /\ \A j \in Items : Holds(j)' <=> Holds(j)
  BY <1>1, AllUntouched
<1>3. Still
  BY <1>2 DEF Still, SubmissionOpen
<1> QED
  BY <1>2, <1>3 DEF MoneyMoves

\* The steps of a handler.
LEMMA MoneyServe ==
    ASSUME TypeOK, AgentTypes, InCustody, AllOrderly, NEW h \in Handlers, Serve(h)
    PROVE  AllOrderly' /\ MoneyMoves
<1>0. HandlerStep(h) /\ UNCHANGED agentVars /\ running' = running
  BY DEF Serve, agentVars
<1>1. call[h].step # "idle"
  BY <1>0 DEF HandlerStep, MarkRunning, TakeOver, MarkCompleted, BookCompleted, JudgeFailed,
     MarkRequeued, ClearRequeued, MarkFailed, FileFailed, MarkCancelled, ClearCancelled
<1>2. PICK i \in Items : call[h].item = i
  BY <1>1, CallTypes
<1>3. /\ On(h, i) /\ i \in items /\ i \notin dlq /\ submit[i] \notin {"new", "checked"}
      /\ Due(h, i) /\ \A g \in Handlers : g # h => ~On(g, i)
  BY <1>1, <1>2, ServedItem
<1>4. Orderly(i) /\ InOrder(h, i) /\ submit[i] = "accepted"
  BY <1>3 DEF AllOrderly, Orderly
<1>5. work \in [Items -> WorkRecords] /\ work[i] \in WorkRecords
  BY DEF TypeOK
<1>6. MarkRunning(h) \/ TakeOver(h) \/ MarkCompleted(h) \/ BookCompleted(h)
  BY <1>0, <1>4 DEF HandlerStep, InOrder, JudgeFailed, MarkRequeued, ClearRequeued, MarkFailed,
     FileFailed, MarkCancelled, ClearCancelled
<1>7. /\ UNCHANGED submit /\ dlq' = dlq
      /\ \A j \in Items : j # i => work'[j] = work[j]
      /\ (\E s \in CallSteps : Advance(h, s)) \/ Return(h)
  BY <1>2, <1>5, <1>6 DEF MarkRunning, TakeOver, MarkCompleted, BookCompleted, SetStatusOf,
     CallSteps
<1>8. \A j \in Items : j # i => \A g \in Handlers : call'[g] = call[g] \/ (~On(g, j) /\ ~On(g, j)')
  BY <1>1, <1>2, <1>7, Advances, Returns
<1>9. \A j \in Items : j # i => Untouched(j)
  BY <1>0, <1>7, <1>8 DEF Untouched
<1>10. \A g \in Handlers : g # h => ~On(g, i)'
  BY <1>1, <1>2, <1>3, <1>7, Advances, Returns
<1>11. \A g \in Handlers : g # h => ~At(g, {"complete_book"}, i) /\ ~At(g, {"complete_book"}, i)'
  BY <1>3, <1>10 DEF At, On, Idle
<1>12. CASE MarkRunning(h)
  <2>1. /\ call[h].step = "start" /\ Advance(h, "start_owner") /\ budget' = budget
        /\ work' = [work EXCEPT ![i].status = "running"]
    BY <1>2, <1>12 DEF MarkRunning, SetStatusOf, budgetVars
  <2>2. work'[i].status = "running" /\ work[i].status = "assigned"
    BY <1>3, <1>5, <2>1 DEF Due
  <2>3. call'[h].step = "start_owner"
    BY <1>1, <1>2, <2>1, Advances DEF CallSteps
  <2>4. Orderly(i)'
    BY <1>3, <1>4, <1>7, <1>10, <2>2, <2>3 DEF Orderly, InOrder
  <2>5. Holds(i)' /\ Holds(i)
    BY <1>4, <1>7, <2>2 DEF Holds, Closed, Terminal
  <2> QED
    BY <1>7, <1>9, <2>1, <2>4, <2>5, OthersUntouched DEF MoneyMoves, Still, SubmissionOpen
<1>13. CASE TakeOver(h)
  <2>1. /\ call[h].step = "start_owner" /\ Return(h) /\ budget' = budget
        /\ work' = [work EXCEPT ![i].owner = call[h].worker]
    BY <1>2, <1>13 DEF TakeOver, budgetVars
  <2>2. work'[i].status = work[i].status /\ work[i].status = "running"
    BY <1>3, <1>5, <2>1 DEF Due, WorkRecords
  <2>3. ~On(h, i)'
    BY <1>1, <1>2, <2>1, Returns
  <2>4. Orderly(i)'
    BY <1>3, <1>4, <1>7, <1>10, <2>2, <2>3 DEF Orderly
  <2>5. Holds(i)' /\ Holds(i)
    BY <1>4, <1>7, <2>2 DEF Holds, Closed, Terminal
  <2> QED
    BY <1>7, <1>9, <2>1, <2>4, <2>5, OthersUntouched DEF MoneyMoves, Still, SubmissionOpen
<1>14. CASE MarkCompleted(h)
  <2>1. /\ call[h].step = "complete" /\ Advance(h, "complete_book") /\ budget' = budget
        /\ work' = [work EXCEPT ![i].status = "completed"]
    BY <1>2, <1>14 DEF MarkCompleted, SetStatusOf, budgetVars
  <2>2. work'[i].status = "completed" /\ work[i].status = "running"
    BY <1>3, <1>5, <2>1 DEF Due
  <2>3. /\ call'[h].step = "complete_book" /\ call'[h].item = i /\ call'[h].cost = call[h].cost
    <3>1. call \in [Handlers -> Calls \cup {Idle}] /\ call[h] \in Calls
      BY <1>1, CallTypes DEF TypeOK
    <3>2. call' = [call EXCEPT ![h] = [call[h] EXCEPT !.step = "complete_book"]]
      BY <2>1 DEF Advance
    <3>3. call'[h] = [call[h] EXCEPT !.step = "complete_book"]
      BY <3>1, <3>2
    <3> QED
      BY <1>2, <3>1, <3>3 DEF Calls
  <2>4. InOrder(h, i)'
    BY <1>4, <2>1, <2>3 DEF InOrder
  <2>5. Orderly(i)'
    BY <1>3, <1>4, <1>7, <1>10, <2>2, <2>4 DEF Orderly
  <2>6. Holds(i)' /\ Holds(i)
    BY <1>4, <1>7, <2>2, <2>3 DEF Holds, Closed, Terminal, At
  <2> QED
    BY <1>7, <1>9, <2>1, <2>5, <2>6, OthersUntouched DEF MoneyMoves, Still, SubmissionOpen
<1>15. CASE BookCompleted(h)
  <2>1. /\ call[h].step = "complete_book" /\ Return(h) /\ Book(i, call[h].cost) /\ work' = work
    BY <1>2, <1>15 DEF BookCompleted
  <2>2. work[i].status = "completed" /\ call[h].cost \in Costs
        /\ (MaxBudget[i] > 0 => call[h].cost <= MaxBudget[i])
    BY <1>3, <1>4, <2>1 DEF Due, InOrder
  <2>3. call[h].cost # NoResult
    BY <2>2, BudgetAssumption
  <2>4. budget' = [Release(i) EXCEPT !.spent = Release(i).spent + call[h].cost]
    BY <2>1, <2>3 DEF Book
  <2>5. ~On(h, i)'
    BY <1>1, <1>2, <2>1, Returns
  <2>6. Orderly(i)'
    BY <1>3, <1>4, <1>7, <1>10, <2>1, <2>5 DEF Orderly
  <2>7. \A g \in Handlers : ~At(g, {"complete_book"}, i)'
    BY <1>11, <2>5 DEF At, On, Idle
  <2>8. At(h, {"complete_book"}, i)
    BY <1>2, <2>1 DEF At
  <2>9. ~Holds(i)' /\ Holds(i)
    BY <1>4, <1>7, <2>1, <2>2, <2>7, <2>8 DEF Holds, Closed, Terminal
  <2>10. AllOrderly' /\ \A j \in Items : j # i => (Holds(j)' <=> Holds(j))
    BY <1>9, <2>6, OthersUntouched
  <2>11. Pays(i)
    BY <1>7, <2>2, <2>4, <2>9, <2>10 DEF Pays, SubmissionOpen
  <2> QED
    BY <2>10, <2>11 DEF MoneyMoves
<1> QED
  BY <1>6, <1>12, <1>13, <1>14, <1>15

\* A call of an agent about an accepted item.
LEMMA MoneyLookup ==
    ASSUME TypeOK, AllOrderly, NEW i \in Items, NEW c \in Calls, c.item = i, Lookup(c),
           submit[i] = "accepted", c.step \in {"start", "complete"},
           c.step = "complete" => c.cost \in Costs /\ (MaxBudget[i] > 0 => c.cost <= MaxBudget[i]),
           \A w \in Workers, j \in Items : j # i => running'[w][j] = running[w][j]
    PROVE  AllOrderly' /\ MoneyMoves
<1>0. budget' = budget
  BY DEF Lookup, budgetVars
<1>1. /\ UNCHANGED <<dlq, work, submit, budget>>
      /\ \E h \in Handlers : /\ call'[h] = c /\ On(h, i)'
                             /\ \A j \in Items : ~On(h, j)
                             /\ \A j \in Items : j # i => ~On(h, j)'
                             /\ \A g \in Handlers : g # h => call'[g] = call[g]
  BY <1>0, LookedUp
<1>2. PICK h \in Handlers : /\ call'[h] = c /\ On(h, i)'
                            /\ \A j \in Items : ~On(h, j)
                            /\ \A j \in Items : j # i => ~On(h, j)'
                            /\ \A g \in Handlers : g # h => call'[g] = call[g]
  BY <1>1
<1>3. \A j \in Items : j # i => Untouched(j)
  BY <1>1, <1>2 DEF Untouched
<1>4. Orderly(i)
  BY DEF AllOrderly
<1>5. InOrder(h, i)'
  BY <1>2 DEF InOrder
<1>6. \A g \in Handlers : g # h => (On(g, i)' => On(g, i)) /\ (InOrder(g, i) => InOrder(g, i)')
  BY <1>2 DEF On, InOrder
<1>7. Orderly(i)'
  BY <1>1, <1>4, <1>5, <1>6 DEF Orderly
<1>8. \A g \in Handlers : At(g, {"complete_book"}, i)' <=> At(g, {"complete_book"}, i)
  <2>1. ~At(h, {"complete_book"}, i)'
    BY <1>2 DEF At
  <2>2. ~At(h, {"complete_book"}, i)
    BY <1>2, AtIsOn
  <2> QED
    BY <1>2, <2>1, <2>2 DEF At
<1>9. Holds(i)' <=> Holds(i)
  BY <1>1, <1>8 DEF Holds, Closed
<1> QED
  BY <1>1, <1>3, <1>7, <1>9, OthersUntouched DEF MoneyMoves, Still, SubmissionOpen

\* What is executed was accepted before its session ran.
LEMMA RunningAccepted ==
    ASSUME InCustody, AllOrderly, NEW w \in Workers, NEW i \in Items,
           running[w][i] > 0 \/ (launching[w][i] > 0 /\ Reserved(i))
    PROVE  submit[i] = "accepted"
<1>1. Orderly(i) /\ submit[i] \notin {"new", "checked"}
  BY Executed DEF AllOrderly
<1> QED
  BY <1>1 DEF Orderly, Reserved

\* The agents.
LEMMA MoneyAgent ==
    ASSUME TypeOK, AgentTypes, InCustody, AllOrderly, Reliable, Unfailing,
           NEW w \in Workers, NEW i \in Items,
           HandOut(w, i) \/ HandOutLost(w, i) \/ LaunchSucceeds(w, i)
             \/ LaunchFails(w, i) \/ SessionEnds(w, i)
    PROVE  AllOrderly' /\ MoneyMoves
<1>0. ~Disturb("fail") /\ ~Disturb("start_lost")
  BY NotDisturbed DEF Unfailing, Disturb
<1>1. CASE HandOut(w, i) \/ HandOutLost(w, i)
  <2>1. AssignBest(w, i) /\ running' = running
    BY <1>1 DEF HandOut, HandOutLost, Assign, agentVars
  <2> QED
    BY <2>1, MoneyRequeue
<1>2. CASE LaunchSucceeds(w, i)
  <2>1. /\ launching[w][i] > 0 /\ Reserved(i) /\ running' = Begun(running, w, i)
    BY <1>2 DEF LaunchSucceeds
  <2>2. work[i].status = "assigned" /\ i \in items
    BY <2>1, Executed DEF InCustody, Custody, LaunchIsClaimed
  <2>3. Lookup(Start(w, i))
    BY <1>0, <1>2, <2>2 DEF LaunchSucceeds, LookupStart, Terminal
  <2>4. Start(w, i) \in Calls /\ Start(w, i).item = i /\ Start(w, i).step = "start"
    BY DEF Start, Calls, CallSteps
  <2>5. \A v \in Workers, j \in Items : j # i => running'[v][j] = running[v][j]
    BY <2>1, BegunMoves DEF AgentTypes
  <2>6. submit[i] = "accepted"
    BY <2>1, RunningAccepted
  <2> QED
    BY <2>3, <2>4, <2>5, <2>6, MoneyLookup
<1>3. CASE LaunchFails(w, i)
  <2>1. UNCHANGED vars /\ running' = running
    BY <1>0, <1>3 DEF LaunchFails, ReportFailed
  <2>2. UNCHANGED <<submit, call>> /\ UNCHANGED <<work, dlq, budget>>
    BY <2>1 DEF vars
  <2> QED
    BY <2>1, <2>2, MoneyAlone
<1>4. CASE SessionEnds(w, i)
  <2>1. /\ running[w][i] > Cardinality(Starting(w, i)) /\ running' = Ended(running, w, i)
        /\ \E r \in Costs : (MaxBudget[i] > 0 => r <= MaxBudget[i]) /\ ReportCompleted(i, r)
    BY <1>0, <1>4 DEF SessionEnds, ReportFailed
  <2>2. running[w][i] \in Nat /\ running[w][i] > 0
    BY <2>1, StartingSize DEF AgentTypes, Counts
  <2>3. \A v \in Workers, j \in Items : v # w \/ j # i => running'[v][j] = running[v][j]
    BY <2>1, EndedMoves DEF AgentTypes
  <2>4. submit[i] = "accepted" /\ i \in items /\ running[w][i] = 1
    BY <2>2, RunningAccepted, Executed DEF InCustody, Custody, SessionIsOwned
  <2>5. PICK r \in Costs : (MaxBudget[i] > 0 => r <= MaxBudget[i]) /\ ReportCompleted(i, r)
    BY <2>1
  <2>6. CASE UNCHANGED vars
    <3>1. UNCHANGED <<submit, call>> /\ UNCHANGED <<work, dlq, budget>>
      BY <2>6 DEF vars
    <3>2. running'[w][i] = 0
      BY <2>1, <2>4, EndedMoves DEF AgentTypes
    <3> QED
      BY <2>3, <3>1, <3>2, MoneyAlone
  <2>7. CASE Lookup(Completion(i, r))
    <3>1. /\ Completion(i, r) \in Calls /\ Completion(i, r).item = i
          /\ Completion(i, r).step = "complete" /\ Completion(i, r).cost = r
      BY DEF Completion, Calls, CallSteps
    <3> QED
      BY <2>3, <2>4, <2>5, <2>7, <3>1, MoneyLookup
  <2> QED
    BY <2>4, <2>5, <2>6, <2>7 DEF ReportCompleted, LookupCompleted
<1> QED
  BY <1>1, <1>2, <1>3, <1>4

\* What workers do for themselves.
LEMMA MoneyWorker ==
    ASSUME TypeOK, AgentTypes, AllOrderly, NEW w \in Workers,
           AgentStart(w) \/ AgentHeartbeat(w) \/ AgentPoll(w) \/ PollNothing(w) \/ WorkerCrash(w)
    PROVE  AllOrderly' /\ MoneyMoves
<1>1. UNCHANGED <<dlq, work, submit, call, budget>>
  BY DEF AgentStart, AgentHeartbeat, AgentPoll, PollNothing, WorkerCrash, Register, Heartbeat,
         PollAdmit, PollEmpty, queueVars, callVars, budgetVars, vars
<1>2. \A v \in Workers, j \in Items : running'[v][j] \in {running[v][j], 0}
  <2>1. CASE WorkerCrash(w)
    <3>1. running' = [running EXCEPT ![w] = [i \in Items |-> 0]]
      BY <2>1 DEF WorkerCrash
    <3> QED
      BY <3>1, CrashMoves DEF AgentTypes
  <2> QED
    BY <2>1 DEF AgentStart, AgentHeartbeat, AgentPoll, PollNothing, agentVars
<1>3. UNCHANGED <<submit, call>>
  BY <1>1
<1> QED
  BY <1>1, <1>2, <1>3, MoneyAlone

\* The operator.
LEMMA MoneyOperator ==
    ASSUME TypeOK, AgentTypes, InCustody, AllOrderly, Reliable, Unfailing, Operator
    PROVE  AllOrderly' /\ MoneyMoves
<1>0. running' = running
  BY DEF Operator, agentVars
<1>1. CASE \E i \in Items : Reap(i) \/ RetryFromDLQ(i)
  BY <1>0, <1>1, MoneyRequeue
<1>2. CASE \E w \in Workers : PauseWorker(w) \/ DrainWorker(w) \/ ResumeWorker(w)
  <2>1. UNCHANGED <<dlq, work, submit, call, budget>>
    BY <1>2 DEF PauseWorker, DrainWorker, ResumeWorker, SetStatus, queueVars, callVars, budgetVars
  <2>2. UNCHANGED <<submit, call>>
    BY <2>1
  <2> QED
    BY <1>0, <2>1, <2>2, MoneyAlone
<1>3. CASE \E l \in Limits : SetBudgetLimit(l) /\ Disturb("limit")
  <2>1. UNCHANGED <<submit, call>> /\ UNCHANGED <<dlq, work>> /\ "limit" \in Disturbances
    BY <1>3 DEF SetBudgetLimit, queueVars, callVars, Disturb
  <2>2. budget'.spent = budget.spent /\ budget'.reserved = budget.reserved
    BY <1>3 DEF SetBudgetLimit, TypeOK, Budgets
  <2> QED
    BY <1>0, <2>1, <2>2, MoneyAlone
<1>4. /\ ~Disturb("cancel") /\ ~Disturb("deregister") /\ ~Disturb("restart") /\ ~Disturb("purge")
      /\ "restart" \notin Disturbances
  BY NotDisturbed DEF Unfailing, Disturb
<1> QED
  BY <1>1, <1>2, <1>3, <1>4 DEF Operator

\* Every step of such a fleet moves money in one of the four ways.
LEMMA MoneyStep ==
    ASSUME SystemTypeOK, InCustody, AllOrderly, Reliable, Unfailing, [SystemNext]_sysVars
    PROVE  AllOrderly' /\ MoneyMoves
<1>0. TypeOK /\ AgentTypes
  BY DEF SystemTypeOK, AgentTypes, Counts
<1>1. CASE UNCHANGED sysVars
  <2>1. UNCHANGED <<submit, call>> /\ UNCHANGED <<dlq, work, budget, running>>
    BY <1>1 DEF sysVars, vars, agentVars
  <2> QED
    BY <2>1, MoneyAlone
<1>2. ASSUME NEW i \in Items,
             Submission(i) \/ DeregisterClears(i) \/ BackoffEnds(i) \/ ClaimExpires(i)
      PROVE  AllOrderly' /\ MoneyMoves
  <2>1. ~DeregisterClears(i)
    BY DEF DeregisterClears, ClearDeregistered, InCustody
  <2>2. CASE BackoffEnds(i) \/ ClaimExpires(i)
    <3>1. (BackoffElapsed(i) \/ ReclaimTimedOut(i)) /\ running' = running
      BY <2>2 DEF BackoffEnds, ClaimExpires, agentVars
    <3> QED
      BY <1>0, <3>1, MoneyRequeue
  <2> QED
    BY <1>0, <1>2, <2>1, <2>2, MoneySubmission
<1> QED
  BY <1>0, <1>1, <1>2, MoneyAgent, MoneyWorker, MoneyServe, MoneyOperator DEF SystemNext

\* The items whose reservation stands.
Holding == {i \in Items : Holds(i)}

\* A set of items has a sum of budgets.
LEMMA BudgetSums ==
    ASSUME NEW S \in SUBSET Items
    PROVE  /\ SumFunctionOnSet(MaxBudget, S) \in Nat
           /\ \A i \in S : SumFunctionOnSet(MaxBudget, S) =
                             MaxBudget[i] + SumFunctionOnSet(MaxBudget, S \ {i})
<1>1. IsFiniteSet(S)
  BY FiniteAssumption, FS_Subset
<1>2. \A i \in S : MaxBudget[i] \in Nat
  BY ItemAssumption
<1> QED
  BY <1>1, <1>2, SumType, SumWithout

\* The definition in these words.
LEMMA ExactlyHeld == ReservationsExact <=> budget.reserved = SumFunctionOnSet(MaxBudget, Holding)
BY DEF ReservationsExact, Holding, Holds

\* What is reserved for an item is part of what is reserved.
LEMMA HeldIsReserved ==
    ASSUME budget \in Budgets, ReservationsExact, NEW i \in Items, Holds(i)
    PROVE  /\ Release(i).reserved = budget.reserved - MaxBudget[i]
           /\ MaxBudget[i] <= budget.reserved
           /\ Release(i).reserved = SumFunctionOnSet(MaxBudget, Holding \ {i})
<1>1. i \in Holding /\ Holding \in SUBSET Items
  BY DEF Holding
<1>2. /\ budget.reserved = MaxBudget[i] + SumFunctionOnSet(MaxBudget, Holding \ {i})
      /\ SumFunctionOnSet(MaxBudget, Holding \ {i}) \in Nat
  BY <1>1, BudgetSums, ExactlyHeld
<1>3. MaxBudget[i] \in Nat /\ budget.reserved \in Nat
  BY ItemAssumption DEF Budgets
<1>4. Release(i).reserved = Monus(budget.reserved, MaxBudget[i])
  BY ReservingMoves
<1> QED
  BY <1>2, <1>3, <1>4 DEF Monus

\* The four ways in which money moves keep the reservations exact.
LEMMA ExactStep ==
    ASSUME TypeOK, ReservationsExact, MoneyMoves
    PROVE  ReservationsExact'
<1>0. budget \in Budgets
  BY DEF TypeOK
<1>1. budget.reserved = SumFunctionOnSet(MaxBudget, Holding)
  BY ExactlyHeld
<1>2. ASSUME budget'.reserved = SumFunctionOnSet(MaxBudget, Holding') PROVE ReservationsExact'
  BY <1>2 DEF ReservationsExact, Holding, Holds
<1>3. CASE Still \/ \E i \in Items : Admits(i)
  <2>1. Holding' = Holding /\ budget'.reserved = budget.reserved
    BY <1>3 DEF Still, Admits, Holding
  <2> QED
    BY <1>1, <1>2, <2>1
<1>4. ASSUME NEW i \in Items, Reserves(i) PROVE ReservationsExact'
  <2>1. i \in Holding' /\ Holding' \in SUBSET Items /\ Holding' \ {i} = Holding
    BY <1>4 DEF Reserves, Holding
  <2>2. SumFunctionOnSet(MaxBudget, Holding') = MaxBudget[i] + SumFunctionOnSet(MaxBudget, Holding)
    BY <2>1, BudgetSums
  <2>3. budget'.reserved = budget.reserved + MaxBudget[i]
    BY <1>0, <1>4, ReservingMoves DEF Reserves
  <2>4. MaxBudget[i] \in Nat /\ budget.reserved \in Nat
    BY <1>0, ItemAssumption DEF Budgets
  <2> QED
    BY <1>1, <1>2, <2>2, <2>3, <2>4
<1>5. ASSUME NEW i \in Items, Pays(i) PROVE ReservationsExact'
  <2>1. Holding' = Holding \ {i} /\ Holds(i)
    BY <1>5 DEF Pays, Holding
  <2>2. Release(i) \in Budgets
    BY <1>0, BudgetMoves
  <2>3. budget'.reserved = Release(i).reserved
    BY <1>5, <2>2 DEF Pays, Budgets
  <2>4. Release(i).reserved = SumFunctionOnSet(MaxBudget, Holding \ {i})
    BY <1>0, <2>1, HeldIsReserved
  <2> QED
    BY <1>2, <2>1, <2>3, <2>4
<1> QED
  BY <1>3, <1>4, <1>5 DEF MoneyMoves

\* At first all is in order and nothing is reserved.
LEMMA MoneyInit == ASSUME SystemInit PROVE AllOrderly /\ ReservationsExact
<1>1. /\ submit = [i \in Items |-> "new"] /\ dlq = {} /\ budget.reserved = 0
      /\ work = [i \in Items |-> NewWork] /\ call = [h \in Handlers |-> Idle]
  BY DEF SystemInit, Init
<1>2. AllOrderly
  BY <1>1 DEF AllOrderly, Orderly, NewWork, On
<1>3. Holding = {}
  BY <1>1 DEF Holding, Holds
<1> QED
  BY <1>1, <1>2, <1>3, SumOfNone, ExactlyHeld

\* While no session fails, all items stay in order.
THEOREM OrderIsKept == ASSUME Reliable, Unfailing PROVE SystemSpec => []AllOrderly
<1>1. SystemInit => AllOrderly
  BY MoneyInit
<1>2. SystemTypeOK /\ InCustody /\ AllOrderly /\ [SystemNext]_sysVars => AllOrderly'
  BY MoneyStep
<1> QED
  BY <1>1, <1>2, SystemTypeCorrect, CustodyIsKept, PTL DEF SystemSpec

\* What is reserved is what the accepted items without an outcome may still
\* cost (budget.go, server_handlers.go:100 and 226), through lost polls and
\* reports, crashes of workers, repeated reports, held items and items that are
\* reaped and tried again: each outcome releases its reservation once.
THEOREM ReservationsAreExact == ASSUME Reliable, Unfailing PROVE SystemSpec => []ReservationsExact
<1>1. SystemInit => ReservationsExact
  BY MoneyInit
<1>2. SystemTypeOK /\ InCustody /\ AllOrderly /\ ReservationsExact /\ [SystemNext]_sysVars
        => ReservationsExact'
  BY MoneyStep, ExactStep DEF SystemTypeOK
<1> QED
  BY <1>1, <1>2, SystemTypeCorrect, CustodyIsKept, OrderIsKept, PTL DEF SystemSpec

-----------------------------------------------------------------------------
(* The ceiling. *)

\* Submissions do not overlap, the ceiling stays where it is, and no item is
\* submitted without a budget: such an item may cost anything.
Bounded == Disturbances \cap {"race", "limit"} = {} /\ \A i \in Items : MaxBudget[i] > 0

\* A submission that was admitted is the only one, and still fits.
Fits == \A i \in Items : SubmissionOpen(i) =>
           /\ \A j \in Items : SubmissionOpen(j) => j = i
           /\ budget.spent + budget.reserved + MaxBudget[i] <= budget.limit

\* The four ways in which money moves keep it under the ceiling.
LEMMA CeilingStep ==
    ASSUME TypeOK, TypeOK', ReservationsExact, BudgetCeiling, Fits, Bounded, MoneyMoves
    PROVE  BudgetCeiling' /\ Fits'
<1>0. /\ budget \in Budgets /\ budget' \in Budgets
      /\ budget.spent \in Nat /\ budget.reserved \in Nat /\ budget.limit \in Nat
      /\ \A i \in Items : MaxBudget[i] \in Nat
  BY ItemAssumption DEF TypeOK, Budgets
<1>1. CASE Still
  <2>1. /\ budget'.spent = budget.spent /\ budget'.reserved = budget.reserved
        /\ budget'.limit = budget.limit /\ \A j \in Items : SubmissionOpen(j)' => SubmissionOpen(j)
    BY <1>1 DEF Still, Bounded
  <2> QED
    BY <2>1 DEF BudgetCeiling, Fits
<1>2. ASSUME NEW i \in Items, Admits(i) PROVE BudgetCeiling' /\ Fits'
  <2>1. budget' = budget /\ \A j \in Items : SubmissionOpen(j)' => j = i
    BY <1>2 DEF Admits, Bounded
  <2>2. MaxBudget[i] > 0 /\ MaxBudget[i] <= AvailableBudget
    BY <1>2 DEF Admits, Bounded
  <2>3. budget.spent + budget.reserved + MaxBudget[i] <= budget.limit
    BY <1>0, <2>2 DEF AvailableBudget, Monus
  <2> QED
    BY <2>1, <2>3 DEF BudgetCeiling, Fits
<1>3. ASSUME NEW i \in Items, Reserves(i) PROVE BudgetCeiling' /\ Fits'
  <2>1. \A j \in Items : ~SubmissionOpen(j)'
    BY <1>3 DEF Reserves, Fits
  <2>2. budget.spent + budget.reserved + MaxBudget[i] <= budget.limit
    BY <1>3 DEF Reserves, Fits
  <2>3. /\ budget'.spent = budget.spent /\ budget'.limit = budget.limit
        /\ budget'.reserved = budget.reserved + MaxBudget[i]
    BY <1>0, <1>3, ReservingMoves DEF Reserves
  <2> QED
    BY <1>0, <2>1, <2>2, <2>3 DEF BudgetCeiling, Fits
<1>4. ASSUME NEW i \in Items, Pays(i) PROVE BudgetCeiling' /\ Fits'
  <2>1. PICK r \in Costs : r <= MaxBudget[i] /\ budget' = [Release(i) EXCEPT !.spent = @ + r]
    BY <1>4 DEF Pays, Bounded
  <2>2. /\ Release(i).reserved = budget.reserved - MaxBudget[i] /\ MaxBudget[i] <= budget.reserved
        /\ Release(i).spent = budget.spent /\ Release(i).limit = budget.limit
        /\ Release(i) \in Budgets
    BY <1>0, <1>4, HeldIsReserved, ReservingMoves, BudgetMoves DEF Pays
  <2>3. /\ budget'.spent = budget.spent + r /\ budget'.limit = budget.limit
        /\ budget'.reserved = budget.reserved - MaxBudget[i]
    BY <2>1, <2>2 DEF Budgets
  <2>4. r \in Nat
    BY <2>1, BudgetAssumption
  <2>5. budget'.spent + budget'.reserved <= budget.spent + budget.reserved
    BY <1>0, <2>1, <2>2, <2>3, <2>4
  <2>6. /\ BudgetCeiling'
        /\ \A j \in Items : budget.spent + budget.reserved + MaxBudget[j] <= budget.limit
             => budget'.spent + budget'.reserved + MaxBudget[j] <= budget'.limit
    <3>1. /\ budget'.spent \in Nat /\ budget'.reserved \in Nat /\ budget'.limit \in Nat
      BY <1>0 DEF Budgets
    <3> QED
      BY <1>0, <2>3, <2>5, <3>1 DEF BudgetCeiling
  <2>7. \A j \in Items : SubmissionOpen(j)' => SubmissionOpen(j)
    BY <1>4 DEF Pays
  <2> QED
    BY <2>6, <2>7 DEF Fits
<1> QED
  BY <1>1, <1>2, <1>3, <1>4 DEF MoneyMoves

\* What was spent and what is reserved fit the fleet's budget (server_handlers.go:77,
\* budget.go): the check at submission is enough, because what it found available is
\* still available when the reservation follows (one submission at a time), and a
\* session costs no more than was reserved for it.
THEOREM BudgetIsKept ==
    ASSUME Reliable, Unfailing, Bounded
    PROVE  SystemSpec => []BudgetCeiling
<1>1. SystemInit => BudgetCeiling /\ Fits
  <2> SUFFICES ASSUME SystemInit PROVE BudgetCeiling /\ Fits
    OBVIOUS
  <2>1. /\ submit = [i \in Items |-> "new"]
        /\ budget = [limit |-> InitLimit, spent |-> 0, reserved |-> 0]
    BY DEF SystemInit, Init
  <2> QED
    BY <2>1, BudgetAssumption DEF BudgetCeiling, Fits, SubmissionOpen
<1>2. SystemTypeOK /\ SystemTypeOK' /\ InCustody /\ AllOrderly /\ ReservationsExact
        /\ BudgetCeiling /\ Fits /\ [SystemNext]_sysVars
        => BudgetCeiling' /\ Fits'
  <2> SUFFICES ASSUME SystemTypeOK, SystemTypeOK', InCustody, AllOrderly, ReservationsExact,
                      BudgetCeiling, Fits, [SystemNext]_sysVars
               PROVE  BudgetCeiling' /\ Fits'
    OBVIOUS
  <2>1. TypeOK /\ TypeOK'
    BY DEF SystemTypeOK
  <2>2. MoneyMoves
    BY MoneyStep
  <2> QED
    BY <2>1, <2>2, CeilingStep
<1> QED
  BY <1>1, <1>2, SystemTypeCorrect, CustodyIsKept, OrderIsKept, ReservationsAreExact, PTL
     DEF SystemSpec

-----------------------------------------------------------------------------
(* The reservations, whatever fails. *)

\* A completion carries a cost of what a session may spend.
Priced(h, i) ==
    call[h].step \in {"complete", "complete_book"} =>
        /\ call[h].cost \in Costs
        /\ MaxBudget[i] > 0 => call[h].cost <= MaxBudget[i]

\* What has not been pushed is nowhere; what has not been accepted is not run,
\* called about or closed.
Early(i) ==
    /\ submit[i] \in {"new", "checked"} =>
          /\ i \notin items /\ i \notin dlq /\ i \notin clearing
          /\ \A w \in Workers : launching[w][i] = 0
    /\ submit[i] \in {"new", "checked", "pushed"} =>
          /\ \A w \in Workers : running[w][i] = 0
          /\ \A h \in Handlers : ~On(h, i)
    /\ submit[i] = "pushed" => work[i].status \notin Terminal
    /\ \A h \in Handlers : On(h, i) => Priced(h, i)

\* This holds of all items under all disturbances.
AllEarly == \A i \in Items : Early(i)

\* A step brings item j no nearer to being run before it is accepted.
EarlyKept(j) ==
    /\ submit'[j] \in {"new", "checked"} =>
          /\ submit[j] \in {"new", "checked"}
          /\ j \in items' => j \in items
          /\ j \in dlq' => j \in dlq
          /\ j \in clearing' => j \in clearing
          /\ \A w \in Workers : launching'[w][j] \in {launching[w][j], 0}
    /\ submit'[j] \in {"new", "checked", "pushed"} =>
          /\ submit[j] \in {"new", "checked", "pushed"}
          /\ \A w \in Workers : running'[w][j] \in {running[w][j], 0}
          /\ \A h \in Handlers : On(h, j)' => On(h, j)
    /\ submit'[j] = "pushed" =>
          work'[j].status \notin Terminal \/ (submit[j] = "pushed" /\ work'[j] = work[j])
    /\ \A h \in Handlers : On(h, j)' => Priced(h, j)' \/ (On(h, j) /\ call'[h] = call[h])

\* Such a step keeps it early.
LEMMA EarlyFrame ==
    ASSUME NEW j, Early(j), EarlyKept(j)
    PROVE  Early(j)'
<1>1. \A h \in Handlers : On(h, j)' => Priced(h, j)'
  BY DEF Early, EarlyKept, Priced
<1>2. submit'[j] \in {"new", "checked"} =>
          /\ j \notin items' /\ j \notin dlq' /\ j \notin clearing'
          /\ \A w \in Workers : launching'[w][j] = 0
  BY DEF Early, EarlyKept
<1>3. submit'[j] \in {"new", "checked", "pushed"} =>
          /\ \A w \in Workers : running'[w][j] = 0
          /\ \A h \in Handlers : ~On(h, j)'
  BY DEF Early, EarlyKept
<1>4. submit'[j] = "pushed" => work'[j].status \notin Terminal
  BY DEF Early, EarlyKept
<1> QED
  BY <1>1, <1>2, <1>3, <1>4 DEF Early

\* A step that changes neither the calls nor the agents, and puts nothing in place.
LEMMA EarlyQuiet ==
    ASSUME AllEarly, UNCHANGED <<call, launching, running>>,
           \A j \in Items :
              /\ submit'[j] \in {"new", "checked"} =>
                    /\ submit[j] \in {"new", "checked"}
                    /\ j \in items' => j \in items
                    /\ j \in dlq' => j \in dlq
                    /\ j \in clearing' => j \in clearing
              /\ submit'[j] \in {"new", "checked", "pushed"} =>
                    submit[j] \in {"new", "checked", "pushed"}
              /\ submit'[j] = "pushed" =>
                    work'[j].status \notin Terminal \/ (submit[j] = "pushed" /\ work'[j] = work[j])
    PROVE  AllEarly'
<1> SUFFICES ASSUME NEW j \in Items PROVE EarlyKept(j)
  BY EarlyFrame DEF AllEarly
<1>1. \A h \in Handlers : On(h, j)' => On(h, j) /\ call'[h] = call[h]
  BY DEF On
<1> QED
  BY <1>1 DEF EarlyKept

\* The steps of a handler concern an item that was accepted, and a completion
\* keeps its cost.
LEMMA EarlyServe ==
    ASSUME TypeOK, AllEarly, NEW h \in Handlers, HandlerStep(h), UNCHANGED agentVars
    PROVE  AllEarly'
<1>1. call[h].step # "idle"
  BY DEF HandlerStep, MarkRunning, TakeOver, MarkCompleted, BookCompleted, JudgeFailed,
     MarkRequeued, ClearRequeued, MarkFailed, FileFailed, MarkCancelled, ClearCancelled
<1>2. PICK i \in Items : call[h].item = i
  BY <1>1, CallTypes
<1>3. On(h, i)
  BY <1>1, <1>2 DEF On, Idle
<1>4. submit[i] \notin {"new", "checked", "pushed"} /\ Priced(h, i)
  BY <1>3 DEF AllEarly, Early
<1>5. /\ submit' = submit
      /\ \A j \in Items : j # i => /\ work'[j] = work[j]
                                   /\ j \in items' => j \in items
                                   /\ j \in dlq' => j \in dlq
      /\ \/ Return(h)
         \/ \E s \in CallSteps \ {"complete", "complete_book"} : Advance(h, s)
         \/ call[h].step = "complete" /\ Advance(h, "complete_book")
  BY <1>2 DEF HandlerStep, MarkRunning, TakeOver, MarkCompleted, BookCompleted, JudgeFailed,
     MarkRequeued, ClearRequeued, MarkFailed, FileFailed, MarkCancelled, ClearCancelled,
     SetStatusOf, File, queueVars, CallSteps, TypeOK
<1>6. /\ clearing' = clearing
      /\ \A g \in Handlers : g # h => call'[g] = call[g]
      /\ \A j \in Items : j # i => ~On(h, j)'
      /\ On(h, i)' => Priced(h, i)'
  <2>1. CASE Return(h)
    BY <1>1, <1>2, <2>1, Returns
  <2>2. ASSUME NEW s \in CallSteps \ {"complete", "complete_book"}, Advance(h, s)
        PROVE  /\ clearing' = clearing
               /\ \A g \in Handlers : g # h => call'[g] = call[g]
               /\ \A j \in Items : j # i => ~On(h, j)'
               /\ On(h, i)' => Priced(h, i)'
    BY <1>1, <1>2, <2>2, Advances DEF Priced
  <2>3. CASE call[h].step = "complete" /\ Advance(h, "complete_book")
    <3>1. /\ clearing' = clearing
          /\ \A g \in Handlers : g # h => call'[g] = call[g]
          /\ \A j \in Items : j # i => ~On(h, j)'
      BY <1>1, <1>2, <2>3, Advances DEF CallSteps
    <3>2. call' = [call EXCEPT ![h] = [call[h] EXCEPT !.step = "complete_book"]]
      BY <2>3 DEF Advance
    <3>3. call \in [Handlers -> Calls \cup {Idle}] /\ call[h] \in Calls
      BY <1>1, CallTypes DEF TypeOK
    <3>4. call'[h].cost = call[h].cost
      BY <3>2, <3>3 DEF Calls
    <3> QED
      BY <1>4, <2>3, <3>1, <3>4 DEF Priced
  <2> QED
    BY <1>5, <2>1, <2>2, <2>3
<1>7. ASSUME NEW j \in Items PROVE EarlyKept(j)
  <2>1. UNCHANGED <<launching, running>>
    BY DEF agentVars
  <2>2. CASE j = i
    <3>1. submit'[i] \notin {"new", "checked", "pushed"}
      BY <1>4, <1>5
    <3>2. \A g \in Handlers : On(g, i)' => Priced(g, i)' \/ (On(g, i) /\ call'[g] = call[g])
      BY <1>6 DEF On
    <3> QED
      BY <2>2, <3>1, <3>2 DEF EarlyKept
  <2>3. CASE j # i
    <3>1. \A g \in Handlers : On(g, j)' => On(g, j) /\ call'[g] = call[g]
      BY <1>6, <2>3 DEF On
    <3> QED
      BY <1>5, <1>6, <2>1, <2>3, <3>1 DEF EarlyKept
  <2> QED
    BY <2>2, <2>3
<1> QED
  BY <1>7, EarlyFrame DEF AllEarly

\* A new call about an accepted item.
LEMMA EarlyLookup ==
    ASSUME TypeOK, AllEarly, NEW i \in Items, NEW c \in Calls, c.item = i, Lookup(c),
           submit[i] \notin {"new", "checked", "pushed"},
           c.step \in {"complete", "complete_book"} =>
              c.cost \in Costs /\ (MaxBudget[i] > 0 => c.cost <= MaxBudget[i]),
           \A w \in Workers, j \in Items : j # i => /\ launching'[w][j] = launching[w][j]
                                                    /\ running'[w][j] = running[w][j]
    PROVE  AllEarly'
<1>1. /\ UNCHANGED <<items, dlq, work, submit, clearing>>
      /\ \E h \in Handlers : /\ call'[h] = c /\ On(h, i)'
                             /\ \A j \in Items : ~On(h, j)
                             /\ \A j \in Items : j # i => ~On(h, j)'
                             /\ \A g \in Handlers : g # h => call'[g] = call[g]
  BY LookedUp
<1>2. PICK h \in Handlers : /\ call'[h] = c /\ On(h, i)'
                            /\ \A j \in Items : ~On(h, j)
                            /\ \A j \in Items : j # i => ~On(h, j)'
                            /\ \A g \in Handlers : g # h => call'[g] = call[g]
  BY <1>1
<1>3. ASSUME NEW j \in Items, NEW g \in Handlers, On(g, j)'
      PROVE  (j = i /\ Priced(g, j)') \/ (On(g, j) /\ call'[g] = call[g])
  BY <1>2, <1>3 DEF On, Priced
<1> SUFFICES ASSUME NEW j \in Items PROVE EarlyKept(j)
  BY EarlyFrame DEF AllEarly
<1>4. CASE j = i
  BY <1>1, <1>3, <1>4 DEF EarlyKept
<1>5. CASE j # i
  BY <1>1, <1>3, <1>5 DEF EarlyKept
<1> QED
  BY <1>4, <1>5

\* Executions that end, or that concern an accepted item.
LEMMA EarlyCounts ==
    ASSUME TypeOK, AllEarly, NEW i \in Items,
           UNCHANGED <<call, submit, items, dlq, clearing>>,
           \A j \in Items : work'[j].status \notin Terminal \/ work'[j] = work[j],
           \A w \in Workers, j \in Items : j # i =>
              /\ launching'[w][j] \in {launching[w][j], 0}
              /\ running'[w][j] \in {running[w][j], 0},
           \/ submit[i] \notin {"new", "checked", "pushed"}
           \/ submit[i] = "pushed" /\ \A w \in Workers : running'[w][i] \in {running[w][i], 0}
           \/ \A w \in Workers : /\ launching'[w][i] \in {launching[w][i], 0}
                                 /\ running'[w][i] \in {running[w][i], 0}
    PROVE  AllEarly'
<1> SUFFICES ASSUME NEW j \in Items PROVE EarlyKept(j)
  BY EarlyFrame DEF AllEarly
<1>1. \A h \in Handlers : On(h, j)' => On(h, j) /\ call'[h] = call[h]
  BY DEF On
<1>2. CASE j = i
  BY <1>1, <1>2 DEF EarlyKept
<1>3. CASE j # i
  BY <1>1, <1>3 DEF EarlyKept
<1> QED
  BY <1>2, <1>3

\* The item that an agent executes was pushed, and accepted before its session ran.
LEMMA EarlyExecuted ==
    ASSUME AgentTypes, AllEarly, NEW w \in Workers, NEW i \in Items
    PROVE  /\ launching[w][i] > 0 => submit[i] \notin {"new", "checked"}
           /\ launching[w][i] > 0 /\ Reserved(i) => submit[i] \notin {"new", "checked", "pushed"}
           /\ running[w][i] > Cardinality(Starting(w, i)) =>
                 submit[i] \notin {"new", "checked", "pushed"}
<1>1. launching[w][i] \in Nat /\ running[w][i] \in Nat
  BY DEF AgentTypes, Counts
<1>2. Cardinality(Starting(w, i)) \in Nat
  BY StartingSize
<1> QED
  BY <1>1, <1>2 DEF AllEarly, Early, Reserved

\* A report that an agent sends or loses.
LEMMA EarlyReport ==
    ASSUME TypeOK, AllEarly, NEW i \in Items, submit[i] \notin {"new", "checked", "pushed"},
           \/ \E r \in Costs : (MaxBudget[i] > 0 => r <= MaxBudget[i]) /\ LookupCompleted(i, r)
           \/ LookupFailed(i)
           \/ UNCHANGED vars,
           \A w \in Workers, j \in Items : j # i => /\ launching'[w][j] = launching[w][j]
                                                    /\ running'[w][j] = running[w][j]
    PROVE  AllEarly'
<1>1. ASSUME NEW r \in Costs, MaxBudget[i] > 0 => r <= MaxBudget[i], LookupCompleted(i, r)
      PROVE  AllEarly'
  <2>1. /\ Completion(i, r) \in Calls /\ Completion(i, r).item = i
        /\ Completion(i, r).cost = r
    BY DEF Completion, Calls, CallSteps
  <2> QED
    BY <1>1, <2>1, EarlyLookup DEF LookupCompleted
<1>2. CASE LookupFailed(i)
  <2>1. /\ Call("fail", i) \in Calls /\ Call("fail", i).item = i
        /\ Call("fail", i).step = "fail"
    BY DEF Call, Calls, CallSteps
  <2> QED
    BY <1>2, <2>1, EarlyLookup DEF LookupFailed
<1>3. CASE UNCHANGED vars
  <2>1. UNCHANGED <<call, submit, items, dlq, clearing>> /\ UNCHANGED work
    BY <1>3 DEF vars
  <2> QED
    BY <2>1, EarlyCounts
<1> QED
  BY <1>1, <1>2, <1>3

\* The agents at their items.
LEMMA EarlyAgent ==
    ASSUME TypeOK, AgentTypes, AllEarly, NEW w \in Workers, NEW i \in Items,
           HandOut(w, i) \/ HandOutLost(w, i) \/ LaunchSucceeds(w, i)
             \/ LaunchFails(w, i) \/ SessionEnds(w, i)
    PROVE  AllEarly'
<1>1. CASE HandOut(w, i) \/ HandOutLost(w, i)
  <2>1. AssignBest(w, i) /\ running' = running
    BY <1>1 DEF HandOut, HandOutLost, Assign, agentVars
  <2>2. /\ UNCHANGED <<call, submit, items, dlq, clearing>>
        /\ i \in items /\ work' = [work EXCEPT ![i] = Owned(work[i], "assigned", w)]
    BY <2>1 DEF AssignBest, Eligible, callVars
  <2>3. \A j \in Items : work'[j].status \notin Terminal \/ work'[j] = work[j]
    BY <2>2 DEF Owned, Terminal, TypeOK, WorkRecords
  <2>4. submit[i] \notin {"new", "checked"}
    BY <2>2 DEF AllEarly, Early
  <2>5. \A v \in Workers, j \in Items : j # i => launching'[v][j] = launching[v][j]
    <3>1. CASE HandOut(w, i)
      BY <3>1, BegunMoves DEF HandOut, AgentTypes
    <3>2. CASE HandOutLost(w, i)
      BY <3>2 DEF HandOutLost, agentVars
    <3> QED
      BY <1>1, <3>1, <3>2
  <2>6. submit[i] \notin {"new", "checked", "pushed"} \/ submit[i] = "pushed"
    BY <2>4
  <2> QED
    BY <2>1, <2>2, <2>3, <2>5, <2>6, EarlyCounts
<1>2. CASE LaunchSucceeds(w, i)
  <2>1. /\ launching[w][i] > 0 /\ Reserved(i)
        /\ launching' = Ended(launching, w, i) /\ running' = Begun(running, w, i)
        /\ LookupStart(w, i) \/ UNCHANGED vars
    BY <1>2 DEF LaunchSucceeds
  <2>2. \A v \in Workers, j \in Items : j # i => /\ launching'[v][j] = launching[v][j]
                                                 /\ running'[v][j] = running[v][j]
    BY <2>1, BegunMoves, EndedMoves DEF AgentTypes
  <2>3. submit[i] \notin {"new", "checked", "pushed"}
    BY <2>1, EarlyExecuted
  <2>4. CASE LookupStart(w, i)
    <3>1. Start(w, i) \in Calls /\ Start(w, i).item = i /\ Start(w, i).step = "start"
      BY DEF Start, Calls, CallSteps
    <3> QED
      BY <2>2, <2>3, <2>4, <3>1, EarlyLookup DEF LookupStart
  <2>5. CASE UNCHANGED vars
    <3>1. UNCHANGED <<call, submit, items, dlq, clearing>> /\ UNCHANGED work
      BY <2>5 DEF vars
    <3> QED
      BY <2>2, <2>3, <3>1, EarlyCounts
  <2> QED
    BY <2>1, <2>4, <2>5
<1>3. CASE LaunchFails(w, i)
  <2>1. /\ launching[w][i] > 0 /\ Reserved(i)
        /\ launching' = Ended(launching, w, i) /\ running' = running
        /\ LookupFailed(i) \/ UNCHANGED vars
    BY <1>3 DEF LaunchFails, ReportFailed
  <2>2. \A v \in Workers, j \in Items : j # i => launching'[v][j] = launching[v][j]
    BY <2>1, EndedMoves DEF AgentTypes
  <2>3. submit[i] \notin {"new", "checked", "pushed"}
    BY <2>1, EarlyExecuted
  <2> QED
    BY <2>1, <2>2, <2>3, EarlyReport
<1>4. CASE SessionEnds(w, i)
  <2>1. /\ running[w][i] > Cardinality(Starting(w, i))
        /\ running' = Ended(running, w, i) /\ launching' = launching
        /\ \/ \E r \in Costs : (MaxBudget[i] > 0 => r <= MaxBudget[i]) /\ LookupCompleted(i, r)
           \/ LookupFailed(i)
           \/ UNCHANGED vars
    BY <1>4 DEF SessionEnds, ReportCompleted, ReportFailed
  <2>2. \A v \in Workers, j \in Items : j # i => running'[v][j] = running[v][j]
    BY <2>1, EndedMoves DEF AgentTypes
  <2>3. submit[i] \notin {"new", "checked", "pushed"}
    BY <2>1, EarlyExecuted
  <2> QED
    BY <2>1, <2>2, <2>3, EarlyReport
<1> QED
  BY <1>1, <1>2, <1>3, <1>4

\* Submissions, and what the maintenance loop does to one item.
LEMMA EarlyItem ==
    ASSUME TypeOK, AllEarly, NEW i \in Items,
           \/ SubmitCheck(i) \/ SubmitReject(i) \/ SubmitPush(i) \/ SubmitReserve(i)
           \/ ClearDeregistered(i) \/ BackoffElapsed(i) \/ ReclaimTimedOut(i)
           \/ Reap(i) \/ RetryFromDLQ(i),
           UNCHANGED agentVars
    PROVE  AllEarly'
<1>0. /\ work \in [Items -> WorkRecords] /\ work[i] \in WorkRecords
      /\ submit \in [Items -> SubmitPhases]
      /\ submit[i] = "pushed" => work[i].status \notin Terminal
      /\ submit[i] \in {"new", "checked"} => i \notin items /\ i \notin dlq /\ i \notin clearing
  BY DEF TypeOK, AllEarly, Early
<1>1. UNCHANGED <<call, launching, running>>
  BY DEF agentVars, SubmitCheck, SubmitReject, SubmitPush, SubmitReserve, ClearDeregistered,
     BackoffElapsed, ReclaimTimedOut, Reap, RetryFromDLQ, callVars
<1>2. CASE SubmitCheck(i) \/ SubmitReject(i) \/ SubmitReserve(i)
  <2>1. /\ UNCHANGED <<items, dlq, work, clearing>>
        /\ \/ submit[i] = "new" /\ submit' = [submit EXCEPT ![i] = "checked"]
           \/ submit[i] = "checked" /\ submit' = [submit EXCEPT ![i] = "new"]
           \/ submit[i] = "pushed" /\ submit' = [submit EXCEPT ![i] = "accepted"]
    BY <1>2 DEF SubmitCheck, SubmitReject, SubmitReserve, queueVars, callVars
  <2>2. \A j \in Items : \/ submit'[j] = submit[j]
                         \/ submit'[j] = "accepted"
                         \/ /\ submit[j] \in {"new", "checked"}
                            /\ submit'[j] \in {"new", "checked"}
    BY <1>0, <2>1
  <2> QED
    BY <1>1, <2>1, <2>2, EarlyQuiet
<1>3. CASE SubmitPush(i)
  <2>1. /\ UNCHANGED <<dlq, clearing>>
        /\ submit[i] = "checked" /\ submit' = [submit EXCEPT ![i] = "pushed"]
        /\ items' = items \cup {i} /\ work' = [work EXCEPT ![i] = NewWork]
    BY <1>3 DEF SubmitPush, callVars
  <2>2. work'[i].status \notin Terminal /\ submit'[i] = "pushed"
    BY <1>0, <2>1 DEF NewWork, Terminal
  <2>3. \A j \in Items : j # i => /\ submit'[j] = submit[j] /\ work'[j] = work[j]
                                  /\ j \in items' => j \in items
    BY <1>0, <2>1
  <2> QED
    BY <1>1, <2>1, <2>2, <2>3, EarlyQuiet
<1>4. CASE \/ ClearDeregistered(i) \/ BackoffElapsed(i) \/ ReclaimTimedOut(i)
           \/ Reap(i) \/ RetryFromDLQ(i)
  <2>1. /\ submit' = submit /\ clearing' \subseteq clearing
        /\ items' \subseteq items \cup {i} /\ dlq' \subseteq dlq \cup {i}
        /\ i \in items \/ i \in dlq \/ i \in clearing \/ (items' = items /\ dlq' = dlq)
        /\ \/ work' = work
           \/ work' = [work EXCEPT ![i].owner = NoWorker]
           \/ work' = [work EXCEPT ![i].backoff = FALSE]
           \/ work' = [work EXCEPT ![i] = Unassigned(work[i])]
           \/ work' = [work EXCEPT ![i] = NewWork]
    BY <1>4 DEF ClearDeregistered, BackoffElapsed, ReclaimTimedOut, Reap, RetryFromDLQ, callVars
  <2>2. work'[i].status \notin Terminal \/ work'[i].status = work[i].status
    <3>1. \/ work'[i] = work[i]
          \/ work'[i] = [work[i] EXCEPT !.owner = NoWorker]
          \/ work'[i] = [work[i] EXCEPT !.backoff = FALSE]
          \/ work'[i] = Unassigned(work[i])
          \/ work'[i] = NewWork
      BY <1>0, <2>1
    <3>2. CASE work'[i] = NewWork
      BY <3>2 DEF NewWork, Terminal
    <3>3. CASE work'[i] = Unassigned(work[i])
      BY <1>0, <3>3 DEF Unassigned, Owned, WorkRecords, Terminal
    <3>4. CASE work'[i] = [work[i] EXCEPT !.owner = NoWorker]
      BY <1>0, <3>4 DEF WorkRecords
    <3>5. CASE work'[i] = [work[i] EXCEPT !.backoff = FALSE]
      BY <1>0, <3>5 DEF WorkRecords
    <3> QED
      BY <3>1, <3>2, <3>3, <3>4, <3>5
  <2>3. \A j \in Items : j # i => /\ work'[j] = work[j]
                                  /\ j \in items' => j \in items
                                  /\ j \in dlq' => j \in dlq
    BY <1>0, <2>1
  <2>4. /\ submit'[i] = "pushed" => work'[i].status \notin Terminal
        /\ submit'[i] \in {"new", "checked"} => items' = items /\ dlq' = dlq
    BY <1>0, <2>1, <2>2
  <2> QED
    BY <1>1, <2>1, <2>3, <2>4, EarlyQuiet
<1> QED
  BY <1>2, <1>3, <1>4

\* What an operator does.
LEMMA EarlyOperator ==
    ASSUME TypeOK, AllEarly, Operator
    PROVE  AllEarly'
<1>0. /\ UNCHANGED <<launching, running>> /\ agentVars' = agentVars
      /\ work \in [Items -> WorkRecords] /\ submit \in [Items -> SubmitPhases]
  BY DEF Operator, agentVars, TypeOK
<1>1. ASSUME NEW i \in Items, submit[i] = "accepted", LookupCancel(i) PROVE AllEarly'
  <2>1. /\ Call("cancel", i) \in Calls /\ Call("cancel", i).item = i
        /\ Call("cancel", i).step = "cancel"
    BY DEF Call, Calls, CallSteps
  <2> QED
    BY <1>0, <1>1, <2>1, EarlyLookup DEF LookupCancel
<1>2. ASSUME NEW i \in Items, Reap(i) \/ RetryFromDLQ(i) PROVE AllEarly'
  BY <1>0, <1>2, EarlyItem
<1>3. ASSUME NEW w \in Workers, DeregisterWorker(w) PROVE AllEarly'
  <2>1. /\ UNCHANGED <<call, items, dlq, submit>> /\ clearing' \subseteq items
        /\ \A j \in Items : \/ work'[j] = work[j]
                            \/ work'[j] = [work[j] EXCEPT !.status = "pending"]
    BY <1>3 DEF DeregisterWorker, Claims
  <2>2. \A j \in Items : work'[j].status \notin Terminal \/ work'[j] = work[j]
    BY <1>0, <2>1 DEF WorkRecords, Terminal
  <2>3. \A j \in Items : submit[j] \in {"new", "checked"} => j \notin items
    BY DEF AllEarly, Early
  <2> QED
    BY <1>0, <2>1, <2>2, <2>3, EarlyQuiet
<1>4. CASE \/ \E w \in Workers : PauseWorker(w) \/ DrainWorker(w) \/ ResumeWorker(w)
           \/ \E l \in Limits : SetBudgetLimit(l)
           \/ Checkpoint
  <2>1. UNCHANGED <<call, items, dlq, work, submit, clearing>>
    BY <1>4 DEF PauseWorker, DrainWorker, ResumeWorker, SetStatus, SetBudgetLimit, Checkpoint,
       queueVars, callVars
  <2> QED
    BY <1>0, <2>1, EarlyQuiet
<1>5. CASE PurgeDLQ
  <2>1. /\ UNCHANGED <<call, items, work, clearing>> /\ dlq' = {}
        /\ \A j \in Items : submit'[j] \in {submit[j], "purged"}
    BY <1>5 DEF PurgeDLQ, callVars
  <2> QED
    BY <1>0, <2>1, EarlyQuiet
<1>6. CASE Restart
  <2>1. /\ call' = [h \in Handlers |-> Idle] /\ clearing' = {}
        /\ items' = disk.items /\ dlq' = disk.dlq
        /\ \A j \in Items : submit'[j] =
              (CASE j \in disk.items \cup disk.dlq -> "accepted"
                 [] j \notin disk.items \cup disk.dlq /\ submit[j] \in Stored -> "lost"
                 [] j \notin disk.items \cup disk.dlq /\ submit[j] = "checked" -> "new"
                 [] OTHER -> submit[j])
    BY <1>6 DEF Restart, Load
  <2>2. \A j \in Items : submit'[j] \in {"new", "checked", "pushed"} =>
           /\ submit[j] \in {"new", "checked"} /\ submit'[j] = "new"
           /\ j \notin items' /\ j \notin dlq'
    BY <2>1 DEF Stored
  <2>3. \A h \in Handlers, j \in Items : ~On(h, j)'
    BY <2>1 DEF On
  <2> QED
    BY <1>0, <2>1, <2>2, <2>3 DEF AllEarly, Early
<1> QED
  BY <1>1, <1>2, <1>3, <1>4, <1>5, <1>6 DEF Operator

\* Every step keeps all items early.
LEMMA EarlyStep ==
    ASSUME TypeOK, AgentTypes, AllEarly, [SystemNext]_sysVars
    PROVE  AllEarly'
<1>1. CASE UNCHANGED sysVars
  <2>1. UNCHANGED <<call, items, dlq, work, submit, clearing>> /\ UNCHANGED <<launching, running>>
    BY <1>1 DEF sysVars, vars, agentVars
  <2> QED
    BY <2>1, EarlyQuiet
<1>2. ASSUME NEW w \in Workers,
             AgentStart(w) \/ AgentHeartbeat(w) \/ AgentPoll(w) \/ PollNothing(w)
      PROVE  AllEarly'
  <2>1. UNCHANGED <<call, items, dlq, work, submit, clearing>> /\ UNCHANGED <<launching, running>>
    BY <1>2 DEF AgentStart, AgentHeartbeat, AgentPoll, PollNothing, Register, Heartbeat,
       PollAdmit, PollEmpty, queueVars, callVars, agentVars
  <2> QED
    BY <2>1, EarlyQuiet
<1>3. ASSUME NEW w \in Workers, WorkerCrash(w) PROVE AllEarly'
  <2>1. UNCHANGED <<call, items, dlq, work, submit, clearing>>
    BY <1>3 DEF WorkerCrash, vars
  <2>2. \A v \in Workers, j \in Items : /\ launching'[v][j] \in {launching[v][j], 0}
                                        /\ running'[v][j] \in {running[v][j], 0}
    BY <1>3, CrashMoves DEF WorkerCrash, AgentTypes
  <2>3. \A j \in Items : \A h \in Handlers : On(h, j)' => On(h, j) /\ call'[h] = call[h]
    BY <2>1 DEF On
  <2>4. ASSUME NEW j \in Items PROVE EarlyKept(j)
    BY <2>1, <2>2, <2>3 DEF EarlyKept
  <2> QED
    BY <2>4, EarlyFrame DEF AllEarly
<1>4. ASSUME NEW i \in Items,
             Submission(i) \/ DeregisterClears(i) \/ BackoffEnds(i) \/ ClaimExpires(i)
      PROVE  AllEarly'
  <2>1. /\ UNCHANGED agentVars
        /\ \/ SubmitCheck(i) \/ SubmitReject(i) \/ SubmitPush(i) \/ SubmitReserve(i)
           \/ ClearDeregistered(i) \/ BackoffElapsed(i) \/ ReclaimTimedOut(i)
    BY <1>4 DEF Submission, DeregisterClears, BackoffEnds, ClaimExpires
  <2> QED
    BY <2>1, EarlyItem
<1>5. ASSUME NEW h \in Handlers, Serve(h) PROVE AllEarly'
  BY <1>5, EarlyServe DEF Serve
<1> QED
  BY <1>1, <1>2, <1>3, <1>4, <1>5, EarlyAgent, EarlyOperator DEF SystemNext

\* Under every disturbance, nothing runs and no call is served about an item
\* before it is accepted, and no report costs more than the item's budget.
THEOREM EarlyAlways == SystemSpec => []AllEarly
<1>1. SystemInit => AllEarly
  BY DEF SystemInit, Init, AllEarly, Early, On, Priced, NewWork, Terminal
<1>2. SystemTypeOK /\ AllEarly /\ [SystemNext]_sysVars => AllEarly'
  BY EarlyStep DEF SystemTypeOK, AgentTypes, Counts
<1> QED
  BY <1>1, <1>2, SystemTypeCorrect, PTL DEF SystemSpec

\* The calls that have released nothing yet.
Releasing == {"complete_book", "fail_file", "cancel_clear"}

\* The items that ReservationsCovered adds up.
Owed == {i \in Items : submit[i] \in {"accepted", "purged"} /\ Owing(i)}

\* An owed item stays owed when no call about it ends and no outcome comes without one.
LEMMA OwedStays ==
    ASSUME NEW j \in Items, j \in Owed,
           submit[j] \in {"accepted", "purged"} => submit'[j] \in {"accepted", "purged"},
           \/ work'[j].status \notin Terminal
           \/ work'[j].status = work[j].status
           \/ \E h \in Handlers : At(h, Releasing, j)',
           \A h \in Handlers : At(h, Releasing, j) => At(h, Releasing, j)'
    PROVE  j \in Owed'
BY DEF Owed, Owing, Releasing

\* The sum of budgets over more items is no smaller.
LEMMA SumSubset ==
    ASSUME NEW S \in SUBSET Items
    PROVE  \A R \in SUBSET S :
              SumFunctionOnSet(MaxBudget, R) <= SumFunctionOnSet(MaxBudget, S)
<1> DEFINE Sum(s) == SumFunctionOnSet(MaxBudget, s)
           Bad == {n \in Nat : \E s \in SUBSET Items : \E r \in SUBSET s :
                     Cardinality(s \ r) = n /\ ~(Sum(r) <= Sum(s))}
<1>1. \A s \in SUBSET Items : \A r \in SUBSET s :
         IsFiniteSet(s \ r) /\ Cardinality(s \ r) \in Nat
  <2> SUFFICES ASSUME NEW s \in SUBSET Items, NEW r \in SUBSET s
               PROVE  IsFiniteSet(s \ r) /\ Cardinality(s \ r) \in Nat
    OBVIOUS
  <2>1. IsFiniteSet(s \ r)
    BY FiniteAssumption, FS_Subset
  <2> QED
    BY <2>1, FS_CardinalityType
<1>2. \A s \in SUBSET Items : Sum(s) \in Nat /\ \A i \in s : Sum(s) = MaxBudget[i] + Sum(s \ {i})
  BY BudgetSums
<1> HIDE DEF Sum
<1>3. Bad = {}
  <2> SUFFICES ASSUME Bad # {} PROVE FALSE
    OBVIOUS
  <2>1. PICK n \in Bad : \A m \in Bad : n <= m
    BY LeastNumber
  <2>0. PICK s \in SUBSET Items :
           \E r \in SUBSET s : Cardinality(s \ r) = n /\ ~(Sum(r) <= Sum(s))
    OBVIOUS
  <2>2. PICK r \in SUBSET s : Cardinality(s \ r) = n /\ ~(Sum(r) <= Sum(s))
    BY <2>0
  <2>3. r # s
    BY <1>2, <2>2
  <2>4. PICK i \in s : i \notin r
    BY <2>3
  <2>5. r \in SUBSET (s \ {i}) /\ s \ {i} \in SUBSET Items /\ (s \ {i}) \ r = (s \ r) \ {i}
    BY <2>4
  <2>6. Cardinality((s \ {i}) \ r) = n - 1 /\ Cardinality((s \ {i}) \ r) \in Nat
    <3>1. i \in s \ r /\ IsFiniteSet(s \ r)
      BY <1>1, <2>4
    <3>2. Cardinality((s \ r) \ {i}) = Cardinality(s \ r) - 1
      BY <3>1, FS_RemoveElement
    <3> QED
      BY <1>1, <2>2, <2>5, <3>2
  <2>7. n - 1 \notin Bad
    <3>1. n \in Nat
      OBVIOUS
    <3> HIDE DEF Bad
    <3> QED
      BY <2>1, <3>1
  <2>8. Sum(r) <= Sum(s \ {i})
    BY <2>5, <2>6, <2>7
  <2>9. Sum(s) = MaxBudget[i] + Sum(s \ {i})
    BY <1>2, <2>4
  <2>10. Sum(s) \in Nat /\ Sum(r) \in Nat /\ Sum(s \ {i}) \in Nat /\ MaxBudget[i] \in Nat
    BY <1>2, <2>4, <2>5, ItemAssumption
  <2> QED
    BY <2>2, <2>8, <2>9, <2>10
<1>4. ASSUME NEW R \in SUBSET S PROVE Sum(R) <= Sum(S)
  <2> SUFFICES ASSUME ~(Sum(R) <= Sum(S)) PROVE FALSE
    OBVIOUS
  <2>1. Cardinality(S \ R) \in Nat
    BY <1>1
  <2>2. \E s \in SUBSET Items : \E r \in SUBSET s :
           Cardinality(s \ r) = Cardinality(S \ R) /\ ~(Sum(r) <= Sum(s))
    OBVIOUS
  <2>3. Cardinality(S \ R) \in Bad
    BY <2>1, <2>2
  <2> QED
    BY <1>3, <2>3
<1> QED
  BY <1>4 DEF Sum

\* How the reservations and the owed items move: with neither ...
Steady == budget'.reserved = budget.reserved /\ Owed \subseteq Owed'

\* ... with an item that is accepted ...
Covers(i) ==
    /\ budget'.reserved = budget.reserved + MaxBudget[i]
    /\ i \notin Owed /\ Owed \cup {i} \subseteq Owed'

\* ... with a call that releases, once more than was reserved or not ...
Uncovers(i) ==
    /\ budget'.reserved = Monus(budget.reserved, MaxBudget[i])
    /\ Owed \ {i} \subseteq Owed'

\* ... and with a restart.
CoverMoves ==
    \/ Steady
    \/ \E i \in Items : Covers(i) \/ Uncovers(i)
    \/ budget'.reserved = 0

LEMMA CoverArithmetic ==
    ASSUME TypeOK, ReservationsCovered, CoverMoves
    PROVE  ReservationsCovered'
<1> DEFINE Sum(s) == SumFunctionOnSet(MaxBudget, s)
<1>1. Owed \in SUBSET Items /\ Owed' \in SUBSET Items
  BY DEF Owed
<1>2. /\ ReservationsCovered <=> budget.reserved <= Sum(Owed)
      /\ ReservationsCovered' <=> budget'.reserved <= Sum(Owed')
  BY DEF ReservationsCovered, Owed
<1>3. \A s \in SUBSET Items :
         /\ Sum(s) \in Nat
         /\ \A i \in s : Sum(s) = MaxBudget[i] + Sum(s \ {i})
         /\ \A r \in SUBSET s : Sum(r) <= Sum(s)
  BY BudgetSums, SumSubset
<1>4. budget.reserved \in Nat /\ \A i \in Items : MaxBudget[i] \in Nat
  BY ItemAssumption DEF TypeOK, Budgets
<1> HIDE DEF Sum
<1>5. CASE Steady
  BY <1>1, <1>2, <1>3, <1>4, <1>5 DEF Steady
<1>6. ASSUME NEW i \in Items, Covers(i) PROVE ReservationsCovered'
  <2>1. i \in Owed' /\ Owed \in SUBSET (Owed' \ {i}) /\ Owed' \ {i} \in SUBSET Items
    BY <1>1, <1>6 DEF Covers
  <2>2. Sum(Owed') = MaxBudget[i] + Sum(Owed' \ {i}) /\ Sum(Owed) <= Sum(Owed' \ {i})
    BY <1>1, <1>3, <2>1
  <2>3. budget'.reserved = budget.reserved + MaxBudget[i]
    BY <1>6 DEF Covers
  <2>4. Sum(Owed) \in Nat /\ Sum(Owed' \ {i}) \in Nat
    BY <1>1, <1>3, <2>1
  <2> QED
    BY <1>2, <1>4, <2>2, <2>3, <2>4
<1>7. ASSUME NEW i \in Items, Uncovers(i) PROVE ReservationsCovered'
  <2>1. Owed \ {i} \in SUBSET Owed' /\ Owed \ {i} \in SUBSET Items
    BY <1>1, <1>7 DEF Uncovers
  <2>2. Sum(Owed) <= MaxBudget[i] + Sum(Owed \ {i})
    <3>1. CASE i \in Owed
      BY <1>1, <1>3, <1>4, <2>1, <3>1
    <3>2. CASE i \notin Owed
      <4>1. Owed \ {i} = Owed
        BY <3>2
      <4> QED
        BY <1>1, <1>3, <1>4, <4>1
    <3> QED
      BY <3>1, <3>2
  <2>3. Sum(Owed \ {i}) <= Sum(Owed')
    BY <1>1, <1>3, <2>1
  <2>4. budget'.reserved = Monus(budget.reserved, MaxBudget[i])
    BY <1>7 DEF Uncovers
  <2>5. Sum(Owed) \in Nat /\ Sum(Owed') \in Nat /\ Sum(Owed \ {i}) \in Nat
    BY <1>1, <1>3, <2>1
  <2> QED
    BY <1>2, <1>4, <2>2, <2>3, <2>4, <2>5 DEF Monus
<1>8. CASE budget'.reserved = 0
  BY <1>1, <1>2, <1>3, <1>8
<1> QED
  BY <1>5, <1>6, <1>7, <1>8 DEF CoverMoves

\* The steps of the handlers.
LEMMA CoverServe ==
    ASSUME TypeOK, AllEarly, NEW h \in Handlers, HandlerStep(h)
    PROVE  CoverMoves
<1>1. call[h].step # "idle"
  BY DEF HandlerStep, MarkRunning, TakeOver, MarkCompleted, BookCompleted, JudgeFailed,
     MarkRequeued, ClearRequeued, MarkFailed, FileFailed, MarkCancelled, ClearCancelled
<1>2. PICK i \in Items : call[h].item = i
  BY <1>1, CallTypes
<1>3. /\ budget \in Budgets /\ work \in [Items -> WorkRecords] /\ On(h, i)
      /\ call[h] \in Calls
  BY <1>1, <1>2, CallTypes DEF On, Idle, TypeOK
<1>4. ASSUME NEW j \in Items, j # i, j \in Owed,
             (\E s \in CallSteps : Advance(h, s)) \/ Return(h),
             submit' = submit, work'[j].status = work[j].status
      PROVE  j \in Owed'
  <2>1. ASSUME NEW g \in Handlers, At(g, Releasing, j) PROVE At(g, Releasing, j)'
    <3>1. g # h
      BY <1>2, <1>4, <2>1 DEF At
    <3>2. call'[g] = call[g]
      BY <1>1, <1>2, <1>4, <3>1, Advances, Returns
    <3> QED
      BY <2>1, <3>2 DEF At
  <2> QED
    BY <1>4, <2>1, OwedStays
<1>5. ASSUME NEW s \in CallSteps, Advance(h, s), submit' = submit, budget' = budget,
             call[h].step \notin Releasing,
             \A j \in Items : j # i => work'[j] = work[j],
             \/ work'[i].status \notin Terminal \/ work'[i].status = work[i].status
             \/ s \in Releasing
      PROVE  CoverMoves
  <2>1. /\ call'[h].step = s /\ call'[h].item = i
        /\ \A g \in Handlers : g # h => call'[g] = call[g]
    BY <1>1, <1>2, <1>5, Advances
  <2>2. ASSUME NEW g \in Handlers, At(g, Releasing, i) PROVE At(g, Releasing, i)'
    <3>1. g # h
      BY <1>5, <2>2 DEF At
    <3> QED
      BY <2>1, <2>2, <3>1 DEF At
  <2>3. s \in Releasing => At(h, Releasing, i)'
    BY <2>1 DEF At
  <2>4. i \in Owed => i \in Owed'
    BY <1>5, <2>2, <2>3, OwedStays
  <2>5. \A j \in Owed : j \in Owed'
    BY <1>4, <1>5, <2>4 DEF Owed
  <2> QED
    BY <1>5, <2>5 DEF CoverMoves, Steady
<1>6. ASSUME Return(h), submit' = submit, budget'.reserved = Release(i).reserved,
             \A j \in Items : j # i => work'[j] = work[j]
      PROVE  CoverMoves
  <2>1. \A j \in Owed \ {i} : j \in Owed'
    BY <1>4, <1>6 DEF Owed
  <2>2. budget'.reserved = Monus(budget.reserved, MaxBudget[i])
    BY <1>3, <1>6, ReservingMoves
  <2> QED
    BY <2>1, <2>2 DEF CoverMoves, Uncovers
<1>7. CASE MarkRunning(h)
  <2>1. /\ Advance(h, "start_owner") /\ submit' = submit /\ budget' = budget
        /\ call[h].step = "start" /\ work' = [work EXCEPT ![i].status = "running"]
    BY <1>2, <1>7 DEF MarkRunning, SetStatusOf, budgetVars
  <2>2. work'[i].status = "running" /\ \A j \in Items : j # i => work'[j] = work[j]
    BY <1>3, <2>1 DEF WorkRecords
  <2> QED
    BY <1>5, <2>1, <2>2 DEF CallSteps, Releasing, Terminal
<1>8. CASE TakeOver(h)
  <2>1. /\ Return(h) /\ submit' = submit /\ budget' = budget /\ call[h].step = "start_owner"
        /\ work' = [work EXCEPT ![i].owner = call[h].worker]
    BY <1>2, <1>8 DEF TakeOver, budgetVars
  <2>2. \A j \in Items : work'[j].status = work[j].status
    BY <1>3, <2>1 DEF WorkRecords
  <2>3. ASSUME NEW g \in Handlers, NEW j \in Items, At(g, Releasing, j)
        PROVE  At(g, Releasing, j)'
    <3>1. g # h
      BY <2>1, <2>3 DEF At, Releasing
    <3> QED
      BY <1>1, <1>2, <2>1, <2>3, <3>1, Returns DEF At
  <2>4. \A j \in Owed : j \in Owed'
    BY <2>1, <2>2, <2>3, OwedStays DEF Owed
  <2> QED
    BY <2>1, <2>4 DEF CoverMoves, Steady
<1>9. CASE MarkCompleted(h)
  <2>1. /\ Advance(h, "complete_book") /\ submit' = submit /\ budget' = budget
        /\ call[h].step = "complete" /\ work' = [work EXCEPT ![i].status = "completed"]
    BY <1>2, <1>9 DEF MarkCompleted, SetStatusOf, budgetVars
  <2>2. \A j \in Items : j # i => work'[j] = work[j]
    BY <1>3, <2>1
  <2> QED
    BY <1>5, <2>1, <2>2 DEF CallSteps, Releasing
<1>10. CASE BookCompleted(h)
  <2>1. /\ Return(h) /\ submit' = submit /\ call[h].step = "complete_book" /\ work' = work
        /\ Book(i, call[h].cost)
    BY <1>2, <1>10 DEF BookCompleted
  <2>2. call[h].cost \in Costs /\ call[h].cost # NoResult
    BY <1>3, <2>1, BudgetAssumption DEF AllEarly, Early, Priced
  <2>3. budget' = [Release(i) EXCEPT !.spent = @ + call[h].cost]
    BY <2>1, <2>2 DEF Book
  <2>4. Release(i) \in Budgets
    BY <1>3, BudgetMoves
  <2>5. budget'.reserved = Release(i).reserved
    BY <2>3, <2>4 DEF Budgets
  <2> QED
    BY <1>6, <2>1, <2>5
<1>11. CASE JudgeFailed(h)
  <2>1. /\ \E s \in {"fail_requeue", "fail_bury"} : Advance(h, s)
        /\ submit' = submit /\ budget' = budget /\ call[h].step = "fail" /\ work' = work
    BY <1>11 DEF JudgeFailed, queueVars, budgetVars
  <2> QED
    BY <1>5, <2>1 DEF CallSteps, Releasing
<1>12. CASE MarkRequeued(h)
  <2>1. /\ Advance(h, "fail_clear") /\ submit' = submit /\ budget' = budget
        /\ call[h].step = "fail_requeue" /\ work' = [work EXCEPT ![i] = Requeued(work[i])]
    BY <1>2, <1>12 DEF MarkRequeued, budgetVars
  <2>2. /\ work'[i] = Requeued(work[i]) /\ \A j \in Items : j # i => work'[j] = work[j]
    BY <1>3, <2>1
  <2>3. work'[i].status = "pending"
    BY <1>3, <2>2 DEF Requeued, WorkRecords
  <2> QED
    BY <1>5, <2>1, <2>2, <2>3 DEF CallSteps, Releasing, Terminal
<1>13. CASE MarkFailed(h)
  <2>1. /\ Advance(h, "fail_file") /\ submit' = submit /\ budget' = budget
        /\ call[h].step = "fail_bury" /\ work' = [work EXCEPT ![i].status = "failed"]
    BY <1>2, <1>13 DEF MarkFailed, SetStatusOf, budgetVars
  <2>2. \A j \in Items : j # i => work'[j] = work[j]
    BY <1>3, <2>1
  <2> QED
    BY <1>5, <2>1, <2>2 DEF CallSteps, Releasing
<1>14. CASE MarkCancelled(h)
  <2>1. /\ Advance(h, "cancel_clear") /\ submit' = submit /\ budget' = budget
        /\ call[h].step = "cancel" /\ work' = [work EXCEPT ![i].status = "failed"]
    BY <1>2, <1>14 DEF MarkCancelled, SetStatusOf, budgetVars
  <2>2. \A j \in Items : j # i => work'[j] = work[j]
    BY <1>3, <2>1
  <2> QED
    BY <1>5, <2>1, <2>2 DEF CallSteps, Releasing
<1>15. CASE ClearRequeued(h) \/ FileFailed(h) \/ ClearCancelled(h)
  <2>1. /\ Return(h) /\ submit' = submit /\ budget' = Release(i)
        /\ \/ work' = [work EXCEPT ![i] = Cleared(work[i])]
           \/ work' = work
           \/ work' = [work EXCEPT ![i].owner = NoWorker]
    BY <1>2, <1>15 DEF ClearRequeued, FileFailed, ClearCancelled
  <2>2. \A j \in Items : j # i => work'[j] = work[j]
    BY <1>3, <2>1
  <2> QED
    BY <1>6, <2>1, <2>2
<1> QED
  BY <1>7, <1>8, <1>9, <1>10, <1>11, <1>12, <1>13, <1>14, <1>15 DEF HandlerStep

\* What is owed and reserved is no business of a step that serves no call.
LEMMA CoverSteady ==
    ASSUME budget'.reserved = budget.reserved,
           \A h \in Handlers : call'[h] = call[h] \/ call[h] = Idle,
           \A j \in Items : /\ submit[j] \in {"accepted", "purged"} =>
                                 submit'[j] \in {"accepted", "purged"}
                            /\ \/ work'[j].status \notin Terminal
                               \/ work'[j].status = work[j].status
    PROVE  CoverMoves
<1>1. ASSUME NEW j \in Items, NEW g \in Handlers, At(g, Releasing, j) PROVE At(g, Releasing, j)'
  <2>1. call[g] # Idle
    BY <1>1 DEF At, Releasing, Idle
  <2> QED
    BY <1>1, <2>1 DEF At
<1>2. \A j \in Owed : j \in Owed'
  BY <1>1, OwedStays DEF Owed
<1> QED
  BY <1>2 DEF CoverMoves, Steady

\* All steps of the coordinator.
LEMMA CoverStep ==
    ASSUME TypeOK, AllEarly, [Next]_vars
    PROVE  CoverMoves
<1>0. /\ work \in [Items -> WorkRecords] /\ budget \in Budgets
      /\ submit \in [Items -> SubmitPhases]
  BY DEF TypeOK
<1>1. ASSUME UNCHANGED <<budget, submit>>, NEW c, Lookup(c) PROVE CoverMoves
  <2>1. \A h \in Handlers : call'[h] = call[h] \/ call[h] = Idle
    BY <1>1 DEF Lookup, TypeOK
  <2> QED
    BY <1>1, <2>1, CoverSteady DEF Lookup, queueVars
<1>2. ASSUME UNCHANGED <<budget, submit, call, work>> PROVE CoverMoves
  BY <1>2, CoverSteady
<1>3. ASSUME NEW i \in Items, ItemStep(i) PROVE CoverMoves
  <2>1. CASE SubmitReserve(i)
    <3>1. /\ submit[i] = "pushed" /\ submit' = [submit EXCEPT ![i] = "accepted"]
          /\ budget' = Reserve(i) /\ UNCHANGED <<work, call>>
      BY <2>1 DEF SubmitReserve, queueVars, callVars
    <3>2. budget'.reserved = budget.reserved + MaxBudget[i]
      BY <1>0, <3>1, ReservingMoves
    <3>3. i \notin Owed
      BY <3>1 DEF Owed
    <3>4. work[i].status \notin Terminal
      BY <3>1 DEF AllEarly, Early
    <3>5. i \in Owed'
      BY <1>0, <3>1, <3>4 DEF Owed, Owing
    <3>6. \A j \in Owed : j \in Owed'
      BY <1>0, <3>1, OwedStays DEF Owed, At
    <3> QED
      BY <3>2, <3>3, <3>5, <3>6 DEF CoverMoves, Covers
  <2>2. CASE SubmitCheck(i) \/ SubmitReject(i) \/ SubmitPush(i)
    <3>1. /\ budget' = budget /\ call' = call
          /\ submit[i] \in {"new", "checked"}
          /\ \A j \in Items : j # i => submit'[j] = submit[j]
          /\ work' = work \/ work' = [work EXCEPT ![i] = NewWork]
      BY <1>0, <2>2 DEF SubmitCheck, SubmitReject, SubmitPush, queueVars, budgetVars, callVars
    <3>2. \A j \in Items : work'[j].status \notin Terminal \/ work'[j].status = work[j].status
      BY <1>0, <3>1 DEF NewWork, Terminal
    <3> QED
      BY <3>1, <3>2, CoverSteady
  <2>3. CASE (\E r \in Costs \cup {NoResult} : LookupCompleted(i, r))
               \/ LookupFailed(i) \/ LookupCancel(i)
    BY <1>1, <2>3 DEF LookupCompleted, LookupFailed, LookupCancel, Lookup, budgetVars
  <2>4. CASE \/ ClearDeregistered(i) \/ BackoffElapsed(i) \/ ReclaimTimedOut(i)
             \/ Reap(i) \/ RetryFromDLQ(i)
    <3>1. /\ UNCHANGED <<budget, call, submit>>
          /\ \/ work' = work
             \/ work' = [work EXCEPT ![i].owner = NoWorker]
             \/ work' = [work EXCEPT ![i].backoff = FALSE]
             \/ work' = [work EXCEPT ![i] = Unassigned(work[i])]
             \/ work' = [work EXCEPT ![i] = NewWork]
      BY <2>4 DEF ClearDeregistered, BackoffElapsed, ReclaimTimedOut, Reap, RetryFromDLQ,
         budgetVars, callVars
    <3>2. \A j \in Items : j # i => work'[j] = work[j]
      BY <1>0, <3>1
    <3>3. work'[i].status \notin Terminal \/ work'[i].status = work[i].status
      <4>1. CASE work' = [work EXCEPT ![i].owner = NoWorker]
        BY <1>0, <4>1 DEF WorkRecords
      <4>2. CASE work' = [work EXCEPT ![i].backoff = FALSE]
        BY <1>0, <4>2 DEF WorkRecords
      <4>3. CASE work' = [work EXCEPT ![i] = Unassigned(work[i])]
        BY <1>0, <4>3 DEF Unassigned, Owned, WorkRecords, Terminal
      <4>4. CASE work' = [work EXCEPT ![i] = NewWork]
        BY <1>0, <4>4 DEF NewWork, Terminal
      <4> QED
        BY <3>1, <4>1, <4>2, <4>3, <4>4
    <3> QED
      BY <3>1, <3>2, <3>3, CoverSteady
  <2> QED
    BY <1>3, <2>1, <2>2, <2>3, <2>4 DEF ItemStep
<1>4. ASSUME NEW w \in Workers, WorkerStep(w) PROVE CoverMoves
  <2>1. CASE \E i \in Items : LookupStart(w, i)
    BY <1>1, <2>1 DEF LookupStart, Lookup, budgetVars
  <2>2. ASSUME NEW i \in Items, AssignBest(w, i) PROVE CoverMoves
    <3>1. /\ UNCHANGED <<budget, call, submit>>
          /\ work' = [work EXCEPT ![i] = Owned(work[i], "assigned", w)]
      BY <2>2 DEF AssignBest, budgetVars, callVars
    <3>2. \A j \in Items : work'[j].status \notin Terminal \/ work'[j].status = work[j].status
      BY <1>0, <3>1 DEF Owned, WorkRecords, Terminal
    <3> QED
      BY <3>1, <3>2, CoverSteady
  <2>3. CASE DeregisterWorker(w)
    <3>1. /\ UNCHANGED <<budget, call, submit>>
          /\ \A j \in Items : \/ work'[j] = work[j]
                              \/ work'[j] = [work[j] EXCEPT !.status = "pending"]
      BY <2>3 DEF DeregisterWorker, budgetVars
    <3>2. \A j \in Items : work'[j].status \notin Terminal \/ work'[j].status = work[j].status
      BY <1>0, <3>1 DEF WorkRecords, Terminal
    <3> QED
      BY <3>1, <3>2, CoverSteady
  <2>4. CASE \/ Register(w) \/ PauseWorker(w) \/ DrainWorker(w) \/ ResumeWorker(w)
             \/ PollAdmit(w) \/ PollEmpty(w) \/ \E f \in BOOLEAN : Heartbeat(w, f)
    BY <1>2, <2>4 DEF Register, PauseWorker, DrainWorker, ResumeWorker, SetStatus, PollAdmit,
                      PollEmpty, Heartbeat, queueVars, budgetVars, callVars
  <2> QED
    BY <1>4, <2>1, <2>2, <2>3, <2>4 DEF WorkerStep
<1>5. ASSUME NEW h \in Handlers, HandlerStep(h) PROVE CoverMoves
  BY <1>5, CoverServe
<1>6. CASE Checkpoint
  BY <1>2, <1>6 DEF Checkpoint, queueVars, budgetVars, callVars
<1>7. CASE PurgeDLQ
  <2>1. /\ UNCHANGED <<budget, call, work>>
        /\ \A j \in Items : submit'[j] \in {submit[j], "purged"}
    BY <1>7 DEF PurgeDLQ, budgetVars, callVars
  <2> QED
    BY <2>1, CoverSteady
<1>8. ASSUME NEW l \in Limits, SetBudgetLimit(l) PROVE CoverMoves
  <2>1. budget'.reserved = budget.reserved /\ UNCHANGED <<call, work, submit>>
    BY <1>0, <1>8 DEF SetBudgetLimit, queueVars, callVars, Budgets
  <2> QED
    BY <2>1, CoverSteady
<1>9. CASE Restart
  BY <1>9 DEF Restart, CoverMoves
<1>10. CASE UNCHANGED vars
  BY <1>2, <1>10 DEF vars
<1> QED
  BY <1>3, <1>4, <1>5, <1>6, <1>7, <1>8, <1>9, <1>10 DEF Next

\* Whatever fails, no more is reserved than the owing items may spend.
THEOREM ReservationsAreCovered == SystemSpec => []ReservationsCovered
<1>1. SystemInit => ReservationsCovered
  <2> SUFFICES ASSUME SystemInit PROVE ReservationsCovered
    OBVIOUS
  <2>1. budget.reserved = 0 /\ \A i \in Items : submit[i] = "new"
    BY DEF SystemInit, Init
  <2>2. Owed = {}
    BY <2>1 DEF Owed
  <2> QED
    BY <2>1, <2>2, SumOfNone DEF ReservationsCovered, Owed
<1>2. SystemTypeOK /\ AllEarly /\ ReservationsCovered /\ [SystemNext]_sysVars
        => ReservationsCovered'
  BY Projects, CoverStep, CoverArithmetic DEF SystemTypeOK
<1> QED
  BY <1>1, <1>2, EarlyAlways, SystemTypeCorrect, PTL DEF SystemSpec

-----------------------------------------------------------------------------
(* The spend, when sessions fail and are retried. *)

\* Nothing that is done is in the dead letter queue, nor in the one on disk: a
\* retry from there would run it, and book it, again.
Buried ==
    \A i \in Items :
        /\ i \in dlq => work[i].status # "completed"
        /\ i \in disk.dlq => disk.work[i].status # "completed"

\* The items that PaidOnce adds up.
PaidFor == {i \in Items : Paid(i)}

\* How the spend and the items paid for move: not, but for a restart, ...
Unpaid == budget'.spent \in {budget.spent, 0} /\ (PaidFor \subseteq PaidFor' \/ budget'.spent = 0)

\* ... or with an item that is paid for, within its budget.
PaysFor(i) ==
    /\ i \notin PaidFor /\ PaidFor \cup {i} \subseteq PaidFor'
    /\ \E r \in Costs : r <= MaxBudget[i] /\ budget'.spent = budget.spent + r

\* One of the two.
PayMoves == Unpaid \/ \E i \in Items : PaysFor(i)

LEMMA PayArithmetic ==
    ASSUME TypeOK, PaidOnce, PayMoves
    PROVE  PaidOnce'
<1> DEFINE Sum(s) == SumFunctionOnSet(MaxBudget, s)
<1>1. PaidFor \in SUBSET Items /\ PaidFor' \in SUBSET Items
  BY DEF PaidFor
<1>2. /\ PaidOnce <=> budget.spent <= Sum(PaidFor)
      /\ PaidOnce' <=> budget'.spent <= Sum(PaidFor')
  BY DEF PaidOnce, PaidFor
<1>3. \A s \in SUBSET Items :
         /\ Sum(s) \in Nat
         /\ \A i \in s : Sum(s) = MaxBudget[i] + Sum(s \ {i})
         /\ \A r \in SUBSET s : Sum(r) <= Sum(s)
  BY BudgetSums, SumSubset
<1>4. /\ budget.spent \in Nat /\ \A i \in Items : MaxBudget[i] \in Nat
      /\ Costs \subseteq Nat
  BY ItemAssumption, BudgetAssumption DEF TypeOK, Budgets
<1> HIDE DEF Sum
<1>5. CASE budget'.spent = 0
  BY <1>1, <1>2, <1>3, <1>5
<1>6. CASE Unpaid /\ budget'.spent # 0
  BY <1>1, <1>2, <1>3, <1>4, <1>6 DEF Unpaid
<1>7. ASSUME NEW i \in Items, PaysFor(i) PROVE PaidOnce'
  <2>1. i \in PaidFor' /\ PaidFor \in SUBSET (PaidFor' \ {i}) /\ PaidFor' \ {i} \in SUBSET Items
    BY <1>1, <1>7 DEF PaysFor
  <2>2. Sum(PaidFor') = MaxBudget[i] + Sum(PaidFor' \ {i}) /\ Sum(PaidFor) <= Sum(PaidFor' \ {i})
    BY <1>1, <1>3, <2>1
  <2>3. PICK r \in Costs : r <= MaxBudget[i] /\ budget'.spent = budget.spent + r
    BY <1>7 DEF PaysFor
  <2>4. Sum(PaidFor) \in Nat /\ Sum(PaidFor' \ {i}) \in Nat
    BY <1>1, <1>3, <2>1
  <2> QED
    BY <1>2, <1>4, <2>2, <2>3, <2>4
<1> QED
  BY <1>5, <1>6, <1>7 DEF PayMoves

\* What is paid for stays so while it stays completed and no completion of it
\* is about to be booked.
LEMMA PaidStays ==
    ASSUME NEW S, S \subseteq PaidFor,
           \A j \in S : work'[j].status = work[j].status,
           \A j \in S : \A h \in Handlers :
              At(h, {"complete_book"}, j)' => At(h, {"complete_book"}, j)
    PROVE  S \subseteq PaidFor'
<1> SUFFICES ASSUME NEW j \in S PROVE j \in PaidFor'
  OBVIOUS
<1>1. j \in Items /\ Paid(j)
  BY DEF PaidFor
<1>2. Paid(j)'
  BY <1>1 DEF Paid
<1> QED
  BY <1>1, <1>2 DEF PaidFor

\* Steps that serve no call.
LEMMA PaySteady ==
    ASSUME budget'.spent = budget.spent,
           \A h \in Handlers : call'[h] = call[h] \/ call'[h].step # "complete_book",
           \A j \in Items : \/ work'[j].status = work[j].status
                            \/ work[j].status # "completed"
    PROVE  PayMoves
<1>1. \A j \in PaidFor : j \in Items /\ work'[j].status = work[j].status
  BY DEF PaidFor, Paid
<1>2. \A j \in PaidFor : \A h \in Handlers :
         At(h, {"complete_book"}, j)' => At(h, {"complete_book"}, j)
  BY DEF At
<1>3. PaidFor \subseteq PaidFor'
  BY <1>1, <1>2, PaidStays
<1> QED
  BY <1>3 DEF PayMoves, Unpaid

\* The steps of the handlers.
LEMMA PayServe ==
    ASSUME TypeOK, AllEarly, InCustody, \A i \in Items : MaxBudget[i] > 0,
           NEW h \in Handlers, HandlerStep(h), [Next]_vars
    PROVE  PayMoves
<1>1. call[h].step # "idle"
  BY DEF HandlerStep, MarkRunning, TakeOver, MarkCompleted, BookCompleted, JudgeFailed,
     MarkRequeued, ClearRequeued, MarkFailed, FileFailed, MarkCancelled, ClearCancelled
<1>2. PICK i \in Items : call[h].item = i
  BY <1>1, CallTypes
<1>3. /\ budget \in Budgets /\ work \in [Items -> WorkRecords] /\ On(h, i)
      /\ call[h] \in Calls
  BY <1>1, <1>2, CallTypes DEF On, Idle, TypeOK
<1>4. Due(h, i) /\ \A g \in Handlers : On(g, i) => g = h
  BY <1>3 DEF InCustody, Custody, CallIsDue
<1>5. ASSUME budget'.spent = budget.spent,
             (\E s \in CallSteps : Advance(h, s)) \/ Return(h),
             \A j \in Items : j # i => work'[j].status = work[j].status,
             work[i].status # "completed"
      PROVE  PayMoves
  <2>1. i \notin PaidFor
    BY <1>5 DEF PaidFor, Paid
  <2>2. ASSUME NEW j \in PaidFor, NEW g \in Handlers, At(g, {"complete_book"}, j)'
        PROVE  At(g, {"complete_book"}, j)
    <3>1. j \in Items /\ j # i
      BY <2>1 DEF PaidFor
    <3>2. On(g, j)'
      BY <2>2 DEF At, On, Idle
    <3>3. g # h
      BY <1>1, <1>2, <1>5, <3>1, <3>2, Advances, Returns
    <3>4. call'[g] = call[g]
      BY <1>1, <1>2, <1>5, <3>3, Advances, Returns
    <3> QED
      BY <2>2, <3>4 DEF At
  <2>3. \A j \in PaidFor : work'[j].status = work[j].status
    BY <1>5, <2>1 DEF PaidFor
  <2>4. PaidFor \subseteq PaidFor'
    BY <2>2, <2>3, PaidStays
  <2> QED
    BY <1>5, <2>4 DEF PayMoves, Unpaid
<1>6. CASE BookCompleted(h)
  <2>1. /\ Return(h) /\ call[h].step = "complete_book" /\ work' = work
        /\ Book(i, call[h].cost)
    BY <1>2, <1>6 DEF BookCompleted
  <2>2. /\ call[h].cost \in Costs /\ call[h].cost # NoResult /\ call[h].cost <= MaxBudget[i]
        /\ work[i].status = "completed"
    BY <1>3, <1>4, <2>1, BudgetAssumption DEF AllEarly, Early, Priced, Due
  <2>3. budget' = [Release(i) EXCEPT !.spent = @ + call[h].cost]
    BY <2>1, <2>2 DEF Book
  <2>4. Release(i) \in Budgets /\ Release(i).spent = budget.spent
    BY <1>3, BudgetMoves, ReservingMoves
  <2>5. budget'.spent = budget.spent + call[h].cost
    BY <2>3, <2>4 DEF Budgets
  <2>6. i \notin PaidFor
    BY <1>2, <2>1 DEF PaidFor, Paid, At
  <2>7. \A g \in Handlers : ~On(g, i)'
    BY <1>1, <1>2, <1>4, <2>1, Returns
  <2>8. \A g \in Handlers : ~At(g, {"complete_book"}, i)'
    BY <2>7 DEF At, On, Idle
  <2>9. i \in PaidFor'
    BY <2>1, <2>2, <2>8 DEF PaidFor, Paid
  <2>10. ASSUME NEW j \in PaidFor, NEW g \in Handlers, At(g, {"complete_book"}, j)'
         PROVE  At(g, {"complete_book"}, j)
    <3>1. j \in Items /\ On(g, j)'
      BY <2>10 DEF At, On, Idle, PaidFor
    <3>2. g # h
      BY <1>1, <1>2, <2>1, <3>1, Returns
    <3>3. call'[g] = call[g]
      BY <1>1, <1>2, <2>1, <3>2, Returns
    <3> QED
      BY <2>10, <3>3 DEF At
  <2>11. PaidFor \subseteq PaidFor'
    BY <2>1, <2>10, PaidStays
  <2> QED
    BY <2>2, <2>5, <2>6, <2>9, <2>11 DEF PayMoves, PaysFor
<1>7. CASE ~BookCompleted(h)
  <2>1. (\E s \in CallSteps : Advance(h, s)) \/ Return(h)
    BY <1>7 DEF HandlerStep, MarkRunning, TakeOver, MarkCompleted, JudgeFailed, MarkRequeued,
       ClearRequeued, MarkFailed, FileFailed, MarkCancelled, ClearCancelled, CallSteps
  <2>2. \A j \in Items : j # i => work'[j].status = work[j].status
    BY <1>2, <1>3, <1>7 DEF HandlerStep, MarkRunning, TakeOver, MarkCompleted, JudgeFailed,
       MarkRequeued, ClearRequeued, MarkFailed, FileFailed, MarkCancelled, ClearCancelled,
       SetStatusOf, queueVars
  <2>3. call[h].step \in CallSteps \ {"complete_book"}
    BY <1>3, <1>7 DEF HandlerStep, MarkRunning, TakeOver, MarkCompleted, JudgeFailed,
       MarkRequeued, ClearRequeued, MarkFailed, FileFailed, MarkCancelled, ClearCancelled, CallSteps
  <2>4. work[i].status # "completed"
    BY <1>4, <2>3 DEF Due, CallSteps, Active
  <2>5. budget'.spent = budget.spent
    <3>1. CASE ClearRequeued(h) \/ FileFailed(h) \/ ClearCancelled(h)
      BY <1>2, <1>3, <3>1, ReservingMoves DEF ClearRequeued, FileFailed, ClearCancelled
    <3>2. CASE UNCHANGED budgetVars
      BY <3>2 DEF budgetVars
    <3> QED
      BY <1>7, <3>1, <3>2 DEF HandlerStep, MarkRunning, TakeOver, MarkCompleted, JudgeFailed,
         MarkRequeued, MarkFailed, MarkCancelled
  <2> QED
    BY <1>5, <2>1, <2>2, <2>4, <2>5
<1> QED
  BY <1>6, <1>7

\* All steps of the coordinator.
LEMMA PayStep ==
    ASSUME TypeOK, AllEarly, InCustody, Buried, \A i \in Items : MaxBudget[i] > 0, [Next]_vars
    PROVE  PayMoves
<1>0. /\ work \in [Items -> WorkRecords] /\ budget \in Budgets
      /\ call \in [Handlers -> Calls \cup {Idle}]
  BY DEF TypeOK
<1>1. ASSUME NEW h \in Handlers, HandlerStep(h) PROVE PayMoves
  BY <1>1, PayServe
<1>2. CASE Restart
  BY <1>2 DEF Restart, PayMoves, Unpaid
<1>3. CASE UNCHANGED vars
  BY <1>3, PaySteady DEF vars
<1>4. CASE Next /\ ~Restart /\ \A h \in Handlers : ~HandlerStep(h)
  <2>1. budget'.spent = budget.spent
    BY <1>4, SpendMoves DEF HandlerStep
  <2>2. ASSUME NEW i \in Items, ItemStep(i) PROVE PayMoves
    <3>1. CASE \/ SubmitCheck(i) \/ SubmitReject(i) \/ SubmitReserve(i) \/ Reap(i)
      BY <2>1, <3>1, PaySteady DEF SubmitCheck, SubmitReject, SubmitReserve, Reap, queueVars,
         callVars
    <3>2. CASE SubmitPush(i) \/ RetryFromDLQ(i)
      <4>1. call' = call /\ work' = [work EXCEPT ![i] = NewWork]
        BY <3>2 DEF SubmitPush, RetryFromDLQ, callVars
      <4>2. work[i].status # "completed"
        BY <3>2 DEF SubmitPush, RetryFromDLQ, Buried, InCustody, Custody, RecordInPlace, NewWork
      <4>3. \A j \in Items : work'[j].status = work[j].status \/ work[j].status # "completed"
        BY <1>0, <4>1, <4>2
      <4> QED
        BY <2>1, <4>1, <4>3, PaySteady
    <3>3. CASE ClearDeregistered(i) \/ BackoffElapsed(i)
      <4>1. /\ call' = call
            /\ \/ work' = [work EXCEPT ![i].owner = NoWorker]
               \/ work' = [work EXCEPT ![i].backoff = FALSE]
        BY <3>3 DEF ClearDeregistered, BackoffElapsed, callVars
      <4>2. \A j \in Items : work'[j].status = work[j].status
        BY <1>0, <4>1 DEF WorkRecords
      <4> QED
        BY <2>1, <4>1, <4>2, PaySteady
    <3>4. CASE ReclaimTimedOut(i)
      <4>1. /\ call' = call /\ work[i].status = "assigned"
            /\ work' = [work EXCEPT ![i] = Unassigned(work[i])]
        BY <3>4 DEF ReclaimTimedOut, callVars
      <4>2. \A j \in Items : work'[j].status = work[j].status \/ work[j].status # "completed"
        BY <1>0, <4>1
      <4> QED
        BY <2>1, <4>1, <4>2, PaySteady
    <3>5. CASE (\E r \in Costs \cup {NoResult} : LookupCompleted(i, r))
                 \/ LookupFailed(i) \/ LookupCancel(i)
      <4>0. \A r \in Costs \cup {NoResult} : Completion(i, r).step # "complete_book"
        BY DEF Completion
      <4>1. PICK c : Lookup(c) /\ c.step # "complete_book"
        <5>1. CASE LookupFailed(i) \/ LookupCancel(i)
          <6>1. Call("fail", i).step = "fail" /\ Call("cancel", i).step = "cancel"
            BY DEF Call
          <6>2. Lookup(Call("fail", i)) \/ Lookup(Call("cancel", i))
            BY <5>1 DEF LookupFailed, LookupCancel
          <6> QED
            BY <6>1, <6>2
        <5> QED
          BY <3>5, <4>0, <5>1 DEF LookupCompleted
      <4>2. \A h \in Handlers : call'[h] = call[h] \/ call'[h] = c
        BY <1>0, <4>1 DEF Lookup
      <4> QED
        BY <2>1, <4>1, <4>2, PaySteady DEF Lookup, queueVars
    <3> QED
      BY <2>2, <3>1, <3>2, <3>3, <3>4, <3>5 DEF ItemStep
  <2>3. ASSUME NEW w \in Workers, WorkerStep(w) PROVE PayMoves
    <3>1. ASSUME NEW i \in Items, LookupStart(w, i) PROVE PayMoves
      <4>1. Lookup(Start(w, i)) /\ Start(w, i).step # "complete_book"
        BY <3>1 DEF LookupStart, Start
      <4>2. \A h \in Handlers : call'[h] = call[h] \/ call'[h] = Start(w, i)
        BY <1>0, <4>1 DEF Lookup
      <4> QED
        BY <2>1, <4>1, <4>2, PaySteady DEF Lookup, queueVars
    <3>2. ASSUME NEW i \in Items, AssignBest(w, i) PROVE PayMoves
      <4>1. /\ call' = call /\ work[i].status = "pending"
            /\ work' = [work EXCEPT ![i] = Owned(work[i], "assigned", w)]
        BY <3>2 DEF AssignBest, Eligible, callVars
      <4>2. \A j \in Items : work'[j].status = work[j].status \/ work[j].status # "completed"
        BY <1>0, <4>1
      <4> QED
        BY <2>1, <4>1, <4>2, PaySteady
    <3>3. CASE DeregisterWorker(w)
      <4>1. /\ call' = call
            /\ \A j \in Items : work'[j] = work[j] \/ work[j].status = "assigned"
        BY <3>3 DEF DeregisterWorker, Claims
      <4> QED
        BY <2>1, <4>1, PaySteady
    <3>4. CASE \/ Register(w) \/ PauseWorker(w) \/ DrainWorker(w) \/ ResumeWorker(w)
               \/ PollAdmit(w) \/ PollEmpty(w) \/ \E f \in BOOLEAN : Heartbeat(w, f)
      BY <2>1, <3>4, PaySteady DEF Register, PauseWorker, DrainWorker, ResumeWorker, SetStatus,
         PollAdmit, PollEmpty, Heartbeat, queueVars, callVars
    <3> QED
      BY <2>3, <3>1, <3>2, <3>3, <3>4 DEF WorkerStep
  <2>4. CASE Checkpoint \/ PurgeDLQ \/ \E l \in Limits : SetBudgetLimit(l)
    BY <2>1, <2>4, PaySteady DEF Checkpoint, PurgeDLQ, SetBudgetLimit, queueVars, callVars
  <2> QED
    BY <1>4, <2>2, <2>3, <2>4 DEF Next
<1> QED
  BY <1>1, <1>2, <1>3, <1>4

\* What is buried stays in order.
LEMMA BuriedServe ==
    ASSUME TypeOK, InCustody, Buried, NEW h \in Handlers, HandlerStep(h)
    PROVE  Buried'
<1>1. call[h].step # "idle" /\ disk' = disk
  BY DEF HandlerStep, MarkRunning, TakeOver, MarkCompleted, BookCompleted, JudgeFailed,
     MarkRequeued, ClearRequeued, MarkFailed, FileFailed, MarkCancelled, ClearCancelled, diskVars
<1>2. PICK i \in Items : call[h].item = i
  BY <1>1, CallTypes
<1>3. /\ work \in [Items -> WorkRecords] /\ i \notin dlq
  <2>1. On(h, i)
    BY <1>1, <1>2 DEF On, Idle
  <2> QED
    BY <2>1 DEF TypeOK, InCustody, Custody, CallIsDue, RecordInPlace
<1>4. \A j \in Items : j # i => work'[j] = work[j]
  BY <1>2, <1>3 DEF HandlerStep, MarkRunning, TakeOver, MarkCompleted, BookCompleted, JudgeFailed,
     MarkRequeued, ClearRequeued, MarkFailed, FileFailed, MarkCancelled, ClearCancelled,
     SetStatusOf, queueVars
<1>5. CASE ClearRequeued(h) \/ FileFailed(h)
  <2>1. File(i) /\ (work' = [work EXCEPT ![i] = Cleared(work[i])] \/ work' = work)
    BY <1>2, <1>5 DEF ClearRequeued, FileFailed
  <2>2. work'[i].status = work[i].status
    BY <1>3, <2>1 DEF Cleared, WorkRecords
  <2>3. dlq' = dlq \/ (dlq' = dlq \cup {i} /\ work[i].status = "failed")
    BY <2>1 DEF File
  <2> QED
    BY <1>1, <1>3, <1>4, <2>2, <2>3 DEF Buried
<1>6. CASE ~ClearRequeued(h) /\ ~FileFailed(h)
  <2>1. dlq' = dlq
    BY <1>6 DEF HandlerStep, MarkRunning, TakeOver, MarkCompleted, BookCompleted, JudgeFailed,
       MarkRequeued, MarkFailed, MarkCancelled, ClearCancelled, queueVars
  <2> QED
    BY <1>1, <1>3, <1>4, <2>1 DEF Buried
<1> QED
  BY <1>5, <1>6

LEMMA BuriedStep ==
    ASSUME TypeOK, InCustody, Buried, [Next]_vars
    PROVE  Buried'
<1>0. work \in [Items -> WorkRecords]
  BY DEF TypeOK
<1>1. ASSUME UNCHANGED disk, dlq' \subseteq dlq,
             \A j \in Items : work'[j].status # "completed" \/ work'[j].status = work[j].status
      PROVE  Buried'
  BY <1>1 DEF Buried
<1>2. ASSUME UNCHANGED <<disk, dlq, work>> PROVE Buried'
  BY <1>1, <1>2
<1>3. ASSUME NEW i \in Items, ItemStep(i) PROVE Buried'
  <2>1. CASE \/ SubmitCheck(i) \/ SubmitReject(i) \/ SubmitReserve(i)
             \/ (\E r \in Costs \cup {NoResult} : LookupCompleted(i, r))
             \/ LookupFailed(i) \/ LookupCancel(i)
    BY <1>2, <2>1 DEF SubmitCheck, SubmitReject, SubmitReserve, LookupCompleted, LookupFailed,
       LookupCancel, Lookup, queueVars, diskVars
  <2>2. CASE SubmitPush(i) \/ RetryFromDLQ(i)
    <3>1. /\ disk' = disk /\ dlq' \subseteq dlq /\ work' = [work EXCEPT ![i] = NewWork]
      BY <2>2 DEF SubmitPush, RetryFromDLQ, diskVars
    <3>2. \A j \in Items : work'[j].status # "completed" \/ work'[j].status = work[j].status
      BY <1>0, <3>1 DEF NewWork
    <3> QED
      BY <1>1, <3>1, <3>2
  <2>3. CASE ClearDeregistered(i) \/ BackoffElapsed(i) \/ ReclaimTimedOut(i)
    <3>1. /\ UNCHANGED <<disk, dlq>>
          /\ \/ work' = [work EXCEPT ![i].owner = NoWorker]
             \/ work' = [work EXCEPT ![i].backoff = FALSE]
             \/ work' = [work EXCEPT ![i] = Unassigned(work[i])]
      BY <2>3 DEF ClearDeregistered, BackoffElapsed, ReclaimTimedOut, diskVars
    <3>2. \A j \in Items : work'[j].status # "completed" \/ work'[j].status = work[j].status
      <4>1. CASE work' = [work EXCEPT ![i].owner = NoWorker]
        BY <1>0, <4>1 DEF WorkRecords
      <4>2. CASE work' = [work EXCEPT ![i].backoff = FALSE]
        BY <1>0, <4>2 DEF WorkRecords
      <4>3. CASE work' = [work EXCEPT ![i] = Unassigned(work[i])]
        BY <1>0, <4>3 DEF Unassigned, Owned, WorkRecords
      <4> QED
        BY <3>1, <4>1, <4>2, <4>3
    <3> QED
      BY <1>1, <3>1, <3>2
  <2>4. CASE Reap(i)
    BY <2>4 DEF Reap, diskVars, Buried
  <2> QED
    BY <1>3, <2>1, <2>2, <2>3, <2>4 DEF ItemStep
<1>4. ASSUME NEW w \in Workers, WorkerStep(w) PROVE Buried'
  <2>1. ASSUME NEW i \in Items, AssignBest(w, i) PROVE Buried'
    <3>1. /\ UNCHANGED <<disk, dlq>> /\ work' = [work EXCEPT ![i] = Owned(work[i], "assigned", w)]
      BY <2>1 DEF AssignBest, diskVars
    <3>2. \A j \in Items : work'[j].status # "completed" \/ work'[j].status = work[j].status
      BY <1>0, <3>1 DEF Owned, WorkRecords
    <3> QED
      BY <1>1, <3>1, <3>2
  <2>2. CASE DeregisterWorker(w)
    <3>1. /\ UNCHANGED <<disk, dlq>>
          /\ \A j \in Items : \/ work'[j] = work[j]
                              \/ work'[j] = [work[j] EXCEPT !.status = "pending"]
      BY <2>2 DEF DeregisterWorker, diskVars
    <3>2. \A j \in Items : work'[j].status # "completed" \/ work'[j].status = work[j].status
      BY <1>0, <3>1 DEF WorkRecords
    <3> QED
      BY <1>1, <3>1, <3>2
  <2>3. CASE \/ Register(w) \/ PauseWorker(w) \/ DrainWorker(w) \/ ResumeWorker(w)
             \/ PollAdmit(w) \/ PollEmpty(w) \/ (\E f \in BOOLEAN : Heartbeat(w, f))
             \/ \E i \in Items : LookupStart(w, i)
    BY <1>2, <2>3 DEF Register, PauseWorker, DrainWorker, ResumeWorker, SetStatus,
         PollAdmit, PollEmpty, Heartbeat, LookupStart, Lookup, queueVars, diskVars
  <2> QED
    BY <1>4, <2>1, <2>2, <2>3 DEF WorkerStep
<1>5. CASE Checkpoint
  <2>1. /\ UNCHANGED <<dlq, work>> /\ disk'.dlq = dlq
        /\ disk'.work = [i \in Items |-> IF i \in items \cup dlq THEN work[i] ELSE NewWork]
    BY <1>5 DEF Checkpoint, queueVars
  <2> QED
    BY <2>1 DEF Buried
<1>6. CASE PurgeDLQ \/ \E l \in Limits : SetBudgetLimit(l)
  BY <1>1, <1>6 DEF PurgeDLQ, SetBudgetLimit, queueVars, diskVars
<1>7. CASE Restart
  BY <1>7 DEF Restart, Load, Buried
<1>8. CASE UNCHANGED vars
  BY <1>2, <1>8 DEF vars
<1> QED
  BY <1>3, <1>4, <1>5, <1>6, <1>7, <1>8, BuriedServe DEF Next

\* Where custody is kept, what is in the dead letter queue is not done.
THEOREM BuriedStaysUndone == ASSUME Reliable PROVE SystemSpec => []Buried
<1>1. SystemInit => Buried
  BY DEF SystemInit, Init, Buried
<1>2. SystemTypeOK /\ InCustody /\ Buried /\ [SystemNext]_sysVars => Buried'
  BY Projects, BuriedStep DEF SystemTypeOK
<1> QED
  BY <1>1, <1>2, CustodyIsKept, SystemTypeCorrect, PTL DEF SystemSpec

\* Where custody is kept and every item has a budget, and however many sessions
\* fail and are retried, the fleet's spend is at most the budgets of the items
\* it completed.
THEOREM ItemsArePaidOnce ==
    ASSUME Reliable, \A i \in Items : MaxBudget[i] > 0
    PROVE  SystemSpec => []PaidOnce
<1>1. SystemInit => PaidOnce
  <2> SUFFICES ASSUME SystemInit PROVE PaidOnce
    OBVIOUS
  <2>1. budget.spent = 0 /\ \A i \in Items : work[i].status = "pending"
    BY DEF SystemInit, Init, NewWork
  <2>2. {i \in Items : Paid(i)} = {}
    BY <2>1 DEF Paid
  <2> QED
    BY <2>1, <2>2, SumOfNone DEF PaidOnce
<1>2. SystemTypeOK /\ AllEarly /\ InCustody /\ Buried /\ PaidOnce /\ [SystemNext]_sysVars
        => PaidOnce'
  BY Projects, PayStep, PayArithmetic DEF SystemTypeOK
<1> QED
  BY <1>1, <1>2, EarlyAlways, CustodyIsKept, BuriedStaysUndone, SystemTypeCorrect, PTL
     DEF SystemSpec

=============================================================================
