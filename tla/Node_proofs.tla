---------------------------- MODULE Node_proofs ----------------------------
(***************************************************************************)
(* The components together.  MCNode moves one of them in a behaviour, since*)
(* they share no state; TogetherSpec lets all of them move, in any order or*)
(* at once, and what each guarantees alone it guarantees there, and so in  *)
(* the behaviours of MCNode.  The inductive invariant is the conjunction of*)
(* theirs.  Only the subscription automation asks for more for some of its *)
(* properties, that one supervisor ticks it.                               *)
(***************************************************************************)
EXTENDS MCNode, Processes_proofs, TeamRuntime_proofs, SubscriptionAutomation_proofs,
        LeaderFailover_proofs, EventBus_proofs, TLAPS

LeaderIInv == LeaderTypeOK /\ Stages /\ InTime /\ Calm

\* The invariant of every component, the resting ones included.
NodeIInv ==
  /\ part \in Parts
  /\ LoopIInv /\ TeamIInv /\ SessionIInv /\ SharedIInv /\ LeaderIInv /\ BusIInv
  /\ LoopRunIInv

\* Every component makes a step of its own or none.
TogetherNext ==
  /\ UNCHANGED part
  /\ [LoopNext]_loopVars /\ [TeamNext]_teamVars /\ [SessionNext]_sessionVars
  /\ [AutomationNext]_autoVars /\ [LeaderNext]_leaderVars /\ [BusNext]_busVars
  /\ [LoopRunNext]_loopRunVars

TogetherSpec == NodeInit /\ [][TogetherNext]_nodeVars

\* Nobody moves.
LEMMA NobodyMoves == UNCHANGED nodeVars => TogetherNext
BY DEF TogetherNext, nodeVars, loopTeam, sessionAuto, leaderBus

\* The behaviours that are checked, with one component that moves, are among those
\* in which all of them do.
THEOREM NodeIsPartOfTogether == NodeSpec => TogetherSpec
<1>1. [NodeNext]_nodeVars => [TogetherNext]_nodeVars
  BY DEF NodeNext, TogetherNext, loopTeam, sessionAuto, leaderBus
<1> QED
  BY <1>1, PTL DEF NodeSpec, TogetherSpec

\* Each component begins in its first state.
LEMMA NodeInitially == NodeInit => NodeIInv
BY InvInit, TeamInitially, SessionInitially, SharedInit, LeaderTypeInit, StagesInit,
   InTimeInit, CalmInit, BusBegins, LoopRunBegins DEF NodeInit, NodeIInv, LeaderIInv

\* Each component keeps its own invariant.
LEMMA NodeStep == NodeIInv /\ [TogetherNext]_nodeVars => NodeIInv'
<1> SUFFICES ASSUME NodeIInv, TogetherNext PROVE NodeIInv'
  BY NobodyMoves
<1>1. part' \in Parts
  BY DEF TogetherNext, NodeIInv
<1>2. LoopIInv' /\ TeamIInv' /\ SessionIInv' /\ SharedIInv'
  BY InvStep, TeamStep, SessionStep, SharedStep DEF TogetherNext, NodeIInv
<1>3. LeaderIInv'
  BY LeaderTypeStep, StagesStep, InTimeStep, CalmStep DEF TogetherNext, NodeIInv, LeaderIInv
<1>4. BusIInv' /\ LoopRunIInv'
  BY BusStep, LoopRunStep DEF TogetherNext, NodeIInv
<1> QED
  BY <1>1, <1>2, <1>3, <1>4 DEF NodeIInv

\* In every reachable state of the node the invariant of each component holds.
THEOREM NodeInvariant == TogetherSpec => []NodeIInv
BY NodeInitially, NodeStep, PTL DEF TogetherSpec

\* The stronger one of the automation does if one supervisor ticks it.
THEOREM NodeAutoInvariant == ASSUME SingleTicker PROVE TogetherSpec => []AutoIInv
<1>1. NodeInit => AutoIInv
  BY AutoInit DEF NodeInit
<1>2. AutoIInv /\ [TogetherNext]_nodeVars => AutoIInv'
  BY NobodyMoves, AutoStep DEF TogetherNext
<1> QED
  BY <1>1, <1>2, PTL DEF TogetherSpec

\* The state of every component keeps its type, whichever of them moves.
THEOREM NodeTypeCorrect == NodeSpec => []NodeTypeOK
<1>1. NodeIInv => NodeTypeOK
  BY PartsAssumption DEF NodeIInv, NodeTypeOK, LoopIInv, TeamIInv, SessionIInv, SharedIInv,
     LeaderIInv, BusIInv, BusTypeOK, LoopRunIInv
<1> QED
  BY <1>1, NodeInvariant, NodeIsPartOfTogether, PTL

\* What the components promise of their states, the automation with any number of
\* supervisors.
NodeSafe ==
  /\ EntryHasReaper /\ NoUntrackedLoop /\ PidFileNamesTheLoop
  /\ NothingForgottenAlive
  /\ StopSettles
  /\ ScheduleKept
  /\ ConcurrencyBound
  /\ OneLeaderInTime /\ TakeoverInTime
  /\ ForwardedInOrder /\ SubscriberInOrder /\ StopDrains

\* However the steps of the components interleave, all of it holds at once.
THEOREM NodeIsSafe == TogetherSpec => []NodeSafe
<1>1. NodeIInv => NodeSafe
  <2> SUFFICES ASSUME NodeIInv PROVE NodeSafe
    OBVIOUS
  <2>1. EntryHasReaper /\ NoUntrackedLoop /\ PidFileNamesTheLoop
    BY DEF NodeIInv, LoopIInv
  <2>2. NothingForgottenAlive
    BY DEF NodeIInv, SessionIInv, AtSession, NothingForgottenAlive
  <2>3. StopSettles
    BY RunLoopSettled DEF NodeIInv
  <2>7. ScheduleKept
    BY DEF NodeIInv, SharedIInv
  <2>4. ConcurrencyBound
    BY DEF NodeIInv, TeamIInv
  <2>5. OneLeaderInTime /\ TakeoverInTime
    BY InTimeIsSingle, CalmIsInTime DEF NodeIInv, LeaderIInv
  <2>6. ForwardedInOrder /\ SubscriberInOrder /\ StopDrains
    BY WriterDrained DEF NodeIInv, BusIInv
  <2> QED
    BY <2>1, <2>2, <2>3, <2>4, <2>5, <2>6, <2>7 DEF NodeSafe
<1> QED
  BY <1>1, NodeInvariant, PTL

\* The automation of the node runs one job at a time, within its target, and loses
\* no item, whatever the other components do.
THEOREM NodeAutomationIsSafe ==
  ASSUME SingleTicker
  PROVE  TogetherSpec => [](OneJobAtATime /\ SpendWithinTarget /\ ItemsAccounted)
<1>1. AutoIInv => OneJobAtATime /\ SpendWithinTarget /\ ItemsAccounted
  BY ItemsInPlace DEF AutoIInv, OneJobAtATime, JobPlaces
<1> QED
  BY <1>1, NodeAutoInvariant, PTL

\* No step of another component revives a loop that is being stopped or a session
\* that has ended.
THEOREM NodeEndsAreFinal == TogetherSpec => StopIsFinal /\ TerminalIsFinal
<1>1. NodeIInv /\ [TogetherNext]_nodeVars =>
        /\ [\A r \in Repos : Tracked(r) /\ procs[r].stopping =>
              procs'[r] = NoProc \/ procs'[r] = [procs[r] EXCEPT !.paused = procs'[r].paused]]_loopVars
        /\ [sessionCrashes' = sessionCrashes => \A s \in Sessions :
              Terminal(s) /\ status'[s] # status[s] =>
                status[s] = "stopped" /\ status'[s] = "errored"]_sessionVars
  <2>1. ASSUME NodeIInv, LoopNext, NEW r \in Repos, Tracked(r), procs[r].stopping
        PROVE  procs'[r] = NoProc \/ procs'[r] = [procs[r] EXCEPT !.paused = procs'[r].paused]
    BY <2>1, ClaimIsKept DEF NodeIInv, LoopIInv
  <2>2. ASSUME NodeIInv, [SessionNext]_sessionVars, sessionCrashes' = sessionCrashes,
               NEW s \in Sessions
        PROVE  FinalAt(s)
    BY <2>2, FinalStays DEF NodeIInv
  <2> QED
    BY <2>1, <2>2, NobodyMoves DEF FinalAt, TogetherNext
<1> QED
  BY <1>1, NodeInvariant, PTL DEF TogetherSpec, StopIsFinal, TerminalIsFinal
=============================================================================
