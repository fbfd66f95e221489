-------------------------- MODULE Processes_proofs --------------------------
(***************************************************************************)
(* Safety of what a node runs: the shell loops of the process manager, the *)
(* sessions of the session manager, and the loops that launch them, for any*)
(* number of repositories, processes, sessions, iterations, restarts and   *)
(* crashes.                                                                *)
(*                                                                         *)
(* Process manager.  The invariant LoopIInv adds to the checked properties *)
(*   - RestartRoom: a reaper on its way to a restart counted fewer than    *)
(*     MaxRestarts of them;                                                *)
(*   - UnbornUnknown: nothing names a process that was never launched;     *)
(*   - ReapedIsGone: a reaper past its wait has collected its process;     *)
(*   - AdopterHoldsNext: the process a reaper is about to adopt is of the  *)
(*     same repository, has no reaper, and has one adopter;                *)
(*   - ReaperIsTracked: a reaper that has not run its cleanup is that of   *)
(*     the tracked loop, as long as StopAll took nothing;                  *)
(*   - AdoptedIsOnFile: between a relaunch and the adoption the PID file   *)
(*     names nothing but the process that is about to be adopted.          *)
(*                                                                         *)
(* Sessions.  NothingForgottenAlive is not inductive: LoadExternalSessions *)
(* forgets a session by its EndedAt and not by its process.  AtSession     *)
(* relates the two.  An end that this run of the program set was set by the*)
(* runner after its wait, a runner past its wait has collected its process,*)
(* and a session never launched has no end that a restart could have read. *)
(* TerminalIsFinal needs that the runner, until it decides the end, finds  *)
(* the session running or stopped.                                         *)
(*                                                                         *)
(* Session loops.  StopSettles is not inductive either: StopLoop may come  *)
(* before RunLoop looks at the loop again.  StopIsSeen says that RunLoop   *)
(* then finds it stopped and takes no step that would write over it, which *)
(* needs that only RunLoop steps; the other parts bound its recoveries.    *)
(***************************************************************************)
EXTENDS LoopProcesses, SessionLifecycle, LoopRuns, SequenceTheorems, TLAPS

-----------------------------------------------------------------------------
(* The process manager. *)

RestartRoom ==
  \A p \in Pids : reaper[p].at \in {"backoff", "relaunch", "adopt"} =>
    reaper[p].restarts < MaxRestarts

UnbornUnknown ==
  \A p \in Pids : os[p] = "unborn" =>
    /\ reaper[p].at = "none"
    /\ p \notin children
    /\ \A r \in Repos : procs[r].pid # p /\ pidFile[r] # p

ReapedIsGone ==
  \A p \in Pids : reaper[p].at \notin {"none", "wait"} => os[p] = "gone"

AdopterHoldsNext ==
  \A p \in Pids : reaper[p].at = "adopt" =>
    /\ reaper[p].next \in Pids
    /\ os[reaper[p].next] # "unborn"
    /\ home[reaper[p].next] = home[p]
    /\ reaper[reaper[p].next].at = "none"
    /\ \A q \in Pids : reaper[q].at = "adopt" /\ q # p => reaper[q].next # reaper[p].next

ReaperIsTracked ==
  \A p \in Pids : reaper[p].at \notin {"none", "unpid"} /\ home[p] \notin swept =>
    /\ procs[home[p]].pid = p
    /\ ~procs[home[p]].recovered

AdoptedIsOnFile ==
  \A p \in Pids : reaper[p].at = "adopt" /\ home[p] \notin swept =>
    pidFile[home[p]] \in {0, reaper[p].next}

\* A process on which NoUntrackedLoop makes no demand any more.
Doomed(p) ==
  p \in signalled \/ cancelled \/ \E s \in {"term", "kill"} : <<p, s>> \in killers

LoopIInv ==
  /\ LoopTypeOK
  /\ RestartRoom /\ UnbornUnknown /\ ReapedIsGone /\ AdopterHoldsNext
  /\ ReaperIsTracked /\ AdoptedIsOnFile
  /\ EntryHasReaper /\ NoUntrackedLoop /\ PidFileNamesTheLoop

-----------------------------------------------------------------------------
(* EntryFacts and reapers. *)

\* A tracked repository has an entry, and the entry says which process it is.
LEMMA EntryFacts ==
    ASSUME LoopTypeOK, NEW r \in Repos
    PROVE  /\ Tracked(r) => procs[r] \in ProcType /\ procs[r].pid \in Pids
           /\ Tracked(r) <=> procs[r].pid # 0
           /\ ~Tracked(r) => procs[r] = NoProc
<1>1. procs[r] \in ProcType \cup {NoProc} /\ NoProc.pid = 0
  BY DEF LoopTypeOK, NoProc
<1>2. ASSUME procs[r] \in ProcType PROVE procs[r].pid \in Pids /\ procs[r].pid # 0
  BY <1>2, LoopAssumption DEF ProcType, Pids
<1> QED
  BY <1>1, <1>2 DEF Tracked

\* A new entry is an entry, and so is one that was claimed, paused or re-adopted.
LEMMA EntryMoves ==
    /\ \A p \in Pids, n \in 0..MaxRestarts :
         /\ Entry(p, n) \in ProcType
         /\ [Entry(p, n) EXCEPT !.recovered = TRUE] \in ProcType
    /\ \A e \in ProcType, b \in BOOLEAN :
         /\ [e EXCEPT !.stopping = b] \in ProcType
         /\ [e EXCEPT !.paused = b] \in ProcType
BY DEF Entry, ProcType

\* A reaper that goes on, starts or ends is a reaper.
LEMMA ReaperMoves ==
    /\ NoReaper \in ReaperType /\ NewReaper \in ReaperType
    /\ NoReaper.at = "none" /\ NewReaper.at = "wait"
    /\ \A g \in ReaperType, s \in ReaperStages :
         /\ [g EXCEPT !.at = s] \in ReaperType
         /\ \A n \in 0..MaxRestarts : [g EXCEPT !.at = s, !.restarts = n] \in ReaperType
         /\ \A q \in 0..MaxPids : [g EXCEPT !.at = s, !.next = q] \in ReaperType
<1>1. NoReaper \in ReaperType /\ NewReaper \in ReaperType
  BY LoopAssumption DEF NoReaper, NewReaper, ReaperType, ReaperStages
<1>2. NoReaper.at = "none" /\ NewReaper.at = "wait"
  BY DEF NoReaper, NewReaper
<1> QED
  BY <1>1, <1>2 DEF ReaperType

\* Launching a process and killing some keep the types of what the kernel knows.
LEMMA SpawnType ==
    ASSUME LoopTypeOK, NEW r \in Repos, NEW p \in Pids, Spawn(r, p)
    PROVE  /\ os' \in [Pids -> {"unborn", "live", "zombie", "gone"}]
           /\ home' \in [Pids -> Repos]
           /\ children' \subseteq Pids
           /\ pidFile' \in [Repos -> 0..MaxPids]
BY LoopAssumption DEF LoopTypeOK, Spawn, Pids

LEMMA KillType ==
    ASSUME LoopTypeOK, NEW P, Kill(P)
    PROVE  /\ os' \in [Pids -> {"unborn", "live", "zombie", "gone"}]
           /\ frozen' \subseteq Pids
           /\ signalled' \subseteq Pids
BY DEF LoopTypeOK, Kill, Exited
-----------------------------------------------------------------------------
(* Every step keeps the types. *)

LEMMA TypeInit == LoopInit => LoopTypeOK
<1>1. LoopInit => procs \in [Repos -> ProcType \cup {NoProc}] /\ pidFile \in [Repos -> 0..MaxPids]
  BY LoopAssumption DEF LoopInit
<1>2. LoopInit => home \in [Pids -> Repos] /\ os \in [Pids -> {"unborn", "live", "zombie", "gone"}]
  BY LoopAssumption DEF LoopInit
<1>3. LoopInit => reaper \in [Pids -> ReaperType]
  BY ReaperMoves DEF LoopInit
<1>4. 0 \in 0..MaxCrashes
  BY LoopAssumption
<1> QED
  BY <1>1, <1>2, <1>3, <1>4 DEF LoopInit, LoopTypeOK

\* What the operations of the manager leave has its type.
LEMMA TypeOperations ==
    ASSUME LoopTypeOK, NEW r \in Repos,
           StartLoop(r) \/ StopLoop(r) \/ TogglePause(r) \/ StopAll \/ StopAllGraceful
             \/ GraceTimeout \/ Recover \/ Restart \/ CancelContext
    PROVE  LoopTypeOK'
<1>1. CASE StartLoop(r)
  <2>1. PICK p \in Pids : /\ Spawn(r, p)
                          /\ procs' = [procs EXCEPT ![r] = Entry(p, 0)]
                          /\ reaper' = [reaper EXCEPT ![p] = NewReaper]
    BY <1>1 DEF StartLoop
  <2>2. procs' \in [Repos -> ProcType \cup {NoProc}]
    <3>0. 0 \in 0..MaxRestarts
      BY LoopAssumption
    <3>1. Entry(p, 0) \in ProcType
      BY <3>0, EntryMoves
    <3> QED
      BY <2>1, <3>1 DEF LoopTypeOK
  <2>3. reaper' \in [Pids -> ReaperType]
    BY <2>1, ReaperMoves DEF LoopTypeOK
  <2> QED
    BY <1>1, <2>1, <2>2, <2>3, SpawnType DEF LoopTypeOK, StartLoop, Spawn, loopSignals, loopExit
<1>2. CASE StopLoop(r)
  <2>1. procs[r] \in ProcType /\ procs[r].pid \in Pids
    BY <1>2, EntryFacts DEF StopLoop
  <2>2. procs' \in [Repos -> ProcType \cup {NoProc}]
    BY <1>2, <2>1, EntryMoves DEF LoopTypeOK, StopLoop
  <2>3. pidFile' \in [Repos -> 0..MaxPids] /\ killers' \subseteq Pids \X {"term", "kill"}
    BY <1>2, <2>1, LoopAssumption DEF LoopTypeOK, StopLoop
  <2> QED
    BY <1>2, <2>2, <2>3 DEF LoopTypeOK, StopLoop, loopKernel, loopExit
<1>3. CASE TogglePause(r)
  <2>1. procs[r] \in ProcType /\ procs[r].pid \in Pids
    BY <1>3, EntryFacts DEF TogglePause
  <2>2. procs' \in [Repos -> ProcType \cup {NoProc}]
    <3>1. procs[r].paused \in BOOLEAN
      BY <2>1 DEF ProcType
    <3>2. [procs[r] EXCEPT !.paused = ~procs[r].paused] \in ProcType
      BY <2>1, <3>1, EntryMoves
    <3> QED
      BY <1>3, <3>2 DEF LoopTypeOK, TogglePause
  <2>3. frozen' \subseteq Pids
    BY <1>3, <2>1 DEF LoopTypeOK, TogglePause
  <2> QED
    BY <1>3, <2>2, <2>3 DEF LoopTypeOK, TogglePause, loopSignals, loopExit
<1>4. ASSUME SweepAll
      PROVE  /\ procs' \in [Repos -> ProcType \cup {NoProc}]
             /\ pidFile' \in [Repos -> 0..MaxPids]
             /\ signalled' \subseteq Pids
             /\ swept' \subseteq Repos
  BY <1>4, LoopAssumption DEF LoopTypeOK, SweepAll, Reached
<1>5. CASE StopAll
  BY <1>4, <1>5 DEF LoopTypeOK, StopAll, loopKernel, loopExit
<1>6. CASE StopAllGraceful
  <2>1. grace' \subseteq Pids
    BY <1>6, EntryFacts DEF StopAllGraceful
  <2> QED
    BY <1>4, <1>6, <2>1 DEF LoopTypeOK, StopAllGraceful, loopKernel
<1>7. CASE GraceTimeout
  BY <1>7, KillType DEF LoopTypeOK, GraceTimeout, Kill
<1>8. CASE Recover
  <2>1. ASSUME NEW q \in Repos, pidFile[q] # 0
        PROVE  [Entry(pidFile[q], 0) EXCEPT !.recovered = TRUE] \in ProcType
    <3>1. pidFile[q] \in Pids /\ 0 \in 0..MaxRestarts
      BY <2>1, LoopAssumption DEF LoopTypeOK, Pids
    <3> QED
      BY <3>1, EntryMoves
  <2>2. procs' \in [Repos -> ProcType \cup {NoProc}]
    BY <1>8, <2>1 DEF LoopTypeOK, Recover
  <2>3. pidFile' \in [Repos -> 0..MaxPids]
    BY <1>8, LoopAssumption DEF LoopTypeOK, Recover
  <2> QED
    BY <1>8, <2>2, <2>3 DEF LoopTypeOK, Recover, loopKernel, loopSignals, loopExit
<1>9. CASE Restart
  <2>1. crashes' \in 0..MaxCrashes
    BY <1>9, LoopAssumption DEF LoopTypeOK, Restart
  <2>2. reaper' \in [Pids -> ReaperType]
    BY <1>9, ReaperMoves DEF Restart
  <2> QED
    BY <1>9, <2>1, <2>2 DEF LoopTypeOK, Restart
<1>10. CASE CancelContext
  BY <1>10 DEF LoopTypeOK, CancelContext, loopKernel, loopExit
<1> QED
  BY <1>1, <1>2, <1>3, <1>5, <1>6, <1>7, <1>8, <1>9, <1>10

\* What the kernel, the kill sequences and the reapers leave has its type.
LEMMA TypeProcesses ==
    ASSUME LoopTypeOK, RestartRoom, AdopterHoldsNext, NEW p \in Pids,
           LoopExits(p) \/ ContextKill(p) \/ KillTerm(p) \/ KillSurvivor(p) \/ ReaperSteps(p)
    PROVE  LoopTypeOK'
<1>0. /\ home[p] \in Repos /\ reaper[p] \in ReaperType
      /\ \A q \in Pids : reaper[q] \in ReaperType
  BY DEF LoopTypeOK
<1>1. CASE LoopExits(p)
  BY <1>1 DEF LoopTypeOK, LoopExits, Exited, loopExit
<1>2. CASE ContextKill(p)
  BY <1>2, KillType DEF LoopTypeOK, ContextKill, Kill, loopExit
<1>3. CASE KillTerm(p)
  BY <1>3 DEF LoopTypeOK, KillTerm, Reached, loopKernel, loopExit
<1>4. CASE KillSurvivor(p)
  BY <1>4, KillType DEF LoopTypeOK, KillSurvivor, Kill, loopExit
<1>5. CASE ReaperWaits(p)
  <2>1. reaper' \in [Pids -> ReaperType]
    BY <1>0, <1>5, ReaperMoves DEF LoopTypeOK, ReaperWaits, ReaperGoto, ReaperStages
  <2> QED
    BY <1>5, <2>1 DEF LoopTypeOK, ReaperWaits, loopSignals, loopExit
<1>6. CASE ReaperDecides(p)
  <2>1. ASSUME MayRestart(p)
        PROVE  procs[home[p]].restarts \in 0..MaxRestarts
    BY <1>0, <2>1, EntryFacts DEF MayRestart, ProcType
  <2>2. reaper' \in [Pids -> ReaperType]
    <3>1. CASE MayRestart(p)
      <4>1. [reaper[p] EXCEPT !.at = "backoff", !.restarts = procs[home[p]].restarts] \in ReaperType
        BY <1>0, <2>1, <3>1, ReaperMoves DEF ReaperStages
      <4> QED
        BY <1>6, <3>1, <4>1 DEF LoopTypeOK, ReaperDecides
    <3>2. CASE ~MayRestart(p)
      BY <1>0, <1>6, <3>2, ReaperMoves DEF LoopTypeOK, ReaperDecides, ReaperGoto, ReaperStages
    <3> QED
      BY <3>1, <3>2
  <2> QED
    BY <1>6, <2>2 DEF LoopTypeOK, ReaperDecides, loopSignals, loopExit
<1>7. CASE ReaperWakes(p)
  <2>1. reaper' \in [Pids -> ReaperType]
    BY <1>0, <1>7, ReaperMoves DEF LoopTypeOK, ReaperWakes, ReaperGoto, ReaperStages
  <2> QED
    BY <1>7, <2>1 DEF LoopTypeOK, ReaperWakes, loopKernel, loopSignals, loopExit
<1>8. CASE ReaperRelaunches(p)
  <2>1. CASE ReaperGoto(p, "forget") /\ UNCHANGED <<pidFile, loopKernel>>
    <3>1. reaper' \in [Pids -> ReaperType]
      BY <1>0, <2>1, ReaperMoves DEF LoopTypeOK, ReaperGoto, ReaperStages
    <3> QED
      BY <1>8, <2>1, <3>1 DEF LoopTypeOK, ReaperRelaunches, loopKernel, loopSignals, loopExit
  <2>2. ASSUME NEW q \in Pids, Spawn(home[p], q),
               reaper' = [reaper EXCEPT ![p].at = "adopt", ![p].next = q]
        PROVE  LoopTypeOK'
    <3>1. q \in 0..MaxPids
      BY LoopAssumption DEF Pids
    <3>2. reaper' \in [Pids -> ReaperType]
      BY <1>0, <2>2, <3>1, ReaperMoves DEF LoopTypeOK, ReaperStages
    <3> QED
      BY <1>0, <1>8, <2>2, <3>2, SpawnType DEF LoopTypeOK, ReaperRelaunches, Spawn, loopSignals, loopExit
  <2> QED
    BY <1>8, <2>1, <2>2 DEF ReaperRelaunches
<1>9. CASE ReaperAdopts(p)
  <2> DEFINE q == reaper[p].next
  <2>0. reaper[p].at = "adopt" /\ q \in Pids
    BY <1>9 DEF ReaperAdopts, ReaperAt, AdopterHoldsNext
  <2>1. reaper[p].restarts + 1 \in 0..MaxRestarts
    BY <1>0, <2>0, LoopAssumption DEF RestartRoom, ReaperType
  <2>2. CASE /\ procs' = [procs EXCEPT ![home[p]] = Entry(q, reaper[p].restarts + 1)]
             /\ reaper' = [reaper EXCEPT ![p] = NoReaper, ![q] = NewReaper]
             /\ UNCHANGED <<loopKernel, signalled>>
    <3>1. procs' \in [Repos -> ProcType \cup {NoProc}]
      BY <1>0, <2>0, <2>1, <2>2, EntryMoves DEF LoopTypeOK
    <3>2. reaper' \in [Pids -> ReaperType]
      BY <2>0, <2>2, ReaperMoves DEF LoopTypeOK
    <3> QED
      BY <1>9, <2>2, <3>1, <3>2 DEF LoopTypeOK, ReaperAdopts, loopKernel, loopExit
  <2>3. CASE /\ Kill({q})
             /\ reaper' = [reaper EXCEPT ![p].at = "forget", ![p].next = 0]
             /\ UNCHANGED procs
    <3>1. 0 \in 0..MaxPids
      BY LoopAssumption
    <3>2. reaper' \in [Pids -> ReaperType]
      BY <1>0, <2>3, <3>1, ReaperMoves DEF LoopTypeOK, ReaperStages
    <3> QED
      BY <1>9, <2>3, <3>2, KillType DEF LoopTypeOK, ReaperAdopts, Kill, loopExit
  <2> QED
    BY <1>9, <2>2, <2>3 DEF ReaperAdopts
<1>10. CASE ReaperForgets(p)
  <2>1. reaper' \in [Pids -> ReaperType]
    BY <1>0, <1>10, ReaperMoves DEF LoopTypeOK, ReaperForgets, ReaperGoto, ReaperStages
  <2> QED
    BY <1>10, <2>1 DEF LoopTypeOK, ReaperForgets, loopKernel, loopSignals, loopExit
<1>11. CASE ReaperRemovesPidFile(p)
  <2>1. reaper' \in [Pids -> ReaperType]
    BY <1>11, ReaperMoves DEF LoopTypeOK, ReaperRemovesPidFile
  <2>2. pidFile' \in [Repos -> 0..MaxPids]
    BY <1>11, LoopAssumption DEF LoopTypeOK, ReaperRemovesPidFile
  <2> QED
    BY <1>11, <2>1, <2>2 DEF LoopTypeOK, ReaperRemovesPidFile, loopKernel, loopSignals, loopExit
<1> QED
  BY <1>1, <1>2, <1>3, <1>4, <1>5, <1>6, <1>7, <1>8, <1>9, <1>10, <1>11 DEF ReaperSteps
-----------------------------------------------------------------------------
(* The invariant. *)

\* 0 stands for no process.
LEMMA PidsPositive == Pids \subseteq Nat /\ \A p \in Pids : p # 0
BY LoopAssumption DEF Pids

LEMMA InvInit == LoopInit => LoopIInv
<1> SUFFICES ASSUME LoopInit PROVE LoopIInv
  OBVIOUS
<1>1. LoopTypeOK
  BY TypeInit
<1>2. /\ \A p \in Pids : reaper[p] = NoReaper /\ os[p] = "unborn"
      /\ \A r \in Repos : procs[r] = NoProc /\ pidFile[r] = 0
      /\ children = {}
  BY DEF LoopInit
<1>3. RestartRoom /\ ReapedIsGone /\ AdopterHoldsNext /\ ReaperIsTracked /\ AdoptedIsOnFile
  BY <1>2, ReaperMoves DEF RestartRoom, ReapedIsGone, AdopterHoldsNext, ReaperIsTracked, AdoptedIsOnFile
<1>4. UnbornUnknown
  <2>1. NoProc.pid = 0
    BY DEF NoProc
  <2> QED
    BY <1>2, <2>1, ReaperMoves, PidsPositive DEF UnbornUnknown
<1>5. EntryHasReaper /\ NoUntrackedLoop /\ PidFileNamesTheLoop
  BY <1>2 DEF EntryHasReaper, NoUntrackedLoop, PidFileNamesTheLoop, Tracked
<1> QED
  BY <1>1, <1>3, <1>4, <1>5 DEF LoopIInv

\* A new loop: nothing knew the process before.
LEMMA InvStart ==
    ASSUME LoopIInv, NEW r \in Repos, StartLoop(r)
    PROVE  LoopIInv'
<1> USE DEF LoopIInv
<1>1. PICK p \in Pids : /\ Spawn(r, p)
                        /\ procs' = [procs EXCEPT ![r] = Entry(p, 0)]
                        /\ reaper' = [reaper EXCEPT ![p] = NewReaper]
  BY DEF StartLoop
<1>2. /\ ~Tracked(r) /\ os[p] = "unborn" /\ reaper[p].at = "none"
      /\ os' = [os EXCEPT ![p] = "live"] /\ home' = [home EXCEPT ![p] = r]
      /\ children' = children \cup {p} /\ pidFile' = [pidFile EXCEPT ![r] = p]
      /\ UNCHANGED <<signalled, killers, cancelled, swept>>
  BY <1>1 DEF StartLoop, Spawn, FreshPid, UnbornUnknown, loopSignals
<1>3. /\ os \in [Pids -> {"unborn", "live", "zombie", "gone"}] /\ home \in [Pids -> Repos]
      /\ procs \in [Repos -> ProcType \cup {NoProc}] /\ pidFile \in [Repos -> 0..MaxPids]
      /\ reaper \in [Pids -> ReaperType]
  BY DEF LoopTypeOK
<1>4. /\ procs'[r].pid = p /\ ~procs'[r].recovered
      /\ \A s \in Repos \ {r} : procs'[s] = procs[s]
      /\ reaper'[p].at = "wait" /\ p # 0
      /\ \A q \in Pids \ {p} : reaper'[q] = reaper[q]
  <2>1. Entry(p, 0).pid = p /\ ~Entry(p, 0).recovered
    BY DEF Entry
  <2>2. reaper'[p] = NewReaper /\ \A q \in Pids \ {p} : reaper'[q] = reaper[q]
    BY <1>1, <1>3
  <2> QED
    BY <1>1, <1>3, <2>1, <2>2, ReaperMoves, PidsPositive
<1>5. procs[r].pid = 0 /\ \A q \in Pids : home[q] = r /\ r \notin swept => reaper[q].at \in {"none", "unpid"}
  BY <1>2, EntryFacts, LoopAssumption DEF ReaperIsTracked, Pids
<1>6. LoopTypeOK'
  BY TypeOperations
<1>7. RestartRoom' /\ ReapedIsGone'
  BY <1>2, <1>3, <1>4 DEF RestartRoom, ReapedIsGone
<1>8. UnbornUnknown'
  BY <1>2, <1>3, <1>4 DEF UnbornUnknown
<1>9. AdopterHoldsNext'
  BY <1>2, <1>3, <1>4 DEF AdopterHoldsNext
<1>10. ReaperIsTracked' /\ AdoptedIsOnFile'
  BY <1>2, <1>3, <1>4, <1>5 DEF ReaperIsTracked, AdoptedIsOnFile, AdopterHoldsNext
<1>11. EntryHasReaper'
  <2> SUFFICES ASSUME NEW s \in Repos, procs'[s] # NoProc, ~procs'[s].recovered
               PROVE  /\ home'[procs'[s].pid] = s
                      /\ reaper'[procs'[s].pid].at \notin {"none", "unpid"}
    BY DEF EntryHasReaper, Tracked
  <2>1. CASE s = r
    BY <1>2, <1>3, <1>4, <2>1
  <2>2. CASE s # r
    <3>1. procs[s].pid \in Pids /\ procs[s].pid # p
      BY <1>2, <1>4, <2>2, EntryFacts DEF UnbornUnknown, Tracked
    <3> QED
      BY <1>2, <1>3, <1>4, <2>2, <3>1 DEF EntryHasReaper, Tracked
  <2> QED
    BY <2>1, <2>2
<1>12. NoUntrackedLoop'
  <2> SUFFICES ASSUME NEW q \in children', Live(q)', home'[q] \notin swept',
                      ~Doomed(q)'
               PROVE  \/ procs'[home'[q]].pid = q
                      \/ \E x \in Pids : reaper'[x].at = "adopt" /\ reaper'[x].next = q
    BY DEF NoUntrackedLoop, ReaperAt, Doomed
  <2>1. CASE q = p
    BY <1>2, <1>3, <1>4, <2>1
  <2>2. CASE q # p
    <3>1. q \in children /\ q \in Pids /\ Live(q) /\ home'[q] = home[q]
      BY <1>2, <1>3, <2>2 DEF LoopTypeOK, Live
    <3>2. \/ procs[home[q]].pid = q
          \/ \E x \in Pids : reaper[x].at = "adopt" /\ reaper[x].next = q
      BY <1>2, <3>1 DEF NoUntrackedLoop, ReaperAt, Doomed
    <3> QED
      BY <1>2, <1>3, <1>4, <1>5, <3>1, <3>2, PidsPositive
  <2> QED
    BY <2>1, <2>2
<1>13. PidFileNamesTheLoop'
  BY <1>2, <1>3, <1>4 DEF PidFileNamesTheLoop, UnbornUnknown, Tracked, ReaperAt
<1> QED
  BY <1>6, <1>7, <1>8, <1>9, <1>10, <1>11, <1>12, <1>13
\* A step that leaves the reapers, the PID files and which process is whose, by
\* which processes may die, and after which a live one is stopped as before.
LEMMA InvQuiet ==
    ASSUME LoopIInv, LoopTypeOK',
           UNCHANGED <<pidFile, home, children, reaper, swept>>,
           \A r \in Repos :
             /\ procs'[r].pid = procs[r].pid
             /\ Tracked(r) => procs'[r].recovered = procs[r].recovered,
           \A p \in Pids : os'[p] = os[p] \/ (os[p] = "live" /\ os'[p] \in {"zombie", "gone"}),
           \A p \in Pids : os'[p] = "live" /\ Doomed(p) => Doomed(p)'
    PROVE  LoopIInv'
<1> USE DEF LoopIInv
<1>1. /\ os \in [Pids -> {"unborn", "live", "zombie", "gone"}] /\ home \in [Pids -> Repos]
      /\ reaper \in [Pids -> ReaperType] /\ children \subseteq Pids
  BY DEF LoopTypeOK
<1>2. \A r \in Repos : Tracked(r)' <=> Tracked(r)
  <2>1. ASSUME NEW r \in Repos
        PROVE  (Tracked(r) <=> procs[r].pid # 0) /\ (Tracked(r)' <=> procs'[r].pid # 0)
    <3>1. procs'[r] \in ProcType \cup {NoProc} /\ procs[r] \in ProcType \cup {NoProc}
      BY DEF LoopTypeOK
    <3>2. NoProc.pid = 0 /\ \A e \in ProcType : e.pid # 0
      BY PidsPositive DEF NoProc, ProcType
    <3> QED
      BY <3>1, <3>2 DEF Tracked
  <2> QED
    BY <2>1
<1>3. RestartRoom' /\ UnbornUnknown' /\ ReapedIsGone' /\ AdopterHoldsNext' /\ AdoptedIsOnFile'
  BY <1>1 DEF RestartRoom, UnbornUnknown, ReapedIsGone, AdopterHoldsNext, AdoptedIsOnFile
<1>4. ReaperIsTracked'
  <2> SUFFICES ASSUME NEW p \in Pids, reaper[p].at \notin {"none", "unpid"}, home[p] \notin swept
               PROVE  procs'[home[p]].pid = p /\ ~procs'[home[p]].recovered
    BY DEF ReaperIsTracked
  <2>1. home[p] \in Repos /\ procs[home[p]].pid = p /\ ~procs[home[p]].recovered
    BY <1>1 DEF ReaperIsTracked
  <2>2. Tracked(home[p])
    BY <2>1, EntryFacts, PidsPositive
  <2> QED
    BY <2>1, <2>2
<1>5. EntryHasReaper'
  BY <1>2 DEF EntryHasReaper
<1>6. NoUntrackedLoop'
  BY <1>1 DEF NoUntrackedLoop, Live, ReaperAt, Doomed
<1>7. PidFileNamesTheLoop'
  BY <1>2 DEF PidFileNamesTheLoop, ReaperAt
<1> QED
  BY <1>3, <1>4, <1>5, <1>6, <1>7

\* Killing processes ends some, and forgets no other that was stopped.
LEMMA KillQuiet ==
    ASSUME LoopTypeOK, NEW P, Kill(P)
    PROVE  /\ \A p \in Pids : os'[p] = os[p] \/ (os[p] = "live" /\ os'[p] \in {"zombie", "gone"})
           /\ \A p \in Pids : os'[p] = "live" => p \notin P
           /\ \A p \in Pids \ P : p \in signalled => p \in signalled'
           /\ UNCHANGED <<home, children>>
BY DEF LoopTypeOK, Kill, Exited, Live

LEMMA InvEnds ==
    ASSUME LoopIInv, NEW p \in Pids, LoopExits(p) \/ ContextKill(p) \/ KillTerm(p) \/ KillSurvivor(p)
    PROVE  LoopIInv'
<1> USE DEF LoopIInv
<1>1. LoopTypeOK'
  BY TypeProcesses
<1>2. UNCHANGED <<procs, pidFile, home, children, reaper, swept>>
  BY DEF LoopExits, ContextKill, KillTerm, KillSurvivor, Kill, loopKernel, loopExit
<1>3. os \in [Pids -> {"unborn", "live", "zombie", "gone"}] /\ signalled \subseteq Pids
  BY DEF LoopTypeOK
<1>4. CASE LoopExits(p)
  <2>1. \A q \in Pids : os'[q] = os[q] \/ (os[q] = "live" /\ os'[q] \in {"zombie", "gone"})
    BY <1>3, <1>4 DEF LoopExits, Exited, Live
  <2>2. \A q \in Pids : os'[q] = "live" /\ Doomed(q) => Doomed(q)'
    BY <1>3, <1>4 DEF LoopExits, Exited, Doomed
  <2> QED
    BY <1>1, <1>2, <2>1, <2>2, InvQuiet
<1>5. CASE ContextKill(p)
  <2>1. \A q \in Pids : os'[q] = "live" /\ Doomed(q) => Doomed(q)'
    BY <1>5, KillQuiet DEF ContextKill, Doomed
  <2> QED
    BY <1>1, <1>2, <1>5, <2>1, KillQuiet, InvQuiet DEF ContextKill
<1>6. CASE KillTerm(p)
  <2>1. \A q \in Pids : Doomed(q) => Doomed(q)'
    BY <1>6 DEF KillTerm, Doomed
  <2>2. UNCHANGED os
    BY <1>6 DEF KillTerm, loopKernel
  <2> QED
    BY <1>1, <1>2, <2>1, <2>2, InvQuiet
<1>7. CASE KillSurvivor(p)
  <2>1. \A q \in Pids : os'[q] = "live" /\ Doomed(q) => Doomed(q)'
    BY <1>7, KillQuiet DEF KillSurvivor, Doomed
  <2> QED
    BY <1>1, <1>2, <1>7, <2>1, KillQuiet, InvQuiet DEF KillSurvivor
<1> QED
  BY <1>4, <1>5, <1>6, <1>7

LEMMA InvGrace == ASSUME LoopIInv, GraceTimeout PROVE LoopIInv'
<1> USE DEF LoopIInv
<1>1. LoopTypeOK'
  BY TypeOperations, LoopAssumption
<1>2. Kill(grace) /\ UNCHANGED <<procs, pidFile, killers, cancelled, reaper, swept>>
  BY DEF GraceTimeout
<1>3. \A q \in Pids : os'[q] = "live" /\ Doomed(q) => Doomed(q)'
  BY <1>2, KillQuiet DEF Doomed
<1> QED
  BY <1>1, <1>2, <1>3, KillQuiet, InvQuiet

LEMMA InvCancel == ASSUME LoopIInv, CancelContext PROVE LoopIInv'
<1> USE DEF LoopIInv
<1>1. LoopTypeOK'
  BY TypeOperations, LoopAssumption
<1>2. cancelled' /\ UNCHANGED <<procs, pidFile, os, home, children, reaper, swept>>
  BY DEF CancelContext, loopKernel, loopExit
<1>3. \A q \in Pids : Doomed(q)'
  BY <1>2 DEF Doomed
<1> QED
  BY <1>1, <1>2, <1>3, InvQuiet

LEMMA InvPause == ASSUME LoopIInv, NEW r \in Repos, TogglePause(r) PROVE LoopIInv'
<1> USE DEF LoopIInv
<1>1. LoopTypeOK' /\ procs[r] \in ProcType /\ procs \in [Repos -> ProcType \cup {NoProc}]
  BY TypeOperations, EntryFacts DEF LoopTypeOK, TogglePause
<1>2. UNCHANGED <<pidFile, os, home, children, loopSignals, reaper, swept>>
  BY DEF TogglePause, loopExit
<1>3. procs'[r] = [procs[r] EXCEPT !.paused = ~procs[r].paused] /\ \A s \in Repos \ {r} : procs'[s] = procs[s]
  BY <1>1 DEF TogglePause
<1>4. procs'[r].pid = procs[r].pid /\ procs'[r].recovered = procs[r].recovered
  BY <1>1, <1>3 DEF ProcType
<1>5. \A q \in Pids : Doomed(q) => Doomed(q)'
  BY <1>2 DEF loopSignals, Doomed
<1> QED
  BY <1>1, <1>2, <1>3, <1>4, <1>5, InvQuiet

\* A stopped loop that was re-adopted has no reaper that would miss its entry,
\* and the kill sequence has its process.
LEMMA InvStop == ASSUME LoopIInv, NEW r \in Repos, StopLoop(r) PROVE LoopIInv'
<1> USE DEF LoopIInv
<1>1. /\ LoopTypeOK'
      /\ procs[r] \in ProcType /\ procs[r].pid \in Pids
      /\ procs \in [Repos -> ProcType \cup {NoProc}] /\ pidFile \in [Repos -> 0..MaxPids]
      /\ home \in [Pids -> Repos] /\ reaper \in [Pids -> ReaperType] /\ children \subseteq Pids
      /\ os \in [Pids -> {"unborn", "live", "zombie", "gone"}]
  BY TypeOperations, EntryFacts DEF LoopTypeOK, StopLoop
<1>2. /\ killers' = killers \cup {<<procs[r].pid, "term">>}
      /\ UNCHANGED <<os, home, children, signalled, cancelled, reaper, swept>>
  BY DEF StopLoop, loopKernel, loopExit
<1>3. \A q \in Pids : Doomed(q) => Doomed(q)'
  BY <1>2 DEF Doomed
<1>4. CASE ~procs[r].recovered
  <2>1. /\ procs'[r] = [procs[r] EXCEPT !.stopping = TRUE]
        /\ \A s \in Repos \ {r} : procs'[s] = procs[s]
        /\ UNCHANGED pidFile
    BY <1>1, <1>4 DEF StopLoop
  <2>2. procs'[r].pid = procs[r].pid /\ procs'[r].recovered = procs[r].recovered
    BY <1>1, <2>1 DEF ProcType
  <2> QED
    BY <1>1, <1>2, <1>3, <2>1, <2>2, InvQuiet
<1>5. CASE procs[r].recovered
  <2>1. /\ procs' = [procs EXCEPT ![r] = NoProc] /\ pidFile' = [pidFile EXCEPT ![r] = 0]
        /\ procs'[r] = NoProc /\ \A s \in Repos \ {r} : procs'[s] = procs[s]
        /\ NoProc.pid = 0
    BY <1>1, <1>5 DEF StopLoop, NoProc
  <2>2. \A p \in Pids : home[p] = r /\ r \notin swept => reaper[p].at \in {"none", "unpid"}
    BY <1>5 DEF ReaperIsTracked
  <2>3. RestartRoom' /\ ReapedIsGone' /\ AdopterHoldsNext'
    BY <1>2 DEF RestartRoom, ReapedIsGone, AdopterHoldsNext
  <2>4. UnbornUnknown'
    BY <1>1, <1>2, <2>1, PidsPositive DEF UnbornUnknown
  <2>5. ReaperIsTracked' /\ AdoptedIsOnFile'
    BY <1>1, <1>2, <2>1, <2>2 DEF ReaperIsTracked, AdoptedIsOnFile
  <2>6. EntryHasReaper'
    BY <1>1, <1>2, <2>1 DEF EntryHasReaper, Tracked
  <2>7. NoUntrackedLoop'
    <3> SUFFICES ASSUME NEW q \in children', Live(q)', home'[q] \notin swept', ~Doomed(q)'
                 PROVE  \/ procs'[home'[q]].pid = q
                        \/ \E x \in Pids : reaper'[x].at = "adopt" /\ reaper'[x].next = q
      BY DEF NoUntrackedLoop, ReaperAt, Doomed
    <3>1. q \in children /\ q \in Pids /\ Live(q) /\ home'[q] = home[q] /\ q # procs[r].pid
      BY <1>1, <1>2 DEF Live, Doomed
    <3>2. \/ procs[home[q]].pid = q
          \/ \E x \in Pids : reaper[x].at = "adopt" /\ reaper[x].next = q
      BY <1>2, <1>3, <3>1 DEF NoUntrackedLoop, ReaperAt, Doomed
    <3> QED
      BY <1>1, <1>2, <2>1, <3>1, <3>2
  <2>8. PidFileNamesTheLoop'
    BY <1>1, <1>2, <2>1 DEF PidFileNamesTheLoop, Tracked, ReaperAt
  <2> QED
    BY <1>1, <2>3, <2>4, <2>5, <2>6, <2>7, <2>8
<1> QED
  BY <1>4, <1>5

\* A reaper that goes on without touching entries, PID files or processes, but
\* for collecting its own.
LEMMA InvWalks ==
    ASSUME LoopIInv, NEW p \in Pids,
           \/ ReaperWaits(p) \/ ReaperDecides(p) \/ ReaperWakes(p)
           \/ ReaperRelaunches(p) /\ ReaperGoto(p, "forget") /\ UNCHANGED <<pidFile, loopKernel>>
    PROVE  LoopIInv'
<1> USE DEF LoopIInv
<1>1. /\ LoopTypeOK'
      /\ reaper \in [Pids -> ReaperType] /\ os \in [Pids -> {"unborn", "live", "zombie", "gone"}]
      /\ home \in [Pids -> Repos] /\ children \subseteq Pids
      /\ \A q \in Pids : procs[home[q]] \in ProcType \cup {NoProc}
  BY TypeProcesses DEF LoopTypeOK, ReaperSteps
<1>2. UNCHANGED <<procs, pidFile, home, children, loopSignals, swept>>
  BY DEF ReaperWaits, ReaperDecides, ReaperWakes, ReaperRelaunches, loopKernel, loopExit
<1>3. /\ \A q \in Pids \ {p} : reaper'[q] = reaper[q] /\ os'[q] = os[q]
      /\ os'[p] \in {os[p], "gone"} /\ os[p] # "unborn" /\ (os'[p] = "live" => os[p] = "live")
      /\ reaper[p].at \in {"wait", "decide", "backoff", "relaunch"}
      /\ reaper'[p].at \in {"decide", "backoff", "relaunch", "forget"}
  <2>1. reaper[p].at \in {"wait", "decide", "backoff", "relaunch"} /\ os[p] # "unborn"
    BY DEF ReaperWaits, ReaperDecides, ReaperWakes, ReaperRelaunches, ReaperAt, UnbornUnknown
  <2>2. \A q \in Pids \ {p} : reaper'[q] = reaper[q] /\ os'[q] = os[q]
    BY <1>1 DEF ReaperWaits, ReaperDecides, ReaperWakes, ReaperRelaunches, ReaperGoto, loopKernel
  <2>3. os'[p] \in {os[p], "gone"} /\ (os'[p] = "live" => os[p] = "live")
    BY <1>1 DEF ReaperWaits, ReaperDecides, ReaperWakes, ReaperRelaunches, loopKernel
  <2>4. reaper'[p].at \in {"decide", "backoff", "relaunch", "forget"}
    BY <1>1 DEF ReaperWaits, ReaperDecides, ReaperWakes, ReaperRelaunches, ReaperGoto, ReaperType
  <2> QED
    BY <2>1, <2>2, <2>3, <2>4
<1>4. os'[p] = "gone"
  <2>1. CASE ReaperWaits(p)
    BY <1>1, <2>1 DEF ReaperWaits
  <2>2. CASE ~ReaperWaits(p)
    BY <1>1, <2>2 DEF ReaperDecides, ReaperWakes, ReaperRelaunches, ReaperAt, ReapedIsGone, loopKernel
  <2> QED
    BY <2>1, <2>2
<1>5. reaper'[p].at \in {"backoff", "relaunch"} => reaper'[p].restarts < MaxRestarts
  <2>1. CASE ReaperDecides(p)
    BY <1>1, <2>1 DEF ReaperDecides, MayRestart, ReaperGoto, ReaperType
  <2>2. CASE ReaperWakes(p)
    BY <1>1, <2>2 DEF ReaperWakes, ReaperAt, ReaperGoto, ReaperType, RestartRoom
  <2>3. CASE ~ReaperDecides(p) /\ ~ReaperWakes(p)
    BY <1>1, <2>3 DEF ReaperWaits, ReaperGoto, ReaperType
  <2> QED
    BY <2>1, <2>2, <2>3
<1>6. RestartRoom' /\ ReapedIsGone' /\ UnbornUnknown'
  BY <1>2, <1>3, <1>4, <1>5 DEF RestartRoom, ReapedIsGone, UnbornUnknown
<1>7. AdopterHoldsNext'
  BY <1>1, <1>2, <1>3 DEF AdopterHoldsNext
<1>8. ReaperIsTracked' /\ AdoptedIsOnFile'
  BY <1>2, <1>3 DEF ReaperIsTracked, AdoptedIsOnFile
<1>9. EntryHasReaper'
  <2> SUFFICES ASSUME NEW r \in Repos, Tracked(r), ~procs[r].recovered
               PROVE  home[procs[r].pid] = r /\ reaper'[procs[r].pid].at \notin {"none", "unpid"}
    BY <1>2 DEF EntryHasReaper, Tracked
  <2> QED
    BY <1>3, EntryFacts DEF EntryHasReaper
<1>10. NoUntrackedLoop'
  <2> SUFFICES ASSUME NEW q \in children, os[q] = "live", q # p, home[q] \notin swept, ~Doomed(q)
               PROVE  \/ procs[home[q]].pid = q
                      \/ \E x \in Pids : reaper'[x].at = "adopt" /\ reaper'[x].next = q
    BY <1>1, <1>2, <1>3, <1>4 DEF NoUntrackedLoop, ReaperAt, Doomed, Live, loopSignals
  <2>1. \/ procs[home[q]].pid = q
        \/ \E x \in Pids : reaper[x].at = "adopt" /\ reaper[x].next = q
    BY DEF NoUntrackedLoop, ReaperAt, Live, Doomed
  <2> QED
    BY <1>3, <2>1
<1>11. PidFileNamesTheLoop'
  <2> SUFFICES ASSUME NEW r \in Repos \ swept, Tracked(r), pidFile[r] \notin {0, procs[r].pid}
               PROVE  \E q \in Pids : /\ reaper'[q].at \in {"adopt", "forget"}
                                      /\ home[q] = r /\ procs[r].pid = q
    BY <1>2 DEF PidFileNamesTheLoop, Tracked, ReaperAt
  <2> QED
    BY <1>3 DEF PidFileNamesTheLoop, ReaperAt
<1> QED
  BY <1>1, <1>6, <1>7, <1>8, <1>9, <1>10, <1>11

\* A relaunch puts a process nothing knew into the hands of its reaper.
LEMMA InvRelaunch ==
    ASSUME LoopIInv, NEW p \in Pids, NEW q \in Pids, ReaperRelaunches(p),
           Spawn(home[p], q), reaper' = [reaper EXCEPT ![p].at = "adopt", ![p].next = q]
    PROVE  LoopIInv'
<1> USE DEF LoopIInv
<1> DEFINE r == home[p]
<1>1. /\ LoopTypeOK'
      /\ reaper \in [Pids -> ReaperType] /\ os \in [Pids -> {"unborn", "live", "zombie", "gone"}]
      /\ home \in [Pids -> Repos] /\ children \subseteq Pids /\ pidFile \in [Repos -> 0..MaxPids]
      /\ procs \in [Repos -> ProcType \cup {NoProc}] /\ r \in Repos
  BY TypeProcesses DEF LoopTypeOK, ReaperSteps
<1>2. /\ UNCHANGED <<procs, loopSignals, swept>>
      /\ os[q] = "unborn" /\ reaper[q].at = "none"
      /\ os' = [os EXCEPT ![q] = "live"] /\ home' = [home EXCEPT ![q] = r]
      /\ children' = children \cup {q} /\ pidFile' = [pidFile EXCEPT ![r] = q]
  BY DEF ReaperRelaunches, Spawn, FreshPid, UnbornUnknown, loopExit
<1>3. /\ reaper[p].at = "relaunch" /\ p # q /\ os[p] = "gone"
      /\ reaper'[p].at = "adopt" /\ reaper'[p].next = q /\ reaper'[p].restarts < MaxRestarts
      /\ \A x \in Pids \ {p} : reaper'[x] = reaper[x]
  <2>1. reaper[p].at = "relaunch" /\ p # q /\ os[p] = "gone"
    BY <1>2 DEF ReaperRelaunches, ReaperAt, ReapedIsGone
  <2>2. reaper[p].restarts < MaxRestarts
    BY <2>1 DEF RestartRoom
  <2> QED
    BY <1>1, <2>1, <2>2 DEF ReaperType
<1>4. r \notin swept => procs[r].pid = p /\ \A x \in Pids : home[x] = r /\ reaper[x].at \notin {"none", "unpid"} => x = p
  BY <1>3 DEF ReaperIsTracked
<1>5. RestartRoom' /\ ReapedIsGone'
  BY <1>1, <1>2, <1>3 DEF RestartRoom, ReapedIsGone
<1>6. UnbornUnknown'
  BY <1>1, <1>2, <1>3 DEF UnbornUnknown
<1>7. AdopterHoldsNext'
  BY <1>1, <1>2, <1>3 DEF AdopterHoldsNext
<1>8. ReaperIsTracked'
  BY <1>1, <1>2, <1>3 DEF ReaperIsTracked
<1>9. AdoptedIsOnFile'
  BY <1>1, <1>2, <1>3, <1>4 DEF AdoptedIsOnFile
<1>10. EntryHasReaper'
  <2> SUFFICES ASSUME NEW s \in Repos, Tracked(s), ~procs[s].recovered
               PROVE  home'[procs[s].pid] = s /\ reaper'[procs[s].pid].at \notin {"none", "unpid"}
    BY <1>2 DEF EntryHasReaper, Tracked
  <2>1. procs[s].pid \in Pids /\ procs[s].pid # q
    BY <1>2, EntryFacts DEF UnbornUnknown
  <2> QED
    BY <1>1, <1>2, <1>3, <2>1 DEF EntryHasReaper
<1>11. NoUntrackedLoop'
  <2> SUFFICES ASSUME NEW x \in children, os[x] = "live", x # q, home[x] \notin swept, ~Doomed(x)
               PROVE  \/ procs[home[x]].pid = x
                      \/ \E y \in Pids : reaper'[y].at = "adopt" /\ reaper'[y].next = x
    BY <1>1, <1>2, <1>3 DEF NoUntrackedLoop, ReaperAt, Doomed, Live, loopSignals
  <2>1. \/ procs[home[x]].pid = x
        \/ \E y \in Pids : reaper[y].at = "adopt" /\ reaper[y].next = x
    BY DEF NoUntrackedLoop, ReaperAt, Live, Doomed
  <2> QED
    BY <1>3, <2>1
<1>12. PidFileNamesTheLoop'
  <2>0. UNCHANGED <<procs, swept>>
    BY <1>2
  <2> SUFFICES ASSUME NEW s \in Repos, s \notin swept, procs'[s] # NoProc, pidFile'[s] \notin {0, procs'[s].pid}
               PROVE  \E x \in Pids : /\ reaper'[x].at = "adopt" \/ reaper'[x].at = "forget"
                                      /\ home'[x] = s /\ procs'[s].pid = x
    BY <2>0 DEF PidFileNamesTheLoop, Tracked, ReaperAt
  <2>1. CASE s = r
    BY <1>1, <1>2, <1>3, <1>4, <2>1
  <2>2. CASE s # r
    <3>1. PICK x \in Pids : reaper[x].at \in {"adopt", "forget"} /\ home[x] = s /\ procs[s].pid = x
      BY <1>1, <1>2, <2>2 DEF PidFileNamesTheLoop, Tracked, ReaperAt
    <3> QED
      BY <1>1, <1>2, <1>3, <2>2, <3>1
  <2> QED
    BY <2>1, <2>2
<1> QED
  BY <1>1, <1>5, <1>6, <1>7, <1>8, <1>9, <1>10, <1>11, <1>12

\* The entry that is replaced is that of the reaper's own, dead process.
LEMMA InvAdopts == ASSUME LoopIInv, NEW p \in Pids, ReaperAdopts(p) PROVE LoopIInv'
<1> USE DEF LoopIInv
<1> DEFINE r == home[p]
           q == reaper[p].next
<1>1. /\ LoopTypeOK'
      /\ reaper \in [Pids -> ReaperType] /\ os \in [Pids -> {"unborn", "live", "zombie", "gone"}]
      /\ home \in [Pids -> Repos] /\ children \subseteq Pids
      /\ procs \in [Repos -> ProcType \cup {NoProc}] /\ r \in Repos
  BY TypeProcesses DEF LoopTypeOK, ReaperSteps
<1>2. /\ reaper[p].at = "adopt" /\ q \in Pids /\ p # q /\ os[p] = "gone" /\ os[q] # "unborn"
      /\ home[q] = r /\ reaper[q].at = "none"
      /\ UNCHANGED <<pidFile, killers, cancelled, swept, home, children>>
  BY DEF ReaperAdopts, ReaperAt, AdopterHoldsNext, ReapedIsGone, Kill, loopKernel, loopExit
<1>3. /\ \A x \in Pids \ {p} : reaper[x].at = "adopt" => reaper[x].next # q
      /\ r \notin swept => procs[r].pid = p /\ \A x \in Pids : home[x] = r /\ reaper[x].at \notin {"none", "unpid"} => x = p
  BY <1>2 DEF AdopterHoldsNext, ReaperIsTracked
<1>4. CASE /\ procs' = [procs EXCEPT ![r] = Entry(q, reaper[p].restarts + 1)]
           /\ reaper' = [reaper EXCEPT ![p] = NoReaper, ![q] = NewReaper]
           /\ UNCHANGED <<loopKernel, signalled>>
  <2>1. /\ procs'[r].pid = q /\ ~procs'[r].recovered
        /\ \A s \in Repos \ {r} : procs'[s] = procs[s]
        /\ reaper'[p].at = "none" /\ reaper'[q].at = "wait"
        /\ \A x \in Pids \ {p, q} : reaper'[x] = reaper[x]
    <3>1. Entry(q, reaper[p].restarts + 1).pid = q /\ ~Entry(q, reaper[p].restarts + 1).recovered
      BY DEF Entry
    <3>2. reaper'[p] = NoReaper /\ reaper'[q] = NewReaper /\ \A x \in Pids \ {p, q} : reaper'[x] = reaper[x]
      BY <1>1, <1>2, <1>4
    <3> QED
      BY <1>1, <1>4, <3>1, <3>2, ReaperMoves
  <2>2. UNCHANGED <<os, signalled>>
    BY <1>4 DEF loopKernel
  <2>3. RestartRoom' /\ ReapedIsGone'
    BY <1>2, <2>1, <2>2 DEF RestartRoom, ReapedIsGone
  <2>4. UnbornUnknown'
    BY <1>1, <1>2, <2>1, <2>2 DEF UnbornUnknown
  <2>5. AdopterHoldsNext'
    BY <1>1, <1>2, <1>3, <2>1, <2>2 DEF AdopterHoldsNext
  <2>6. ReaperIsTracked'
    BY <1>1, <1>2, <1>3, <2>1 DEF ReaperIsTracked
  <2>7. AdoptedIsOnFile'
    BY <1>2, <2>1 DEF AdoptedIsOnFile
  <2>8. EntryHasReaper'
    <3> SUFFICES ASSUME NEW s \in Repos, procs'[s] # NoProc, ~procs'[s].recovered
                 PROVE  home[procs'[s].pid] = s /\ reaper'[procs'[s].pid].at \notin {"none", "unpid"}
      BY <1>2 DEF EntryHasReaper, Tracked
    <3>1. CASE s = r
      BY <1>2, <2>1, <3>1
    <3>2. CASE s # r
      <4>1. /\ procs[s].pid \in Pids /\ home[procs[s].pid] = s
            /\ reaper[procs[s].pid].at \notin {"none", "unpid"}
        BY <2>1, <3>2, EntryFacts DEF EntryHasReaper, Tracked
      <4> QED
        BY <1>2, <2>1, <3>2, <4>1
    <3> QED
      BY <3>1, <3>2
  <2>9. NoUntrackedLoop'
    <3> SUFFICES ASSUME NEW x \in children, os[x] = "live", home[x] \notin swept, ~Doomed(x)
                 PROVE  \/ procs'[home[x]].pid = x
                        \/ \E y \in Pids : reaper'[y].at = "adopt" /\ reaper'[y].next = x
      BY <1>2, <2>2 DEF NoUntrackedLoop, ReaperAt, Live, Doomed
    <3>1. \/ procs[home[x]].pid = x
          \/ \E y \in Pids : reaper[y].at = "adopt" /\ reaper[y].next = x
      BY DEF NoUntrackedLoop, ReaperAt, Live, Doomed
    <3> QED
      BY <1>1, <1>2, <1>3, <2>1, <3>1
  <2>10. PidFileNamesTheLoop'
    <3> SUFFICES ASSUME NEW s \in Repos \ swept, procs'[s] # NoProc, pidFile[s] \notin {0, procs'[s].pid}
                 PROVE  \E x \in Pids : /\ reaper'[x].at \in {"adopt", "forget"}
                                        /\ home[x] = s /\ procs'[s].pid = x
      BY <1>2 DEF PidFileNamesTheLoop, Tracked, ReaperAt
    <3>1. s # r
      BY <1>2, <2>1 DEF AdoptedIsOnFile
    <3>2. PICK x \in Pids : reaper[x].at \in {"adopt", "forget"} /\ home[x] = s /\ procs[s].pid = x
      BY <2>1, <3>1 DEF PidFileNamesTheLoop, Tracked, ReaperAt
    <3> QED
      BY <1>2, <2>1, <3>1, <3>2
  <2> QED
    BY <1>1, <2>3, <2>4, <2>5, <2>6, <2>7, <2>8, <2>9, <2>10
<1>5. CASE /\ Kill({q})
           /\ reaper' = [reaper EXCEPT ![p].at = "forget", ![p].next = 0]
           /\ UNCHANGED procs
  <2>1. /\ reaper'[p].at = "forget" /\ \A x \in Pids \ {p} : reaper'[x] = reaper[x]
        /\ \A x \in Pids : os'[x] = os[x] \/ (os[x] = "live" /\ os'[x] \in {"zombie", "gone"})
        /\ \A x \in Pids : os'[x] = "live" /\ Doomed(x) => Doomed(x)'
        /\ os'[q] # "live"
    <3>1. reaper'[p].at = "forget" /\ \A x \in Pids \ {p} : reaper'[x] = reaper[x]
      BY <1>1, <1>5 DEF ReaperType
    <3>2. \A x \in Pids : os'[x] = "live" /\ Doomed(x) => Doomed(x)'
      BY <1>2, <1>5, KillQuiet DEF Doomed
    <3> QED
      BY <1>2, <1>5, <3>1, <3>2, KillQuiet
  <2>2. RestartRoom' /\ ReapedIsGone'
    BY <1>2, <2>1 DEF RestartRoom, ReapedIsGone
  <2>3. UnbornUnknown'
    <3>1. UNCHANGED <<procs, pidFile, children>>
      BY <1>2, <1>5
    <3> QED
      BY <1>2, <2>1, <3>1 DEF UnbornUnknown
  <2>4. AdopterHoldsNext'
    <3> SUFFICES ASSUME NEW x \in Pids, x # p, reaper[x].at = "adopt"
                 PROVE  /\ reaper[x].next \in Pids /\ os'[reaper[x].next] # "unborn"
                        /\ home[reaper[x].next] = home[x] /\ reaper'[reaper[x].next].at = "none"
                        /\ \A y \in Pids : reaper'[y].at = "adopt" /\ y # x =>
                             reaper'[y].next # reaper[x].next
      BY <1>2, <2>1 DEF AdopterHoldsNext
    <3> QED
      BY <1>2, <2>1 DEF AdopterHoldsNext
  <2>5. ReaperIsTracked' /\ AdoptedIsOnFile'
    <3>1. UNCHANGED <<procs, pidFile, home, swept>>
      BY <1>2, <1>5
    <3> QED
      BY <1>2, <2>1, <3>1 DEF ReaperIsTracked, AdoptedIsOnFile
  <2>6. EntryHasReaper'
    <3> SUFFICES ASSUME NEW s \in Repos, Tracked(s), ~procs[s].recovered
                 PROVE  home[procs[s].pid] = s /\ reaper'[procs[s].pid].at \notin {"none", "unpid"}
      BY <1>2, <1>5 DEF EntryHasReaper, Tracked
    <3> QED
      BY <2>1, EntryFacts DEF EntryHasReaper
  <2>7. NoUntrackedLoop'
    <3> SUFFICES ASSUME NEW x \in children, os'[x] = "live", home[x] \notin swept, ~Doomed(x)
                 PROVE  \/ procs[home[x]].pid = x
                        \/ \E y \in Pids : reaper'[y].at = "adopt" /\ reaper'[y].next = x
      BY <1>1, <1>2, <1>5, <2>1 DEF NoUntrackedLoop, ReaperAt, Live, Doomed
    <3>1. os[x] = "live"
      BY <1>1, <2>1
    <3>2. \/ procs[home[x]].pid = x
          \/ \E y \in Pids : reaper[y].at = "adopt" /\ reaper[y].next = x
      BY <3>1 DEF NoUntrackedLoop, ReaperAt, Live, Doomed
    <3> QED
      BY <2>1, <3>2
  <2>8. PidFileNamesTheLoop'
    <3> SUFFICES ASSUME NEW s \in Repos \ swept, Tracked(s), pidFile[s] \notin {0, procs[s].pid}
                 PROVE  \E x \in Pids : /\ reaper'[x].at \in {"adopt", "forget"}
                                        /\ home[x] = s /\ procs[s].pid = x
      <4>1. UNCHANGED <<pidFile, home, swept, procs>>
        BY <1>2, <1>5
      <4> QED
        BY <4>1 DEF PidFileNamesTheLoop, Tracked, ReaperAt
    <3> QED
      BY <2>1 DEF PidFileNamesTheLoop, ReaperAt
  <2> QED
    BY <1>1, <2>2, <2>3, <2>4, <2>5, <2>6, <2>7, <2>8
<1> QED
  BY <1>4, <1>5 DEF ReaperAdopts

\* The entry a cleanup deletes is that of a dead process, or of a repository
\* StopAll took the entry from.
LEMMA InvForgets == ASSUME LoopIInv, NEW p \in Pids, ReaperForgets(p) PROVE LoopIInv'
<1> USE DEF LoopIInv
<1> DEFINE r == home[p]
<1>1. /\ LoopTypeOK'
      /\ reaper \in [Pids -> ReaperType] /\ os \in [Pids -> {"unborn", "live", "zombie", "gone"}]
      /\ home \in [Pids -> Repos] /\ children \subseteq Pids
      /\ procs \in [Repos -> ProcType \cup {NoProc}] /\ r \in Repos
  BY TypeProcesses DEF LoopTypeOK, ReaperSteps
<1>2. UNCHANGED <<pidFile, os, home, children, signalled, killers, cancelled, swept>>
  BY DEF ReaperForgets, loopKernel, loopSignals, loopExit
<1>3. /\ reaper[p].at = "forget" /\ os[p] = "gone" /\ reaper'[p].at = "unpid"
      /\ \A x \in Pids \ {p} : reaper'[x] = reaper[x]
      /\ procs'[r] = NoProc /\ NoProc.pid = 0 /\ \A s \in Repos \ {r} : procs'[s] = procs[s]
  <2>1. reaper[p].at = "forget" /\ os[p] = "gone" /\ NoProc.pid = 0
    BY DEF ReaperForgets, ReaperAt, ReapedIsGone, NoProc
  <2>2. reaper'[p].at = "unpid" /\ \A x \in Pids \ {p} : reaper'[x] = reaper[x]
    BY <1>1 DEF ReaperForgets, ReaperGoto, ReaperType
  <2>3. procs'[r] = NoProc /\ \A s \in Repos \ {r} : procs'[s] = procs[s]
    BY <1>1 DEF ReaperForgets
  <2> QED
    BY <2>1, <2>2, <2>3
<1>4. r \notin swept => procs[r].pid = p /\ \A x \in Pids : home[x] = r /\ reaper[x].at \notin {"none", "unpid"} => x = p
  BY <1>3 DEF ReaperIsTracked
<1>5. RestartRoom' /\ ReapedIsGone'
  BY <1>2, <1>3 DEF RestartRoom, ReapedIsGone
<1>6. UnbornUnknown'
  BY <1>1, <1>2, <1>3, PidsPositive DEF UnbornUnknown
<1>7. AdopterHoldsNext'
  BY <1>1, <1>2, <1>3 DEF AdopterHoldsNext
<1>8. ReaperIsTracked' /\ AdoptedIsOnFile'
  BY <1>1, <1>2, <1>3, <1>4 DEF ReaperIsTracked, AdoptedIsOnFile
<1>9. EntryHasReaper'
  <2> SUFFICES ASSUME NEW s \in Repos \ {r}, Tracked(s), ~procs[s].recovered
               PROVE  home[procs[s].pid] = s /\ reaper'[procs[s].pid].at \notin {"none", "unpid"}
    BY <1>1, <1>2, <1>3 DEF EntryHasReaper, Tracked
  <2>1. procs[s].pid \in Pids /\ home[procs[s].pid] = s
    BY EntryFacts DEF EntryHasReaper
  <2> QED
    BY <1>3, <2>1 DEF EntryHasReaper
<1>10. NoUntrackedLoop'
  <2> SUFFICES ASSUME NEW x \in children, os[x] = "live", home[x] \notin swept, ~Doomed(x)
               PROVE  \/ procs'[home[x]].pid = x
                      \/ \E y \in Pids : reaper'[y].at = "adopt" /\ reaper'[y].next = x
    BY <1>2 DEF NoUntrackedLoop, ReaperAt, Live, Doomed
  <2>1. \/ procs[home[x]].pid = x
        \/ \E y \in Pids : reaper[y].at = "adopt" /\ reaper[y].next = x
    BY DEF NoUntrackedLoop, ReaperAt, Live, Doomed
  <2> QED
    BY <1>1, <1>3, <1>4, <2>1
<1>11. PidFileNamesTheLoop'
  <2> SUFFICES ASSUME NEW s \in Repos \ swept, s # r, Tracked(s), pidFile[s] \notin {0, procs[s].pid}
               PROVE  \E x \in Pids : /\ reaper'[x].at \in {"adopt", "forget"}
                                      /\ home[x] = s /\ procs[s].pid = x
    BY <1>1, <1>2, <1>3 DEF PidFileNamesTheLoop, Tracked, ReaperAt
  <2> QED
    BY <1>3 DEF PidFileNamesTheLoop, ReaperAt
<1> QED
  BY <1>1, <1>5, <1>6, <1>7, <1>8, <1>9, <1>10, <1>11

LEMMA InvUnpid == ASSUME LoopIInv, NEW p \in Pids, ReaperRemovesPidFile(p) PROVE LoopIInv'
<1> USE DEF LoopIInv
<1>1. /\ LoopTypeOK'
      /\ reaper \in [Pids -> ReaperType] /\ pidFile \in [Repos -> 0..MaxPids] /\ home[p] \in Repos
  BY TypeProcesses DEF LoopTypeOK, ReaperSteps
<1>2. UNCHANGED <<procs, os, home, children, signalled, killers, cancelled, swept>>
  BY DEF ReaperRemovesPidFile, loopKernel, loopSignals, loopExit
<1>3. /\ reaper[p].at = "unpid" /\ reaper'[p].at = "none"
      /\ \A x \in Pids \ {p} : reaper'[x] = reaper[x]
      /\ pidFile'[home[p]] = 0 /\ \A s \in Repos \ {home[p]} : pidFile'[s] = pidFile[s]
  BY <1>1, ReaperMoves DEF ReaperRemovesPidFile, ReaperAt
<1>4. RestartRoom' /\ ReapedIsGone'
  BY <1>2, <1>3 DEF RestartRoom, ReapedIsGone
<1>5. UnbornUnknown'
  BY <1>2, <1>3, PidsPositive DEF UnbornUnknown
<1>6. AdopterHoldsNext'
  BY <1>1, <1>2, <1>3 DEF AdopterHoldsNext
<1>7. ReaperIsTracked'
  BY <1>2, <1>3 DEF ReaperIsTracked
<1>8. AdoptedIsOnFile'
  <2>1. home \in [Pids -> Repos]
    BY DEF LoopTypeOK
  <2> QED
    BY <1>2, <1>3, <2>1 DEF AdoptedIsOnFile
<1>9. EntryHasReaper'
  <2> SUFFICES ASSUME NEW s \in Repos, Tracked(s), ~procs[s].recovered
               PROVE  home[procs[s].pid] = s /\ reaper'[procs[s].pid].at \notin {"none", "unpid"}
    BY <1>2 DEF EntryHasReaper, Tracked
  <2> QED
    BY <1>3, EntryFacts DEF EntryHasReaper
<1>10. NoUntrackedLoop'
  <2> SUFFICES ASSUME NEW x \in children, os[x] = "live", home[x] \notin swept, ~Doomed(x)
               PROVE  \/ procs[home[x]].pid = x
                      \/ \E y \in Pids : reaper'[y].at = "adopt" /\ reaper'[y].next = x
    BY <1>2 DEF NoUntrackedLoop, ReaperAt, Live, Doomed
  <2> QED
    BY <1>3 DEF NoUntrackedLoop, ReaperAt, Live, Doomed
<1>11. PidFileNamesTheLoop'
  <2> SUFFICES ASSUME NEW s \in Repos, s \notin swept, procs[s] # NoProc, pidFile'[s] \notin {0, procs[s].pid}
               PROVE  \E x \in Pids : /\ reaper'[x].at = "adopt" \/ reaper'[x].at = "forget"
                                      /\ home[x] = s /\ procs[s].pid = x
    BY <1>2 DEF PidFileNamesTheLoop, Tracked, ReaperAt
  <2> QED
    BY <1>3 DEF PidFileNamesTheLoop, Tracked, ReaperAt
<1> QED
  BY <1>1, <1>4, <1>5, <1>6, <1>7, <1>8, <1>9, <1>10, <1>11

\* A repository that is re-adopted had no reaper, unless StopAll was there, and
\* gets the entry of a process of its own.
LEMMA InvRecover == ASSUME LoopIInv, Recover PROVE LoopIInv'
<1> USE DEF LoopIInv
<1> DEFINE onFile == {r \in Repos : ~Tracked(r) /\ pidFile[r] # 0}
           found == {r \in onFile : IsProcessAlive(pidFile[r])}
<1>1. /\ LoopTypeOK'
      /\ home \in [Pids -> Repos] /\ children \subseteq Pids /\ pidFile \in [Repos -> 0..MaxPids]
  BY TypeOperations, LoopAssumption DEF LoopTypeOK
<1>2. UNCHANGED <<os, home, children, signalled, killers, cancelled, reaper, swept>>
  BY DEF Recover, loopKernel, loopSignals, loopExit
<1>3. /\ \A r \in found : /\ procs'[r].pid = pidFile[r] /\ procs'[r].recovered
                          /\ pidFile'[r] = pidFile[r] /\ os[pidFile[r]] # "unborn"
                          /\ procs[r].pid = 0 /\ ~Tracked(r)
      /\ \A r \in Repos \ found : procs'[r] = procs[r] /\ pidFile'[r] \in {0, pidFile[r]}
      /\ found \subseteq Repos
  <2>1. \A r \in Repos : [Entry(pidFile[r], 0) EXCEPT !.recovered = TRUE].pid = pidFile[r]
                         /\ [Entry(pidFile[r], 0) EXCEPT !.recovered = TRUE].recovered
    BY DEF Entry
  <2>2. \A r \in Repos : procs'[r] = IF r \in found
                                    THEN [Entry(pidFile[r], 0) EXCEPT !.recovered = TRUE] ELSE procs[r]
    BY DEF Recover
  <2>3. \A r \in Repos : pidFile'[r] = IF r \in onFile \ found THEN 0 ELSE pidFile[r]
    BY DEF Recover
  <2>4. \A r \in found : os[pidFile[r]] # "unborn" /\ ~Tracked(r) /\ procs[r].pid = 0
    BY EntryFacts DEF IsProcessAlive
  <2> QED
    BY <2>1, <2>2, <2>3, <2>4
<1>4. \A p \in Pids : home[p] \in found \ swept => reaper[p].at \in {"none", "unpid"}
  BY <1>3, PidsPositive DEF ReaperIsTracked
<1>5. RestartRoom' /\ ReapedIsGone' /\ AdopterHoldsNext'
  BY <1>2 DEF RestartRoom, ReapedIsGone, AdopterHoldsNext
<1>6. UnbornUnknown'
  BY <1>2, <1>3, PidsPositive DEF UnbornUnknown
<1>7. ReaperIsTracked' /\ AdoptedIsOnFile'
  BY <1>1, <1>2, <1>3, <1>4 DEF ReaperIsTracked, AdoptedIsOnFile
<1>8. EntryHasReaper'
  BY <1>2, <1>3 DEF EntryHasReaper, Tracked
<1>9. NoUntrackedLoop'
  <2> SUFFICES ASSUME NEW x \in children, os[x] = "live", home[x] \notin swept, ~Doomed(x)
               PROVE  \/ procs'[home[x]].pid = x
                      \/ \E y \in Pids : reaper[y].at = "adopt" /\ reaper[y].next = x
    BY <1>2 DEF NoUntrackedLoop, ReaperAt, Live, Doomed
  <2>1. \/ procs[home[x]].pid = x
        \/ \E y \in Pids : reaper[y].at = "adopt" /\ reaper[y].next = x
    BY DEF NoUntrackedLoop, ReaperAt, Live, Doomed
  <2> QED
    BY <1>1, <1>3, <2>1, PidsPositive
<1>10. PidFileNamesTheLoop'
  <2> SUFFICES ASSUME NEW s \in Repos, s \notin swept, procs'[s] # NoProc, pidFile'[s] \notin {0, procs'[s].pid}
               PROVE  \E x \in Pids : /\ reaper[x].at = "adopt" \/ reaper[x].at = "forget"
                                      /\ home[x] = s /\ procs'[s].pid = x
    BY <1>2 DEF PidFileNamesTheLoop, Tracked, ReaperAt
  <2> QED
    BY <1>3 DEF PidFileNamesTheLoop, Tracked, ReaperAt
<1> QED
  BY <1>1, <1>5, <1>6, <1>7, <1>8, <1>9, <1>10

\* After a sweep the repositories that had an entry are out of the properties.
LEMMA InvSweep == ASSUME LoopIInv, StopAll \/ StopAllGraceful PROVE LoopIInv'
<1> USE DEF LoopIInv
<1>1. /\ LoopTypeOK'
      /\ home \in [Pids -> Repos] /\ children \subseteq Pids
  BY TypeOperations, LoopAssumption DEF LoopTypeOK
<1>2. UNCHANGED <<os, home, children, killers, cancelled, reaper>>
  BY DEF StopAll, StopAllGraceful, loopKernel, loopExit
<1>3. /\ \A r \in Repos : procs'[r] = NoProc /\ pidFile'[r] \in {0, pidFile[r]}
      /\ NoProc.pid = 0 /\ signalled \subseteq signalled' /\ swept \subseteq swept'
      /\ \A r \in Repos : r \notin swept' => ~Tracked(r)
  BY DEF StopAll, StopAllGraceful, SweepAll, NoProc
<1>4. \A r \in Repos : r \notin swept' => procs[r].pid = 0
  BY <1>3, EntryFacts
<1>5. RestartRoom' /\ ReapedIsGone' /\ AdopterHoldsNext'
  BY <1>2 DEF RestartRoom, ReapedIsGone, AdopterHoldsNext
<1>6. UnbornUnknown'
  <2>1. ASSUME NEW p \in Pids, os[p] = "unborn", NEW r \in Repos
        PROVE  procs'[r].pid # p /\ pidFile'[r] # p
    <3>1. pidFile[r] # p /\ p # 0
      BY <2>1, PidsPositive DEF UnbornUnknown
    <3>2. procs'[r].pid = 0 /\ pidFile'[r] \in {0, pidFile[r]}
      BY <1>3
    <3> QED
      BY <3>1, <3>2
  <2>2. UNCHANGED <<os, children, reaper>>
    BY <1>2
  <2> QED
    BY <2>1, <2>2 DEF UnbornUnknown
<1>7. ReaperIsTracked' /\ AdoptedIsOnFile'
  BY <1>1, <1>2, <1>3, <1>4, PidsPositive DEF ReaperIsTracked, AdoptedIsOnFile
<1>8. EntryHasReaper' /\ PidFileNamesTheLoop'
  BY <1>3 DEF EntryHasReaper, PidFileNamesTheLoop, Tracked
<1>9. NoUntrackedLoop'
  <2> SUFFICES ASSUME NEW x \in children, os[x] = "live", home[x] \notin swept', ~Doomed(x)
               PROVE  \E y \in Pids : reaper[y].at = "adopt" /\ reaper[y].next = x
    BY <1>2, <1>3 DEF NoUntrackedLoop, ReaperAt, Live, Doomed
  <2>1. \/ procs[home[x]].pid = x
        \/ \E y \in Pids : reaper[y].at = "adopt" /\ reaper[y].next = x
    BY <1>3 DEF NoUntrackedLoop, ReaperAt, Live, Doomed
  <2> QED
    BY <1>1, <1>4, <2>1, PidsPositive
<1> QED
  BY <1>1, <1>5, <1>6, <1>7, <1>8, <1>9

\* A new ralphglasses knows no loop until it reads the PID files.
LEMMA InvRestart == ASSUME LoopIInv, Restart PROVE LoopIInv'
<1> USE DEF LoopIInv
<1>1. LoopTypeOK'
  BY TypeOperations, LoopAssumption
<1>2. /\ \A r \in Repos : procs'[r] = NoProc
      /\ \A p \in Pids : reaper'[p].at = "none" /\ (os'[p] = "unborn" => os[p] = "unborn")
      /\ children' = {} /\ NoProc.pid = 0 /\ UNCHANGED pidFile
  BY ReaperMoves DEF Restart, NoProc
<1>3. RestartRoom' /\ ReapedIsGone' /\ AdopterHoldsNext' /\ ReaperIsTracked' /\ AdoptedIsOnFile'
  BY <1>2 DEF RestartRoom, ReapedIsGone, AdopterHoldsNext, ReaperIsTracked, AdoptedIsOnFile
<1>4. UnbornUnknown'
  BY <1>2, PidsPositive DEF UnbornUnknown
<1>5. EntryHasReaper' /\ PidFileNamesTheLoop' /\ NoUntrackedLoop'
  BY <1>2 DEF EntryHasReaper, PidFileNamesTheLoop, NoUntrackedLoop, Tracked
<1> QED
  BY <1>1, <1>3, <1>4, <1>5

LEMMA InvStep == LoopIInv /\ [LoopNext]_loopVars => LoopIInv'
<1> SUFFICES ASSUME LoopIInv, [LoopNext]_loopVars PROVE LoopIInv'
  OBVIOUS
<1>1. ASSUME NEW r \in Repos, StartLoop(r) \/ StopLoop(r) \/ TogglePause(r) PROVE LoopIInv'
  BY <1>1, InvStart, InvStop, InvPause
<1>2. ASSUME NEW p \in Pids, LoopExits(p) \/ ContextKill(p) \/ KillTerm(p) \/ KillSurvivor(p)
      PROVE  LoopIInv'
  BY <1>2, InvEnds
<1>3. ASSUME NEW p \in Pids, ReaperSteps(p) PROVE LoopIInv'
  <2>1. CASE ReaperWaits(p) \/ ReaperDecides(p) \/ ReaperWakes(p)
    BY <2>1, InvWalks
  <2>2. CASE ReaperRelaunches(p)
    BY <2>2, InvWalks, InvRelaunch DEF ReaperRelaunches
  <2>3. CASE ReaperAdopts(p) \/ ReaperForgets(p) \/ ReaperRemovesPidFile(p)
    BY <2>3, InvAdopts, InvForgets, InvUnpid
  <2> QED
    BY <1>3, <2>1, <2>2, <2>3 DEF ReaperSteps
<1>4. CASE CancelContext \/ StopAll \/ StopAllGraceful \/ GraceTimeout \/ Recover \/ Restart
  BY <1>4, InvCancel, InvSweep, InvGrace, InvRecover, InvRestart
<1>5. CASE UNCHANGED loopVars
  <2>1. UNCHANGED <<procs, pidFile, os, home, failed, children, frozen, signalled, killers, cancelled,
                    reaper, grace, exiting, crashes, swept>>
    BY <1>5 DEF loopVars, loopKernel, loopSignals, loopExit
  <2>2. LoopTypeOK'
    BY <2>1 DEF LoopIInv, LoopTypeOK
  <2>3. \A q \in Pids : Doomed(q) => Doomed(q)'
    BY <2>1 DEF Doomed
  <2> QED
    BY <2>1, <2>2, <2>3, InvQuiet
<1> QED
  BY <1>1, <1>2, <1>3, <1>4, <1>5 DEF LoopNext

\* In every reachable state the invariant holds.
THEOREM LoopInvariant == LoopSpec => []LoopIInv
BY InvInit, InvStep, PTL DEF LoopSpec

\* The state of the process manager keeps its type; a loop is never restarted
\* more often than MaxRestarts (manager_lifecycle.go:138-160).
THEOREM LoopTypeCorrect == LoopSpec => []LoopTypeOK
<1>1. LoopIInv => LoopTypeOK
  BY DEF LoopIInv
<1> QED
  BY <1>1, LoopInvariant, PTL

\* A tracked loop that was not re-adopted has a reaper that will still run its
\* cleanup (manager_lifecycle.go:72, 178, 222).
THEOREM EntriesAreReaped == LoopSpec => []EntryHasReaper
<1>1. LoopIInv => EntryHasReaper
  BY DEF LoopIInv
<1> QED
  BY <1>1, LoopInvariant, PTL

\* No restart leaves an untracked orphan: a live loop is tracked, in the hands of
\* the reaper that started it, or being stopped (manager_lifecycle.go:173-190).
THEOREM LoopsAreTracked == LoopSpec => []NoUntrackedLoop
<1>1. LoopIInv => NoUntrackedLoop
  BY DEF LoopIInv
<1> QED
  BY <1>1, LoopInvariant, PTL

\* The PID file names the tracked loop or its successor (manager_lifecycle.go:469).
THEOREM PidFilesAreOwn == LoopSpec => []PidFileNamesTheLoop
<1>1. LoopIInv => PidFileNamesTheLoop
  BY DEF LoopIInv
<1> QED
  BY <1>1, LoopInvariant, PTL

\* An entry that Stop claimed is removed or left as it is, but for a pause.
LEMMA ClaimIsKept ==
    ASSUME LoopTypeOK, LoopNext, NEW r \in Repos, Tracked(r), procs[r].stopping
    PROVE  procs'[r] = NoProc \/ procs'[r] = [procs[r] EXCEPT !.paused = procs'[r].paused]
<1>1. procs[r] \in ProcType /\ procs \in [Repos -> ProcType \cup {NoProc}]
  BY EntryFacts DEF LoopTypeOK
<1>2. ASSUME procs'[r] = procs[r]
      PROVE  procs'[r] = [procs[r] EXCEPT !.paused = procs'[r].paused]
  BY <1>1, <1>2 DEF ProcType
<1>3. ASSUME NEW s \in Repos, StartLoop(s) \/ StopLoop(s) \/ TogglePause(s)
      PROVE  procs'[r] = NoProc \/ procs'[r] = [procs[r] EXCEPT !.paused = procs'[r].paused]
  <2>1. CASE StartLoop(s)
    BY <1>1, <1>2, <2>1 DEF StartLoop
  <2>2. CASE StopLoop(s)
    <3>1. [procs[r] EXCEPT !.stopping = TRUE] = procs[r]
      BY <1>1 DEF ProcType
    <3>2. \/ procs'[r] = procs[r] \/ procs'[r] = NoProc
          \/ procs'[r] = [procs[r] EXCEPT !.stopping = TRUE]
      BY <1>1, <2>2 DEF StopLoop
    <3> QED
      BY <1>2, <3>1, <3>2
  <2>3. CASE TogglePause(s) /\ s # r
    BY <1>1, <1>2, <2>3 DEF TogglePause
  <2>4. CASE TogglePause(r)
    <3>1. procs'[r] = [procs[r] EXCEPT !.paused = ~procs[r].paused]
      BY <1>1, <2>4 DEF TogglePause
    <3> QED
      BY <1>1, <3>1 DEF ProcType
  <2> QED
    BY <1>3, <2>1, <2>2, <2>3, <2>4
<1>4. ASSUME NEW p \in Pids, LoopExits(p) \/ ContextKill(p) \/ KillTerm(p) \/ KillSurvivor(p)
      PROVE  procs' = procs
  BY <1>4 DEF LoopExits, ContextKill, KillTerm, KillSurvivor
<1>5. ASSUME NEW p \in Pids, ReaperSteps(p)
      PROVE  procs'[r] = procs[r] \/ procs'[r] = NoProc
  <2>1. CASE ReaperAdopts(p)
    <3>1. MayAdopt(p) => home[p] # r
      BY DEF MayAdopt
    <3> QED
      BY <1>1, <2>1, <3>1 DEF ReaperAdopts
  <2>2. CASE ReaperForgets(p)
    BY <1>1, <2>2 DEF ReaperForgets
  <2>3. CASE ~ReaperAdopts(p) /\ ~ReaperForgets(p)
    BY <1>5, <2>3 DEF ReaperSteps, ReaperWaits, ReaperDecides, ReaperWakes, ReaperRelaunches,
                      ReaperRemovesPidFile
  <2> QED
    BY <2>1, <2>2, <2>3
<1>6. CASE CancelContext \/ StopAll \/ StopAllGraceful \/ GraceTimeout \/ Recover \/ Restart
  BY <1>2, <1>6 DEF CancelContext, StopAll, StopAllGraceful, GraceTimeout, Recover, Restart, SweepAll
<1> QED
  BY <1>2, <1>3, <1>4, <1>5, <1>6 DEF LoopNext

\* No restart takes an entry back that Stop has claimed (manager_lifecycle.go:138,
\* 177, 282).
THEOREM StopsAreFinal == LoopSpec => StopIsFinal
<1>1. LoopIInv /\ [LoopNext]_loopVars =>
        [\A r \in Repos : Tracked(r) /\ procs[r].stopping =>
           procs'[r] = NoProc \/ procs'[r] = [procs[r] EXCEPT !.paused = procs'[r].paused]]_loopVars
  BY ClaimIsKept DEF LoopIInv
<1> QED
  BY <1>1, LoopInvariant, PTL DEF LoopSpec, StopIsFinal

------------------------------------------------------------------------------
(* The sessions. *)

\* In this order: nothing knows a session that was never launched; a runner past
\* its wait has collected its process; the runner of a session that has its end
\* is past its wait; until then the session runs or was stopped; and it can be
\* found while its process lives, or its launch still decides.
AtSession(s) ==
  /\ proc[s] = "none" =>
       /\ status[s] = "none" /\ disk[s] = "none"
       /\ s \notin ended /\ s \notin known
       /\ launcher[s] = "none" /\ runner[s] = "none" /\ stopper[s] = "none"
       /\ \A c \in saves : c[1] # s
  /\ Reaped(s) => proc[s] = "dead"
  /\ s \in ended /\ runner[s] # "none" => Reaped(s)
  /\ runner[s] \in {"read", "wait", "waited"} => status[s] \in {"running", "stopped"}
  /\ proc[s] = "alive" /\ runner[s] # "none" => s \in known \/ launcher[s] = "probe"

SessionIInv == SessionTypeOK /\ \A s \in Sessions : AtSession(s)

----------------------------------------------------------------------------
(* Saves. *)

\* What a write stores was taken from the session.
LEMMA Writes ==
  ASSUME SessionTypeOK, NEW s \in Sessions, NEW by, Write(s, by)
  PROVE  /\ disk' \in [Sessions -> SessionStatuses]
         /\ saves' \subseteq saves
         /\ \A t \in Sessions : t # s => disk'[t] = disk[t]
         /\ \E c \in saves : c[1] = s
<1>1. PICK c \in saves : c[1] = s /\ disk' = [disk EXCEPT ![s] = c[3]] /\ saves' = saves \ {c}
  BY DEF Write
<1>2. c[3] \in SessionStatuses
  BY DEF SessionTypeOK
<1> QED
  BY <1>1, <1>2 DEF SessionTypeOK

\* A clone is one of the session's.
LEMMA Clones ==
  ASSUME SessionTypeOK, NEW s \in Sessions, NEW by \in Savers, Clone(s, by)
  PROVE  /\ saves' \subseteq Sessions \X Savers \X SessionStatuses
         /\ \A c \in saves' : c \in saves \/ c[1] = s
BY DEF Clone, SessionTypeOK

----------------------------------------------------------------------------
(* The steps of a session, the others untouched. *)

\* The steps about session s.
StepOf(s) ==
  \/ LaunchSession(s) \/ LauncherSteps(s)
  \/ ProcessExits(s) \/ CancelKills(s)
  \/ RunnerStops(s) \/ RunnerSteps(s)
  \/ StopSession(s) \/ StopperSteps(s)
  \/ ReloadSteps(s) \/ ReloadForgets(s)

\* The writes of a session, by whatever goroutine.
SavesOf(s) == \E by \in Savers : WriteSave(s, by)

\* The clones of a session.
ClonesOf(s) == InitialSave(s) \/ FinalSave(s) \/ StopSave(s) \/ ReloadSaves(s)

\* The steps of a session that save nothing.
ActsOf(s) ==
  \/ LaunchSession(s) \/ ProbePasses(s) \/ ProbeFails(s)
  \/ ProcessExits(s) \/ CancelKills(s)
  \/ RunnerStops(s) \/ OutputEnds(s) \/ RunnerWaits(s) \/ RunnerEnds(s)
  \/ StopSession(s) \/ KillSession(s) \/ ReloadForgets(s)

\* Each step of a session acts, clones or writes.
LEMMA SessionCases ==
  ASSUME NEW s \in Sessions, StepOf(s)
  PROVE  ActsOf(s) \/ ClonesOf(s) \/ SavesOf(s)
BY DEF StepOf, LauncherSteps, RunnerSteps, StopperSteps, ReloadSteps, ActsOf, ClonesOf, SavesOf,
       Savers

\* Types under the steps that save nothing.
LEMMA TypeActs ==
  ASSUME SessionTypeOK, NEW s \in Sessions, ActsOf(s)
  PROVE  SessionTypeOK'
<1>1. CASE LaunchSession(s)
  BY <1>1 DEF SessionTypeOK, LaunchSession, SessionStatuses
<1>2. CASE ProbePasses(s) \/ ProbeFails(s)
  BY <1>2 DEF SessionTypeOK, ProbePasses, ProbeFails
<1>3. CASE ProcessExits(s) \/ CancelKills(s)
  BY <1>3 DEF SessionTypeOK, ProcessExits, CancelKills, sessionWork
<1>4. CASE RunnerStops(s)
  BY <1>4 DEF SessionTypeOK, RunnerStops, SessionStatuses, Ends
<1>5. CASE OutputEnds(s) \/ RunnerWaits(s)
  BY <1>5 DEF SessionTypeOK, OutputEnds, RunnerWaits
<1>6. CASE RunnerEnds(s)
  BY <1>6 DEF SessionTypeOK, RunnerEnds, FinalStatuses, SessionStatuses, Ends
<1>7. CASE StopSession(s)
  BY <1>7 DEF SessionTypeOK, StopSession, SessionStatuses, Ends
<1>8. CASE KillSession(s)
  BY <1>8 DEF SessionTypeOK, KillSession
<1>9. CASE ReloadForgets(s)
  BY <1>9 DEF SessionTypeOK, ReloadForgets, sessionWork
<1> QED
  BY <1>1, <1>2, <1>3, <1>4, <1>5, <1>6, <1>7, <1>8, <1>9 DEF ActsOf

\* Types under the steps that save.
LEMMA TypeClones ==
  ASSUME SessionTypeOK, NEW s \in Sessions, ClonesOf(s)
  PROVE  SessionTypeOK'
<1>1. \E by \in Savers : Clone(s, by)
  BY DEF ClonesOf, InitialSave, FinalSave, StopSave, ReloadSaves, Savers
<1>2. saves' \subseteq Sessions \X Savers \X SessionStatuses
  BY <1>1, Clones
<1>3. CASE InitialSave(s)
  BY <1>2, <1>3 DEF SessionTypeOK, InitialSave
<1>4. CASE FinalSave(s)
  BY <1>2, <1>4 DEF SessionTypeOK, FinalSave
<1>5. CASE StopSave(s)
  BY <1>2, <1>5 DEF SessionTypeOK, StopSave
<1>6. CASE ReloadSaves(s)
  BY <1>2, <1>6 DEF SessionTypeOK, ReloadSaves, sessionWork
<1> QED
  BY <1>3, <1>4, <1>5, <1>6 DEF ClonesOf

\* Types under the writes.
LEMMA TypeWrites ==
  ASSUME SessionTypeOK, NEW s \in Sessions, SavesOf(s)
  PROVE  SessionTypeOK'
<1>1. PICK by \in Savers : WriteSave(s, by)
  BY DEF SavesOf
<1>2. disk' \in [Sessions -> SessionStatuses] /\ saves' \subseteq saves
  BY <1>1, Writes DEF WriteSave
<1> QED
  BY <1>1, <1>2 DEF SessionTypeOK, WriteSave, sessionWork

\* Types under a restart.
LEMMA TypeRestart ==
  ASSUME SessionTypeOK, RestartSessions
  PROVE  SessionTypeOK'
<1>1. /\ disk' \in [Sessions -> SessionStatuses]
      /\ status' \in [Sessions -> SessionStatuses]
      /\ proc' \in [Sessions -> {"none", "alive", "dead"}]
  BY DEF SessionTypeOK, RestartSessions, SessionStatuses, Ends
<1>2. sessionCrashes' \in 0..MaxSessionCrashes
  BY SessionAssumption DEF SessionTypeOK, RestartSessions
<1>3. /\ launcher' = [s \in Sessions |-> "none"] /\ runner' = [s \in Sessions |-> "none"]
      /\ stopper' = [s \in Sessions |-> "none"]
      /\ hooked' = {} /\ cancelledSessions' = {} /\ saves' = {}
      /\ known' \subseteq Sessions /\ ended' \subseteq Sessions
  BY DEF RestartSessions
<1> QED
  BY <1>1, <1>2, <1>3 DEF SessionTypeOK

----------------------------------------------------------------------------
(* The invariant. *)

\* The first state.
LEMMA SessionInitially == SessionInit => SessionIInv
BY SessionAssumption
   DEF SessionInit, SessionIInv, SessionTypeOK, SessionStatuses, AtSession, Reaped

\* A session that the steps of another one leave alone.
SameSession(t) ==
  /\ proc'[t] = proc[t] /\ status'[t] = status[t] /\ disk'[t] = disk[t]
  /\ t \in ended' <=> t \in ended
  /\ t \in known' <=> t \in known
  /\ launcher'[t] = launcher[t] /\ runner'[t] = runner[t] /\ stopper'[t] = stopper[t]
  /\ \A c \in saves' : c[1] = t => c \in saves

\* It is kept at a session that is left alone.
LEMMA SameSessionKept ==
  ASSUME NEW t, AtSession(t), SameSession(t)
  PROVE  AtSession(t)'
BY DEF AtSession, SameSession, Reaped

\* A step of a session leaves the others alone.
LEMMA OthersSame ==
  ASSUME SessionTypeOK, NEW s \in Sessions, StepOf(s), NEW t \in Sessions, t # s
  PROVE  SameSession(t)
<1>1. CASE ActsOf(s)
  BY <1>1 DEF ActsOf, LaunchSession, ProbePasses, ProbeFails, ProcessExits, CancelKills,
              RunnerStops,
              OutputEnds, RunnerWaits, RunnerEnds, StopSession, KillSession, ReloadForgets,
              sessionWork, SessionTypeOK, SameSession
<1>2. CASE ClonesOf(s)
  <2>1. \E by \in Savers : Clone(s, by)
    BY <1>2 DEF ClonesOf, InitialSave, FinalSave, StopSave, ReloadSaves, Savers
  <2>2. \A c \in saves' : c[1] = t => c \in saves
    BY <2>1, Clones
  <2> QED
    BY <1>2, <2>2 DEF ClonesOf, InitialSave, FinalSave, StopSave, ReloadSaves, sessionWork,
                      SessionTypeOK, SameSession
<1>3. CASE SavesOf(s)
  <2>1. PICK by \in Savers : WriteSave(s, by)
    BY <1>3 DEF SavesOf
  <2>2. disk'[t] = disk[t] /\ saves' \subseteq saves
    BY <2>1, Writes DEF WriteSave
  <2> QED
    BY <2>1, <2>2 DEF WriteSave, sessionWork, SameSession
<1> QED
  BY <1>1, <1>2, <1>3, SessionCases

\* The steps of a session keep the invariant there.
LEMMA OwnKept ==
  ASSUME SessionTypeOK, NEW s \in Sessions, AtSession(s), StepOf(s)
  PROVE  AtSession(s)'
<1>1. CASE LaunchSession(s)
  BY <1>1 DEF LaunchSession, SessionTypeOK, AtSession, Reaped
<1>2. CASE ProbePasses(s) \/ ProbeFails(s)
  BY <1>2 DEF ProbePasses, ProbeFails, SessionTypeOK, AtSession, Reaped
<1>3. CASE ProcessExits(s) \/ CancelKills(s)
  BY <1>3 DEF ProcessExits, CancelKills, sessionWork, SessionTypeOK, AtSession, Reaped
<1>4. CASE RunnerStops(s)
  BY <1>4 DEF RunnerStops, SessionTypeOK, AtSession, Reaped
<1>5. CASE OutputEnds(s) \/ RunnerWaits(s)
  BY <1>5 DEF OutputEnds, RunnerWaits, SessionTypeOK, AtSession, Reaped
<1>6. CASE RunnerEnds(s)
  BY <1>6 DEF RunnerEnds, SessionTypeOK, AtSession, Reaped
<1>7. CASE StopSession(s)
  BY <1>7 DEF StopSession, SessionTypeOK, AtSession, Reaped
<1>8. CASE KillSession(s)
  BY <1>8 DEF KillSession, SessionTypeOK, AtSession, Reaped
<1>9. CASE ReloadForgets(s)
  BY <1>9 DEF ReloadForgets, sessionWork, SessionTypeOK, AtSession, Reaped
<1>10. CASE ClonesOf(s)
  BY <1>10 DEF ClonesOf, InitialSave, FinalSave, StopSave, ReloadSaves, sessionWork, SessionTypeOK,
               AtSession, Reaped
<1>11. CASE SavesOf(s)
  <2>1. PICK by \in Savers : WriteSave(s, by)
    BY <1>11 DEF SavesOf
  <2>2. (\E c \in saves : c[1] = s) /\ saves' \subseteq saves
    BY <2>1, Writes DEF WriteSave
  <2> QED
    BY <2>1, <2>2 DEF WriteSave, sessionWork, AtSession, Reaped
<1> QED
  BY <1>1, <1>2, <1>3, <1>4, <1>5, <1>6, <1>7, <1>8, <1>9, <1>10, <1>11, SessionCases DEF ActsOf

\* A restart keeps it: no session has a runner then.
LEMMA RestartKept ==
  ASSUME SessionTypeOK, NEW s \in Sessions, AtSession(s), RestartSessions
  PROVE  AtSession(s)'
<1>1. runner'[s] = "none" /\ launcher'[s] = "none" /\ stopper'[s] = "none" /\ saves' = {}
  BY DEF RestartSessions
<1>2. proc'[s] = "none" => proc[s] = "none"
  BY DEF RestartSessions
<1>3. disk[s] = "none" => /\ disk'[s] = "none" /\ status'[s] = "none"
                          /\ s \notin ended' /\ s \notin known'
  BY DEF RestartSessions
<1> QED
  BY <1>1, <1>2, <1>3 DEF AtSession, Reaped

\* The invariant is inductive.
LEMMA SessionStep == SessionIInv /\ [SessionNext]_sessionVars => SessionIInv'
<1> SUFFICES ASSUME SessionIInv, [SessionNext]_sessionVars PROVE SessionIInv'
  OBVIOUS
<1>1. SessionTypeOK /\ \A s \in Sessions : AtSession(s)
  BY DEF SessionIInv
<1> SUFFICES SessionTypeOK' /\ \A s \in Sessions : AtSession(s)'
  BY DEF SessionIInv
<1>2. ASSUME NEW s \in Sessions, StepOf(s)
      PROVE  SessionTypeOK' /\ \A t \in Sessions : AtSession(t)'
  <2>1. SessionTypeOK'
    BY <1>1, <1>2, SessionCases, TypeActs, TypeClones, TypeWrites
  <2>2. ASSUME NEW t \in Sessions PROVE AtSession(t)'
    <3>1. CASE t = s
      BY <1>1, <1>2, <3>1, OwnKept
    <3>2. CASE t # s
      <4>1. SameSession(t)
        BY <1>1, <1>2, <3>2, OthersSame
      <4> QED
        BY <1>1, <4>1, SameSessionKept
    <3> QED
      BY <3>1, <3>2
  <2> QED
    BY <2>1, <2>2
<1>3. CASE RestartSessions
  BY <1>1, <1>3, TypeRestart, RestartKept
<1>4. CASE UNCHANGED sessionVars
  <2>1. \A t \in Sessions : SameSession(t)
    BY <1>4 DEF sessionVars, sessionWork, SameSession
  <2>2. SessionTypeOK'
    BY <1>1, <1>4 DEF sessionVars, sessionWork, SessionTypeOK
  <2> QED
    BY <1>1, <2>1, <2>2, SameSessionKept
<1> QED
  BY <1>2, <1>3, <1>4 DEF SessionNext, StepOf

\* So it holds in every run of any number of sessions.
THEOREM SessionInvariant == SessionSpec => []SessionIInv
BY SessionInitially, SessionStep, PTL DEF SessionSpec

\* The goroutines of launch, runner, Stop and reload keep the sessions and the
\* rows of the store well-formed.
THEOREM SessionTypeCorrect == SessionSpec => []SessionTypeOK
<1>1. SessionIInv => SessionTypeOK
  BY DEF SessionIInv
<1> QED
  BY <1>1, SessionInvariant, PTL

\* A process that this run of the program started belongs to a session that can
\* be found and stopped, or its launch still decides: neither a failed launch
\* (runner.go:213) nor the reload (manager_lifecycle.go:646) forgets a live one.
THEOREM NoSessionIsForgotten == SessionSpec => []NothingForgottenAlive
<1>1. SessionIInv => NothingForgottenAlive
  BY DEF SessionIInv, AtSession, NothingForgottenAlive
<1> QED
  BY <1>1, SessionInvariant, PTL

\* A step changes an end of session t only from stopped to errored.
FinalAt(t) ==
  Terminal(t) /\ status'[t] # status[t] => status[t] = "stopped" /\ status'[t] = "errored"

\* So do the steps of the session.
LEMMA EndsStay ==
  ASSUME SessionTypeOK, NEW s \in Sessions, AtSession(s), StepOf(s)
  PROVE  FinalAt(s)
<1>1. CASE LaunchSession(s)
  BY <1>1 DEF LaunchSession, AtSession, FinalAt, Terminal, Ends
<1>2. CASE RunnerStops(s)
  BY <1>2 DEF RunnerStops, SessionTypeOK, AtSession, FinalAt, Terminal, Ends
<1>3. CASE RunnerEnds(s)
  BY <1>3 DEF RunnerEnds, FinalStatuses, SessionTypeOK, AtSession, FinalAt, Terminal, Ends
<1>4. CASE StopSession(s)
  BY <1>4 DEF StopSession, FinalAt, Terminal, Ends
<1>5. CASE \/ ProbePasses(s) \/ ProbeFails(s) \/ ProcessExits(s) \/ CancelKills(s)
           \/ OutputEnds(s) \/ RunnerWaits(s) \/ KillSession(s) \/ ReloadForgets(s)
  BY <1>5 DEF ProbePasses, ProbeFails, ProcessExits, CancelKills, OutputEnds, RunnerWaits,
              KillSession, ReloadForgets, FinalAt
<1>6. CASE ClonesOf(s) \/ SavesOf(s)
  BY <1>6 DEF ClonesOf, InitialSave, FinalSave, StopSave, ReloadSaves, SavesOf, WriteSave, FinalAt
<1> QED
  BY <1>1, <1>2, <1>3, <1>4, <1>5, <1>6, SessionCases DEF ActsOf

\* A step of the session changes a final status only so, one of another not at all.
LEMMA FinalStays ==
  ASSUME SessionIInv, [SessionNext]_sessionVars, sessionCrashes' = sessionCrashes,
         NEW t \in Sessions
  PROVE  FinalAt(t)
<1>1. SessionTypeOK /\ \A s \in Sessions : AtSession(s)
  BY DEF SessionIInv
<1>2. ASSUME NEW s \in Sessions, StepOf(s) PROVE FinalAt(t)
  <2>1. CASE t = s
    BY <1>1, <1>2, <2>1, EndsStay
  <2>2. CASE t # s
    <3>1. SameSession(t)
      BY <1>1, <1>2, <2>2, OthersSame
    <3> QED
      BY <3>1 DEF SameSession, FinalAt
  <2> QED
    BY <2>1, <2>2
<1>3. ~RestartSessions
  BY <1>1 DEF RestartSessions, SessionTypeOK
<1>4. CASE UNCHANGED sessionVars
  BY <1>4 DEF sessionVars, FinalAt
<1> QED
  BY <1>2, <1>3, <1>4 DEF SessionNext, StepOf

\* However a Stop, an end of its own and a late save cross, a session that has
\* ended keeps its end, but for a stopped one whose output tells of an exhausted
\* quota (runner.go:299, 325, 333).
THEOREM EndsAreFinal == SessionSpec => TerminalIsFinal
<1>1. SessionIInv /\ [SessionNext]_sessionVars =>
        [sessionCrashes' = sessionCrashes => \A s \in Sessions :
           Terminal(s) /\ status'[s] # status[s] =>
             status[s] = "stopped" /\ status'[s] = "errored"]_sessionVars
  BY FinalStays DEF FinalAt
<1> QED
  BY <1>1, SessionInvariant, PTL DEF SessionSpec, TerminalIsFinal

------------------------------------------------------------------------------
(* The loops. *)

\* Only RunLoop steps, as long as nobody steps by hand.
OnlyRunLoopSteps ==
  ~everByHand => \A s \in LoopSteppers : s # "run" => stepCall[s] = NoStep

\* RunLoop has a step under way exactly while it waits for one.
RunLoopWaitsForItsStep ==
  "run" \in LoopSteppers => (stepCall["run"] # NoStep <=> RunAt("stepping"))

\* A stop that found a RunLoop returns after its end; one that came before it
\* leaves a loop that RunLoop finds stopped.
StopIsSeen ==
  ~everByHand =>
    /\ stopCall.at = "returned" /\ stopCall.waits => RunAt("done")
    /\ stopCall.at # "none" /\ ~stopCall.waits =>
         \/ RunAt("done")
         \/ loopStatus = "stopped" /\ runCall.at \in {"none", "top", "limits", "step", "failed"}

\* A RunLoop that has not ended has a cycle of recoveries left.
CycleLeft == RunAt("done") \/ runCall.restarts < MaxRestartCycles

\* RunLoop is there to have begun.
RunLoopExists == "run" \notin LoopSteppers => RunAt("none")

LoopRunIInv ==
  /\ LoopRunTypeOK
  /\ OnlyRunLoopSteps /\ RunLoopWaitsForItsStep /\ StopIsSeen /\ CycleLeft /\ RunLoopExists

-----------------------------------------------------------------------------
(* Types. *)

StepType == [at : StepStages, index : 0..MaxIterations]
RunType == [at : RunStages, recoveries : 0..MaxRecoveries,
            restarts : 0..MaxRestartCycles, max : Nat]
StopType == [at : {"none", "cancel", "wait", "returned"}, waits : BOOLEAN]

LEMMA LoopRunTypes ==
  LoopRunTypeOK <=>
    /\ loopStatus \in LoopStatuses
    /\ iterations \in Seq(IterationStatuses) /\ Len(iterations) <= MaxIterations
    /\ loopPaused \in BOOLEAN
    /\ runCall \in RunType
    /\ loopCancelled \in BOOLEAN
    /\ stepCall \in [LoopSteppers -> StepType]
    /\ stopCall \in StopType
    /\ everByHand \in BOOLEAN
BY DEF LoopRunTypeOK, StepType, RunType, StopType

LEMMA LargerOfTwo ==
    ASSUME NEW a \in Nat, NEW b \in Nat
    PROVE  Max({a, b}) \in Nat
<1>1. \E x \in {a, b} : \A y \in {a, b} : x >= y
  <2>1. CASE a >= b
    BY <2>1
  <2>2. CASE b >= a
    BY <2>2
  <2> QED
    BY <2>1, <2>2
<1>2. Max({a, b}) \in {a, b}
  BY <1>1 DEF Max
<1> QED
  BY <1>2

\* The status of an iteration is overwritten.
LEMMA IterationSet ==
    ASSUME LoopRunTypeOK, NEW i, NEW a \in IterationStatuses
    PROVE  LET its == [iterations EXCEPT ![i] = a]
           IN its \in Seq(IterationStatuses) /\ Len(its) = Len(iterations)
<1>1. iterations \in Seq(IterationStatuses) /\ DOMAIN iterations = 1..Len(iterations)
       /\ iterations \in [1..Len(iterations) -> IterationStatuses]
  BY LenProperties DEF LoopRunTypeOK
<1>2. CASE i \in 1..Len(iterations)
  BY <1>1, <1>2, ExceptSeq
<1>3. CASE i \notin 1..Len(iterations)
  <2>1. [iterations EXCEPT ![i] = a] = iterations
    BY <1>1, <1>3
  <2> QED
    BY <1>1, <2>1
<1> QED
  BY <1>2, <1>3

\* An iteration is added.
LEMMA IterationAdded ==
    ASSUME LoopRunTypeOK, Len(iterations) < MaxIterations
    PROVE  LET its == Append(iterations, "analyzing")
           IN /\ its \in Seq(IterationStatuses)
              /\ Len(its) = Len(iterations) + 1 /\ Len(its) \in 0..MaxIterations
<1>1. "analyzing" \in IterationStatuses
  BY DEF IterationStatuses
<1>2. MaxIterations \in Nat /\ Len(iterations) \in Nat
  BY LoopRunAssumption DEF LoopRunTypeOK
<1> QED
  BY <1>1, <1>2 DEF LoopRunTypeOK

\* Iterations are marked as failed.
LEMMA IterationsFailed ==
    ASSUME LoopRunTypeOK, NEW S
    PROVE  LET its == [i \in DOMAIN iterations |-> IF i \in S THEN "failed" ELSE iterations[i]]
           IN its \in Seq(IterationStatuses) /\ Len(its) = Len(iterations)
<1>1. "failed" \in IterationStatuses
  BY DEF IterationStatuses
<1>2. iterations \in Seq(IterationStatuses) /\ DOMAIN iterations = 1..Len(iterations)
       /\ Len(iterations) \in Nat
       /\ iterations \in [1..Len(iterations) -> IterationStatuses]
  BY LenProperties DEF LoopRunTypeOK
<1> DEFINE its == [i \in 1..Len(iterations) |-> IF i \in S THEN "failed" ELSE iterations[i]]
<1>3. its \in [1..Len(iterations) -> IterationStatuses] /\ DOMAIN its = 1..Len(iterations)
  BY <1>1, <1>2
<1>4. its \in Seq(IterationStatuses)
  <2> DEFINE n == Len(iterations)
  <2>1. n \in Nat /\ its \in [1..n -> IterationStatuses]
    BY <1>2, <1>3
  <2>2. Seq(IterationStatuses) = UNION {[1..k -> IterationStatuses] : k \in Nat}
    BY SeqDef
  <2> HIDE DEF its, n
  <2> QED
    BY <2>1, <2>2, Zenon
<1>5. Len(its) \in Nat /\ DOMAIN its = 1..Len(its)
  BY <1>4, LenProperties, Zenon
<1> HIDE DEF its
<1>6. Len(its) = Len(iterations)
  BY <1>2, <1>3, <1>5
<1> QED
  BY <1>2, <1>4, <1>6 DEF its

LEMMA Goto ==
    ASSUME LoopRunTypeOK, NEW a \in RunStages, RunGoto(a)
    PROVE  /\ runCall' \in RunType /\ runCall'.at = a
           /\ runCall'.restarts = runCall.restarts
BY DEF LoopRunTypeOK, RunType, RunGoto

\* What a step tells RunLoop.
LEMMA Returned ==
    ASSUME LoopRunTypeOK, NEW s \in LoopSteppers, NEW a \in RunStages, StepReturnsTo(s, a)
    PROVE  /\ runCall' \in RunType
           /\ runCall'.restarts = runCall.restarts
           /\ s = "run" => runCall'.at = a
           /\ s # "run" => runCall' = runCall
<1>1. CASE s = "run"
  BY <1>1, Goto DEF StepReturnsTo
<1>2. CASE s # "run"
  BY <1>2 DEF StepReturnsTo, LoopRunTypeOK, RunType
<1> QED
  BY <1>1, <1>2

\* A step is over.
LEMMA DoneStep ==
    ASSUME LoopRunTypeOK, NEW s \in LoopSteppers, StepDone(s)
    PROVE  /\ stepCall' \in [LoopSteppers -> StepType]
           /\ stepCall'[s] = NoStep
           /\ \A t \in LoopSteppers : t # s => stepCall'[t] = stepCall[t]
<1>1. NoStep \in StepType
  <2>1. 0 \in 0..MaxIterations
    BY LoopRunAssumption
  <2> QED
    BY <2>1 DEF NoStep, StepType, StepStages
<1> QED
  BY <1>1 DEF StepDone, LoopRunTypeOK, StepType

LEMMA RunStageNames ==
  \A a \in {"none", "top", "limits", "step", "stepping", "failed", "stepped", "backoff", "done"} :
     a \in RunStages
BY DEF RunStages

LEMMA StatusNames ==
  /\ LoopStatuses = {"pending", "running", "idle", "pending_review", "failed",
                     "completed", "stopped", "converged"}
  /\ {"idle", "pending_review", "failed", "analyzing", "planning", "executing",
      "verifying"} = IterationStatuses
BY DEF LoopStatuses, IterationStatuses, ActiveStatuses

\* The iteration of a step gets a status.
LEMMA SetStatus ==
    ASSUME LoopRunTypeOK, NEW s, NEW a \in IterationStatuses,
           iterations' = [iterations EXCEPT ![stepCall[s].index] = a]
    PROVE  iterations' \in Seq(IterationStatuses) /\ Len(iterations') <= MaxIterations
<1>1. iterations' \in Seq(IterationStatuses) /\ Len(iterations') = Len(iterations)
  BY IterationSet
<1> QED
  BY <1>1 DEF LoopRunTypeOK

\* The actions of a step.
LEMMA TypeStepCall ==
    ASSUME LoopRunTypeOK, NEW s \in LoopSteppers, StepCallSteps(s)
    PROVE  LoopRunTypeOK'
<1> SUFFICES /\ loopStatus' \in LoopStatuses
             /\ iterations' \in Seq(IterationStatuses) /\ Len(iterations') <= MaxIterations
             /\ loopPaused' \in BOOLEAN
             /\ runCall' \in RunType
             /\ loopCancelled' \in BOOLEAN
             /\ stepCall' \in [LoopSteppers -> StepType]
             /\ stopCall' \in StopType
             /\ everByHand' \in BOOLEAN
  BY DEF LoopRunTypeOK, StepType, RunType, StopType
<1>1. /\ stepCall[s].at \in StepStages /\ stepCall[s] \in StepType
      /\ stepCall \in [LoopSteppers -> StepType] /\ runCall \in RunType /\ stopCall \in StopType
      /\ loopStatus \in LoopStatuses /\ everByHand \in BOOLEAN
      /\ loopPaused \in BOOLEAN /\ loopCancelled \in BOOLEAN
      /\ iterations \in Seq(IterationStatuses) /\ Len(iterations) <= MaxIterations
  BY LoopRunTypes DEF StepType
<1>2. \A a \in {"failed", "stepped", "stepping"} :
         StepReturnsTo(s, a) => runCall' \in RunType
  BY Returned, RunStageNames
<1>3. StepDone(s) => stepCall' \in [LoopSteppers -> StepType]
  BY DoneStep
<1>4. \A a \in IterationStatuses :
         iterations' = [iterations EXCEPT ![stepCall[s].index] = a] =>
           iterations' \in Seq(IterationStatuses) /\ Len(iterations') <= MaxIterations
  BY SetStatus
<1>5. CASE StepEnds(s)
  BY <1>1, <1>2, <1>5, StatusNames DEF StepEnds, CallsStep
<1>6. CASE StepBegins(s)
  <2>1. Len(iterations) + 1 \in 0..MaxIterations
    BY <1>6, IterationAdded DEF StepBegins
  <2>2. stepCall' \in [LoopSteppers -> StepType]
    BY <1>1, <1>6, <2>1 DEF StepBegins, StepType, StepStages
  <2>3. iterations' \in Seq(IterationStatuses) /\ Len(iterations') <= MaxIterations
    BY <1>6, IterationAdded, LoopRunAssumption DEF StepBegins
  <2> QED
    BY <1>1, <1>2, <1>6, <2>2, <2>3, StatusNames DEF StepBegins, CallsStep
<1>7. CASE StepUpdates(s)
  <2>1. stepCall[s].at \in IterationStatuses
    BY <1>7, StatusNames DEF StepUpdates, StepWorks, NextStage
  <2> QED
    BY <1>1, <1>4, <1>7, <2>1, StatusNames DEF StepUpdates, UpdateLoopIteration, loopCalls
<1>8. CASE StepAdvances(s)
  <2>1. NextStage[stepCall[s].at] \in {"planning", "executing", "verifying"}
    BY <1>8 DEF StepAdvances, StepWorks, NextStage
  <2>2. stepCall' \in [LoopSteppers -> StepType]
    BY <1>8, <2>1, <1>1 DEF StepAdvances, StepType, StepStages, ActiveStatuses
  <2> QED
    BY <1>1, <1>4, <1>8, <2>1, <2>2, StatusNames DEF StepAdvances, UpdateLoopIteration
<1>9. CASE StepFails(s)
  BY <1>1, <1>2, <1>3, <1>4, <1>9, StatusNames DEF StepFails, UpdateAfterVerification
<1>10. CASE StepIsNoop(s)
  BY <1>1, <1>2, <1>3, <1>4, <1>10, StatusNames DEF StepIsNoop, UpdateLoopIteration
<1>11. CASE StepVerified(s)
  <2>1. stepCall' \in [LoopSteppers -> StepType]
    BY <1>1, <1>11 DEF StepVerified, StepType, StepStages
  <2> QED
    BY <1>1, <1>4, <1>11, <2>1, StatusNames DEF StepVerified, UpdateAfterVerification
<1>12. CASE StepAccepted(s)
  BY <1>1, <1>2, <1>3, <1>12, StatusNames DEF StepAccepted
<1> QED
  BY <1>5, <1>6, <1>7, <1>8, <1>9, <1>10, <1>11, <1>12 DEF StepCallSteps, StepProgress

\* The steps of RunLoop between two steps of the loop.
BetweenSteps ==
  \/ RunLoop \/ RunCancelled \/ RunGoesOn
  \/ OverBudget \/ EstimateDepth \/ TurnsUsedUp \/ ExtendTurns \/ TurnsLeft
  \/ StepRefused \/ AfterFailure \/ BackoffOver \/ AfterSuccess \/ RunConverges

\* What happens to the loop from outside.
FromOutside == FailStalled \/ StopRun \/ StopCancels \/ StopRunReturns \/ PauseLoop

LEMMA NextIsOneOf ==
  LoopRunNext => BetweenSteps \/ FromOutside \/ \E s \in LoopSteppers : StepCallSteps(s)
<1>1. StepEnds("run") \/ StepBegins("run") => \E s \in LoopSteppers : StepCallSteps(s)
  BY DEF StepEnds, StepBegins, MayCallStep, StepCallSteps
<1> QED
  BY <1>1 DEF LoopRunNext, RunLoopSteps, BetweenSteps, FromOutside

\* An estimate or an extension of the number of iterations.
LEMMA Estimates ==
  ASSUME LoopRunTypeOK
  PROVE  /\ \A d \in MinDepth..MaxDepth : Max({d, MaxTurns}) \in Nat
         /\ EffectiveMax + Extension \in Nat
<1>1. MaxTurns \in Nat /\ Extension \in Nat /\ \A d \in MinDepth..MaxDepth : d \in Nat
  BY LoopRunAssumption
<1>2. runCall.max \in Nat
  BY LoopRunTypes DEF RunType
<1>3. EffectiveMax \in Nat
  BY <1>1, <1>2, LargerOfTwo DEF EffectiveMax
<1> QED
  BY <1>1, <1>3, LargerOfTwo

\* RunLoop keeps its counters within their limits.
LEMMA TypeBetween ==
    ASSUME LoopRunTypeOK, CycleLeft, BetweenSteps
    PROVE  runCall' \in RunType /\ CycleLeft'
<1>1. /\ runCall \in RunType
      /\ runCall.recoveries \in 0..MaxRecoveries /\ runCall.restarts \in 0..MaxRestartCycles
      /\ MaxRecoveries \in Nat /\ MaxRestartCycles \in Nat \ {0}
      /\ 0 \in 0..MaxRecoveries
  BY LoopRunTypes, LoopRunAssumption DEF RunType
<1>2. \A a \in RunStages : RunGoto(a) /\ (a = "done" \/ ~RunAt("done")) =>
         runCall' \in RunType /\ CycleLeft'
  BY Goto DEF CycleLeft, RunAt
<1>3. CASE RunLoop \/ RunCancelled \/ RunGoesOn \/ OverBudget \/ TurnsUsedUp \/ TurnsLeft
            \/ StepRefused \/ BackoffOver \/ RunConverges
  BY <1>2, <1>3, RunStageNames
     DEF RunLoop, RunCancelled, RunGoesOn, OverBudget, TurnsUsedUp, TurnsLeft, Estimated,
         StepRefused, MayCallStep, BackoffOver, RunConverges, RunEndsWith, RunAt
<1>4. CASE EstimateDepth
  <2>1. PICK d \in MinDepth..MaxDepth : runCall' = [runCall EXCEPT !.max = Max({d, MaxTurns})]
    BY <1>4 DEF EstimateDepth
  <2> QED
    BY <1>1, <2>1, Estimates DEF CycleLeft, RunType, RunAt
<1>5. CASE ExtendTurns
  BY <1>1, <1>5, Estimates DEF ExtendTurns, Estimated, CycleLeft, RunType, RunStages, RunAt
<1>6. CASE AfterSuccess
  BY <1>1, <1>6 DEF AfterSuccess, CycleLeft, RunType, RunStages, RunAt
<1>7. CASE AfterFailure
  <2>1. runCall.restarts < MaxRestartCycles
    BY <1>7 DEF AfterFailure, CycleLeft, RunAt
  <2>2. CASE RunGoto("done")
    BY <1>2, <2>2, RunStageNames
  <2>3. CASE /\ runCall.recoveries < MaxRecoveries
             /\ runCall' = [runCall EXCEPT !.recoveries = @ + 1, !.at = "backoff"]
    <3>1. runCall.recoveries + 1 \in 0..MaxRecoveries
      BY <1>1, <2>3
    <3> QED
      BY <1>1, <2>1, <2>3, <3>1 DEF CycleLeft, RunType, RunStages, RunAt
  <2>4. CASE RestartCycle
    <3>1. runCall.restarts + 1 \in 0..MaxRestartCycles
      BY <1>1, <2>1
    <3>2. runCall' \in RunType /\ runCall'.restarts = runCall.restarts + 1
      BY <1>1, <2>4, <3>1 DEF RestartCycle, RunType, RunStages
    <3>3. runCall'.at = IF runCall.restarts + 1 >= MaxRestartCycles THEN "done" ELSE "backoff"
      BY <1>1, <2>4 DEF RestartCycle, RunType
    <3> QED
      BY <1>1, <3>2, <3>3 DEF CycleLeft, RunAt
  <2> QED
    BY <1>7, <2>2, <2>3, <2>4 DEF AfterFailure
<1> QED
  BY <1>3, <1>4, <1>5, <1>6, <1>7 DEF BetweenSteps

LEMMA TypeStep ==
    ASSUME LoopRunTypeOK, CycleLeft, [LoopRunNext]_loopRunVars
    PROVE  LoopRunTypeOK'
<1> SUFFICES ASSUME ~ \E s \in LoopSteppers : StepCallSteps(s)
             PROVE  /\ loopStatus' \in LoopStatuses
                    /\ iterations' \in Seq(IterationStatuses) /\ Len(iterations') <= MaxIterations
                    /\ loopPaused' \in BOOLEAN
                    /\ runCall' \in RunType
                    /\ loopCancelled' \in BOOLEAN
                    /\ stepCall' \in [LoopSteppers -> StepType]
                    /\ stopCall' \in StopType
                    /\ everByHand' \in BOOLEAN
  BY TypeStepCall DEF LoopRunTypeOK, StepType, RunType, StopType
<1>1. /\ stepCall \in [LoopSteppers -> StepType] /\ runCall \in RunType /\ stopCall \in StopType
      /\ loopStatus \in LoopStatuses /\ everByHand \in BOOLEAN
      /\ loopPaused \in BOOLEAN /\ loopCancelled \in BOOLEAN
      /\ iterations \in Seq(IterationStatuses) /\ Len(iterations) <= MaxIterations
  BY LoopRunTypes
<1>2. CASE BetweenSteps
  <2>1. runCall' \in RunType
    BY <1>2, TypeBetween
  <2>2. loopStatus' \in LoopStatuses
    BY <1>1, <1>2, StatusNames
       DEF BetweenSteps, RunLoop, RunCancelled, RunGoesOn, OverBudget, EstimateDepth, TurnsUsedUp,
           ExtendTurns, TurnsLeft, StepRefused, AfterFailure, BackoffOver, AfterSuccess,
           RunConverges, RunEndsWith, loopData
  <2>3. UNCHANGED <<iterations, loopPaused, loopCancelled, stepCall, stopCall, everByHand>>
    BY <1>2
       DEF BetweenSteps, RunLoop, RunCancelled, RunGoesOn, OverBudget, EstimateDepth, TurnsUsedUp,
           ExtendTurns, TurnsLeft, StepRefused, AfterFailure, BackoffOver, AfterSuccess,
           RunConverges, RunEndsWith, loopData
  <2> QED
    BY <1>1, <2>1, <2>2, <2>3
<1>3. CASE FailStalled
  <2>1. PICK S : iterations' = [i \in DOMAIN iterations |->
                                  IF i \in S THEN "failed" ELSE iterations[i]]
    BY <1>3 DEF FailStalled
  <2>2. iterations' \in Seq(IterationStatuses) /\ Len(iterations') <= MaxIterations
    BY <1>1, <2>1, IterationsFailed
  <2> QED
    BY <1>1, <1>3, <2>2 DEF FailStalled, loopCalls
<1>4. CASE StopRun \/ StopCancels \/ StopRunReturns
  <2>1. stopCall' \in StopType
    <3>1. (~RunAt("none")) \in BOOLEAN
      BY DEF RunAt
    <3>2. CASE StopRun
      BY <3>1, <3>2 DEF StopRun, StopType
    <3>3. CASE StopCancels
      BY <1>1, <3>3 DEF StopCancels, StopType
    <3>4. CASE StopRunReturns
      BY <1>1, <3>4 DEF StopRunReturns, StopType
    <3> QED
      BY <1>4, <3>2, <3>3, <3>4
  <2>2. stopCall.waits \in BOOLEAN
    BY <1>1 DEF StopType
  <2>3. loopCancelled' \in BOOLEAN /\ loopStatus' \in LoopStatuses
    BY <1>1, <1>4, <2>2, StatusNames DEF StopRun, StopCancels, StopRunReturns, loopData
  <2> QED
    BY <1>1, <1>4, <2>1, <2>3 DEF StopRun, StopCancels, StopRunReturns, loopData
<1>5. CASE PauseLoop
  BY <1>1, <1>5 DEF PauseLoop, loopCalls
<1>6. CASE UNCHANGED loopRunVars
  BY <1>1, <1>6 DEF loopRunVars, loopData, loopCalls
<1> QED
  BY <1>2, <1>3, <1>4, <1>5, <1>6, NextIsOneOf DEF FromOutside

-----------------------------------------------------------------------------
(* A stop is seen. *)

\* Whoever is in a step has a step under way.
LEMMA WorksHasStep ==
    ASSUME NEW s, StepWorks(s) \/ stepCall[s].at = "accepting"
    PROVE  stepCall[s] # NoStep
BY DEF StepWorks, NextStage, NoStep

\* What a step does to the calls of the loop.
LEMMA StepEffects ==
    ASSUME LoopRunTypeOK, NEW s \in LoopSteppers, StepCallSteps(s)
    PROVE  /\ UNCHANGED stopCall
           /\ everByHand' = (everByHand \/ (s = "hand" /\ stepCall[s] = NoStep))
           /\ \A t \in LoopSteppers : t # s => stepCall'[t] = stepCall[t]
           /\ runCall'.restarts = runCall.restarts
           /\ s # "run" => runCall' = runCall
           /\ stepCall[s] = NoStep => loopStatus # "stopped" /\ (s = "run" => RunAt("step"))
           /\ s = "run" =>
                \/ stepCall'[s] # NoStep /\ runCall'.at = "stepping"
                \/ stepCall'[s] # NoStep /\ stepCall[s] # NoStep /\ runCall' = runCall
                \/ stepCall'[s] = NoStep /\ runCall'.at \in {"failed", "stepped"}
<1>1. /\ stepCall \in [LoopSteppers -> StepType] /\ everByHand \in BOOLEAN
      /\ stepCall[s] \in StepType
  BY LoopRunTypes
<1>2. \A a \in {"failed", "stepped", "stepping"} : StepReturnsTo(s, a) =>
         /\ runCall'.restarts = runCall.restarts
         /\ s = "run" => runCall'.at = a
         /\ s # "run" => runCall' = runCall
  BY Returned, RunStageNames
<1>3. CASE StepEnds(s)
  BY <1>1, <1>2, <1>3 DEF StepEnds, CallsStep, MayCallStep, Refuses
<1>4. CASE StepBegins(s)
  <2>1. stepCall'[s] = [at |-> "analyzing", index |-> Len(iterations) + 1]
         /\ \A t \in LoopSteppers : t # s => stepCall'[t] = stepCall[t]
    BY <1>1, <1>4 DEF StepBegins
  <2>2. stepCall'[s] # NoStep
    BY <2>1 DEF NoStep
  <2> QED
    BY <1>1, <1>2, <1>4, <2>1, <2>2 DEF StepBegins, CallsStep, MayCallStep, Refuses
<1>5. CASE StepUpdates(s)
  <2>1. stepCall[s] # NoStep
    BY <1>5, WorksHasStep DEF StepUpdates
  <2> QED
    BY <1>1, <1>5, <2>1 DEF StepUpdates, loopCalls
<1>6. CASE StepAdvances(s) \/ StepVerified(s)
  <2>1. stepCall[s] # NoStep
    BY <1>6, WorksHasStep DEF StepAdvances, StepVerified
  <2>2. stepCall'[s].at # "none"
    BY <1>1, <1>6 DEF StepAdvances, StepVerified, StepWorks, NextStage, StepType
  <2>3. stepCall'[s] # NoStep
    BY <2>2 DEF NoStep
  <2> QED
    BY <1>1, <1>6, <2>1, <2>3 DEF StepAdvances, StepVerified
<1>7. CASE StepFails(s) \/ StepIsNoop(s) \/ StepAccepted(s)
  <2>1. stepCall[s] # NoStep
    BY <1>7, WorksHasStep DEF StepFails, StepIsNoop, StepAccepted
  <2>2. /\ stepCall'[s] = NoStep
        /\ \A t \in LoopSteppers : t # s => stepCall'[t] = stepCall[t]
    BY <1>7, DoneStep DEF StepFails, StepIsNoop, StepAccepted
  <2> QED
    BY <1>1, <1>2, <1>7, <2>1, <2>2 DEF StepFails, StepIsNoop, StepAccepted
<1> QED
  BY <1>3, <1>4, <1>5, <1>6, <1>7 DEF StepCallSteps, StepProgress

\* A step is made by somebody else, or RunLoop waits for it and no stop has
\* returned or come before RunLoop.
LEMMA ControlStepCall ==
    ASSUME LoopRunIInv, NEW s \in LoopSteppers, StepCallSteps(s)
    PROVE  /\ OnlyRunLoopSteps' /\ RunLoopWaitsForItsStep' /\ StopIsSeen'
           /\ CycleLeft' /\ RunLoopExists'
<1>1. /\ LoopRunTypeOK /\ OnlyRunLoopSteps /\ RunLoopWaitsForItsStep /\ StopIsSeen
      /\ CycleLeft /\ RunLoopExists /\ everByHand \in BOOLEAN
  BY LoopRunTypes DEF LoopRunIInv
<1>2. ~everByHand' => ~everByHand /\ s = "run"
  <2>1. s = "run" \/ s = "hand"
    BY LoopRunAssumption
  <2> QED
    BY <1>1, <2>1, StepEffects DEF OnlyRunLoopSteps
<1>3. s = "run" => RunAt("stepping") \/ (RunAt("step") /\ loopStatus # "stopped")
  BY <1>1, StepEffects DEF RunLoopWaitsForItsStep
<1>4. OnlyRunLoopSteps'
  BY <1>1, <1>2, StepEffects DEF OnlyRunLoopSteps
<1>5. RunLoopWaitsForItsStep'
  BY <1>1, StepEffects DEF RunLoopWaitsForItsStep, RunAt
<1>6. StopIsSeen'
  <2>1. SUFFICES ASSUME ~everByHand'
                 PROVE  /\ stopCall.at # "none" => stopCall.waits
                        /\ stopCall.at # "returned"
    BY <1>1, StepEffects DEF StopIsSeen, RunAt
  <2> QED
    BY <1>1, <1>2, <1>3, <2>1 DEF StopIsSeen, RunAt
<1>7. CycleLeft'
  BY <1>1, <1>3, StepEffects DEF CycleLeft, RunAt
<1>8. RunLoopExists'
  BY <1>1, StepEffects DEF RunLoopExists, RunAt
<1> QED
  BY <1>4, <1>5, <1>6, <1>7, <1>8

\* RunLoop keeps to its stages, and finds a loop that was stopped before it.
LEMMA ControlBetween ==
    ASSUME LoopRunIInv, BetweenSteps
    PROVE  OnlyRunLoopSteps' /\ RunLoopWaitsForItsStep' /\ StopIsSeen' /\ RunLoopExists'
<1>1. /\ LoopRunTypeOK /\ OnlyRunLoopSteps /\ RunLoopWaitsForItsStep /\ StopIsSeen
      /\ RunLoopExists /\ runCall \in RunType
  BY LoopRunTypes DEF LoopRunIInv
<1>2. /\ UNCHANGED <<stepCall, stopCall, everByHand>>
      /\ ~RunAt("stepping") /\ ~RunAt("done")
      /\ "run" \in LoopSteppers \/ ~RunAt("none")
  BY DEF BetweenSteps, RunLoop, RunCancelled, RunGoesOn, OverBudget, EstimateDepth, TurnsUsedUp,
         ExtendTurns, TurnsLeft, StepRefused, AfterFailure, BackoffOver, AfterSuccess,
         RunConverges, RunEndsWith, Estimated, MayCallStep, RunAt
<1>3. runCall'.at # "stepping"
  BY <1>1
     DEF BetweenSteps, RunLoop, RunCancelled, RunGoesOn, OverBudget, EstimateDepth, TurnsUsedUp,
         ExtendTurns, TurnsLeft, StepRefused, AfterFailure, RestartCycle, BackoffOver,
         AfterSuccess, RunConverges, RunEndsWith, Estimated, MayCallStep, RunAt, RunGoto, RunType
<1>4. OnlyRunLoopSteps' /\ RunLoopWaitsForItsStep'
  BY <1>1, <1>2, <1>3 DEF OnlyRunLoopSteps, RunLoopWaitsForItsStep, RunAt
<1>5. RunLoopExists'
  BY <1>1, <1>2 DEF RunLoopExists, RunAt
<1>6. loopStatus = "stopped" /\ runCall.at \in {"none", "top", "limits", "step", "failed"} =>
        \/ runCall'.at = "done"
        \/ loopStatus' = "stopped" /\ runCall'.at \in {"top", "limits", "step", "failed"}
  BY <1>1
     DEF BetweenSteps, RunLoop, RunCancelled, RunGoesOn, OverBudget, EstimateDepth, TurnsUsedUp,
         ExtendTurns, TurnsLeft, StepRefused, AfterFailure, BackoffOver, AfterSuccess,
         RunConverges, RunEndsWith, Estimated, MayCallStep, RunAt, RunGoto, RunType, loopData
<1>7. StopIsSeen'
  BY <1>1, <1>2, <1>6 DEF StopIsSeen, RunAt
<1> QED
  BY <1>4, <1>5, <1>7

\* A stop sees whether there is a RunLoop to wait for.
LEMMA ControlOutside ==
    ASSUME LoopRunIInv, FromOutside \/ UNCHANGED loopRunVars
    PROVE  /\ OnlyRunLoopSteps' /\ RunLoopWaitsForItsStep' /\ StopIsSeen'
           /\ CycleLeft' /\ RunLoopExists'
<1>1. /\ LoopRunTypeOK /\ OnlyRunLoopSteps /\ RunLoopWaitsForItsStep /\ StopIsSeen
      /\ CycleLeft /\ RunLoopExists /\ stopCall \in StopType
  BY LoopRunTypes DEF LoopRunIInv
<1>2. UNCHANGED <<runCall, stepCall, everByHand>>
  BY DEF FromOutside, FailStalled, StopRun, StopCancels, StopRunReturns, PauseLoop, loopRunVars,
         loopCalls
<1>3. OnlyRunLoopSteps' /\ RunLoopWaitsForItsStep' /\ CycleLeft' /\ RunLoopExists'
  BY <1>1, <1>2 DEF OnlyRunLoopSteps, RunLoopWaitsForItsStep, CycleLeft, RunLoopExists, RunAt
<1>4. CASE StopRun
  <2>1. stopCall'.at = "cancel" /\ stopCall'.waits = ~RunAt("none") /\ loopStatus' = "stopped"
    BY <1>4 DEF StopRun
  <2>2. ~stopCall'.waits => runCall'.at = "none"
    BY <1>2, <2>1 DEF RunAt
  <2> QED
    BY <1>3, <2>1, <2>2 DEF StopIsSeen
<1>5. CASE StopCancels \/ StopRunReturns
  <2>1. stopCall'.waits = stopCall.waits /\ UNCHANGED loopStatus /\ stopCall.at # "none"
    BY <1>1, <1>5 DEF StopCancels, StopRunReturns, StopType, loopData
  <2>2. stopCall'.at = "returned" /\ stopCall.waits => RunAt("done")
    BY <1>1, <1>5 DEF StopCancels, StopRunReturns, StopType
  <2> QED
    BY <1>1, <1>2, <1>3, <2>1, <2>2 DEF StopIsSeen, RunAt
<1>6. CASE FailStalled \/ PauseLoop \/ UNCHANGED loopRunVars
  <2>1. UNCHANGED <<loopStatus, stopCall>>
    BY <1>6 DEF FailStalled, PauseLoop, loopRunVars, loopCalls, loopData
  <2> QED
    BY <1>1, <1>2, <1>3, <2>1 DEF StopIsSeen, RunAt
<1> QED
  BY <1>3, <1>4, <1>5, <1>6 DEF FromOutside

-----------------------------------------------------------------------------
(* The theorems. *)

LEMMA LoopRunBegins == LoopRunInit => LoopRunIInv
<1> SUFFICES ASSUME LoopRunInit
             PROVE  LoopRunIInv
  OBVIOUS
<1>1. 0 \in 0..MaxRecoveries /\ 0 \in 0..MaxRestartCycles /\ 0 \in 0..MaxIterations
       /\ 0 < MaxRestartCycles /\ 0 <= MaxIterations
  BY LoopRunAssumption
<1>2. NoStep \in StepType
  BY <1>1 DEF NoStep, StepType, StepStages
<1>3. runCall \in RunType
  BY <1>1, RunStageNames DEF LoopRunInit, RunType
<1>4. iterations \in Seq(IterationStatuses) /\ Len(iterations) = 0
  BY EmptySeq DEF LoopRunInit
<1>5. LoopRunTypeOK
  <2>1. stopCall \in StopType /\ stepCall \in [LoopSteppers -> StepType]
    BY <1>2 DEF LoopRunInit, StopType
  <2> QED
    BY <1>1, <1>3, <1>4, <2>1, StatusNames, LoopRunTypes DEF LoopRunInit
<1> QED
  BY <1>1, <1>5
     DEF LoopRunInit, LoopRunIInv, OnlyRunLoopSteps, RunLoopWaitsForItsStep, StopIsSeen, CycleLeft,
         RunLoopExists, RunAt

\* No action disturbs the invariant.
LEMMA LoopRunStep == LoopRunIInv /\ [LoopRunNext]_loopRunVars => LoopRunIInv'
<1> SUFFICES ASSUME LoopRunIInv, [LoopRunNext]_loopRunVars
             PROVE  LoopRunIInv'
  OBVIOUS
<1>1. LoopRunTypeOK'
  BY TypeStep DEF LoopRunIInv
<1>2. CASE BetweenSteps
  <2>1. CycleLeft'
    BY <1>2, TypeBetween DEF LoopRunIInv
  <2> QED
    BY <1>1, <1>2, <2>1, ControlBetween DEF LoopRunIInv
<1>3. CASE FromOutside \/ UNCHANGED loopRunVars
  BY <1>1, <1>3, ControlOutside DEF LoopRunIInv
<1>4. CASE \E s \in LoopSteppers : StepCallSteps(s)
  BY <1>1, <1>4, ControlStepCall DEF LoopRunIInv
<1> QED
  BY <1>2, <1>3, <1>4, NextIsOneOf

\* In every reachable state the invariant holds.
THEOREM LoopRunInvariant == LoopRunSpec => []LoopRunIInv
BY LoopRunBegins, LoopRunStep, PTL DEF LoopRunSpec

\* The state of a loop keeps its type: it never has more iterations than its
\* profile allows, and RunLoop never makes more recoveries and cycles of them
\* than the limits allow (loop_steps.go:57, loop.go:276-311).
THEOREM LoopRunTypeCorrect == LoopRunSpec => []LoopRunTypeOK
<1>1. LoopRunIInv => LoopRunTypeOK
  BY DEF LoopRunIInv
<1> QED
  BY <1>1, LoopRunInvariant, PTL

\* A RunLoop that StopLoop has waited for is not within a step.
LEMMA RunLoopSettled == LoopRunIInv => StopSettles
<1> SUFFICES ASSUME LoopRunIInv, stopCall.at = "returned", ~everByHand, NEW s \in LoopSteppers
             PROVE  stepCall[s] = NoStep
  BY DEF StopSettles
<1>1. ~RunAt("stepping")
  BY DEF LoopRunIInv, StopIsSeen, RunAt
<1> QED
  BY <1>1 DEF LoopRunIInv, OnlyRunLoopSteps, RunLoopWaitsForItsStep

\* When StopLoop has come back, no step of RunLoop is under way, as long as
\* nobody steps the loop by hand (loop.go:111, 527-540).
THEOREM StopsSettle == LoopRunSpec => []StopSettles
BY RunLoopSettled, LoopRunInvariant, PTL
=============================================================================
