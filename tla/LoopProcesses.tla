--------------------------- MODULE LoopProcesses ---------------------------
(***************************************************************************)
(* The process manager (src/internal/process): it starts one ralph loop    *)
(* per repository, watches it with a reaper goroutine, restarts it when it *)
(* fails, stops it with an escalating kill sequence, and re-adopts loops   *)
(* from their PID files when ralphglasses itself is restarted.             *)
(*                                                                         *)
(* m.mu is held for a whole Start, StopAll or Recover, so each is one      *)
(* action.  A reaper takes m.mu in several separate sections and removes   *)
(* the PID file outside of it: each section is an action of its own.       *)
(*                                                                         *)
(* Left out: log files, events and the notification channels, the child    *)
(* processes of a loop, a failing write of a PID file, reuse of a PID by   *)
(* the kernel.                                                             *)
(***************************************************************************)
EXTENDS Integers, FiniteSets

CONSTANTS
  Repos,        \* repositories with a ralph_loop.sh
  MaxPids,      \* bound: processes ever launched
  MaxRestarts,  \* Manager.MaxRestarts
  AutoRestart,  \* Manager.AutoRestart
  MaxCrashes    \* bound: restarts of ralphglasses itself

ASSUME LoopAssumption ==
  /\ Repos # {}
  /\ MaxPids \in Nat \ {0}
  /\ MaxRestarts \in Nat \ {0}
  /\ AutoRestart \in BOOLEAN
  /\ MaxCrashes \in Nat

VARIABLES
  procs,      \* Manager.procs: the tracked loop of a repository, or NoProc
  pidFile,    \* .ralph/ralphglasses.pid of a repository, 0 when there is none
  os,         \* what the kernel knows of a process
  home,       \* the repository a process was launched in
  failed,     \* ended processes with an exit code above 0, until it is looked at
  children,   \* the processes launched by this run of ralphglasses
  frozen,     \* processes under SIGSTOP
  signalled,  \* living children that were sent SIGTERM
  killers,    \* <<pid, stage>> of the kill sequences Stop has running
  cancelled,  \* the context of the interface, which every Start is given, is done
  reaper,     \* the reaper goroutine of a process
  grace,      \* the processes StopAllGraceful waits for
  exiting,    \* the interface is gone, ralphglasses is about to exit
  crashes,    \* times ralphglasses was restarted
  swept       \* history: repositories StopAll took an entry from

loopKernel == <<os, home, failed, children, frozen>>
loopSignals == <<signalled, killers, cancelled>>
loopExit == <<grace, exiting, crashes>>
loopVars == <<procs, pidFile, loopKernel, loopSignals, reaper, loopExit, swept>>

Pids == 1..MaxPids
NoProc == [pid |-> 0]
ProcType == [pid : Pids, recovered : BOOLEAN, stopping : BOOLEAN,
             paused : BOOLEAN, restarts : 0..MaxRestarts]
ReaperStages == {"none", "wait", "decide", "backoff", "relaunch", "adopt",
                 "forget", "unpid"}
ReaperType == [at : ReaperStages, restarts : 0..MaxRestarts, next : 0..MaxPids]
NoReaper == [at |-> "none", restarts |-> 0, next |-> 0]
NewReaper == [NoReaper EXCEPT !.at = "wait"]

Tracked(r) == procs[r] # NoProc
Live(p) == os[p] = "live"
\* aliveFn is signal 0, which succeeds on a zombie too (manager.go:154).
IsProcessAlive(p) == os[p] \in {"live", "zombie"}
Dead(p) == os[p] \in {"zombie", "gone"}
\* Where a process ends up when it exits: its parent has to wait for it, and
\* the parent of a loop that outlived ralphglasses is init.
Exited(p) == IF p \in children THEN "zombie" ELSE "gone"
\* The processes of P that a SIGTERM still tells something.
Reached(P) == {p \in P \cap children : Live(p)}
\* The kernel hands out a process id that was not in use.
FreshPid(p) == os[p] = "unborn" /\ \A q \in Pids : q < p => os[q] # "unborn"
Entry(p, n) == [pid |-> p, recovered |-> FALSE, stopping |-> FALSE,
                paused |-> FALSE, restarts |-> n]

LoopTypeOK ==
  /\ procs \in [Repos -> ProcType \cup {NoProc}]
  /\ pidFile \in [Repos -> 0..MaxPids]
  /\ os \in [Pids -> {"unborn", "live", "zombie", "gone"}]
  /\ home \in [Pids -> Repos]
  /\ failed \subseteq Pids
  /\ children \subseteq Pids /\ frozen \subseteq Pids
  /\ signalled \subseteq Pids /\ cancelled \in BOOLEAN
  /\ killers \subseteq Pids \X {"term", "kill"}
  /\ reaper \in [Pids -> ReaperType]
  /\ grace \subseteq Pids
  /\ exiting \in BOOLEAN
  /\ crashes \in 0..MaxCrashes
  /\ swept \subseteq Repos

LoopInit ==
  /\ procs = [r \in Repos |-> NoProc]
  /\ pidFile = [r \in Repos |-> 0]
  /\ os = [p \in Pids |-> "unborn"]
  /\ home = [p \in Pids |-> CHOOSE r \in Repos : TRUE]
  /\ failed = {}
  /\ children = {} /\ frozen = {}
  /\ signalled = {} /\ killers = {} /\ cancelled = FALSE
  /\ reaper = [p \in Pids |-> NoReaper]
  /\ grace = {} /\ exiting = FALSE /\ crashes = 0
  /\ swept = {}

----------------------------------------------------------------------------
(* The kernel. *)

\* Mutant: a restarted loop is not written to the PID file.
SpawnUnwritten(r, p) ==
  /\ FreshPid(p)
  /\ os' = [os EXCEPT ![p] = "live"]
  /\ home' = [home EXCEPT ![p] = r]
  /\ children' = children \cup {p}
  /\ pidFile' = [pidFile EXCEPT ![r] = IF @ = 0 THEN p ELSE @]
  /\ UNCHANGED <<failed, frozen>>

\* exec.Cmd.Start of the loop script in repository r as process p, with the
\* PID file written right after.
Spawn(r, p) ==
  /\ FreshPid(p)
  /\ os' = [os EXCEPT ![p] = "live"]
  /\ home' = [home EXCEPT ![p] = r]
  /\ children' = children \cup {p}
  /\ pidFile' = [pidFile EXCEPT ![r] = p]
  /\ UNCHANGED <<failed, frozen>>

\* The set P of processes gets SIGKILL, which also ends a frozen process.
Kill(P) ==
  /\ os' = [p \in Pids |-> IF p \in P /\ Live(p) THEN Exited(p) ELSE os[p]]
  /\ frozen' = frozen \ P
  /\ signalled' = signalled \ P
  /\ UNCHANGED <<home, failed, children>>

\* A loop ends: by itself, by a crash of its own, or because of a SIGTERM.
LoopExits(p) ==
  /\ Live(p) /\ p \notin frozen
  /\ os' = [os EXCEPT ![p] = Exited(p)]
  /\ failed' \in {failed, failed \cup {p}}
  /\ signalled' = signalled \ {p}
  /\ UNCHANGED <<procs, pidFile, home, children, frozen, killers, cancelled, reaper,
                 loopExit, swept>>

\* A shutdown signal cancels the context (cmd/root.go:183).
CancelContext ==
  /\ ~cancelled
  /\ cancelled' = TRUE
  /\ UNCHANGED <<procs, pidFile, loopKernel, signalled, killers, reaper,
                 loopExit, swept>>

\* exec.CommandContext kills the process of a cancelled context.
ContextKill(p) ==
  /\ cancelled /\ p \in children /\ Live(p)
  /\ Kill({p})
  /\ UNCHANGED <<procs, pidFile, killers, cancelled, reaper, loopExit, swept>>

----------------------------------------------------------------------------
(* The operations of Manager. *)

StartLoop(r) ==
  /\ ~exiting /\ ~cancelled
  /\ ~Tracked(r)
  /\ \E p \in Pids :
       /\ Spawn(r, p)
       /\ procs' = [procs EXCEPT ![r] = Entry(p, 0)]
       /\ reaper' = [reaper EXCEPT ![p] = NewReaper]
  /\ UNCHANGED <<loopSignals, loopExit, swept>>

\* Stop marks the entry and leaves the rest to the kill sequence and the
\* reaper.  A recovered loop has no reaper: Stop forgets it at once.
StopLoop(r) ==
  /\ ~exiting
  /\ Tracked(r)
  /\ killers' = killers \cup {<<procs[r].pid, "term">>}
  /\ IF procs[r].recovered
     THEN /\ procs' = [procs EXCEPT ![r] = NoProc]
          /\ pidFile' = [pidFile EXCEPT ![r] = 0]
     ELSE /\ procs' = [procs EXCEPT ![r].stopping = TRUE]
          /\ UNCHANGED pidFile
  /\ UNCHANGED <<loopKernel, signalled, cancelled, reaper, loopExit, swept>>

\* Mutant: the sequence ends with the SIGTERM.
KillTermOnly(p) ==
  /\ <<p, "term">> \in killers
  /\ killers' = killers \ {<<p, "term">>}
  /\ signalled' = signalled \cup Reached({p})
  /\ UNCHANGED <<procs, pidFile, loopKernel, cancelled, reaper, loopExit, swept>>

\* runKillSequence, first step: SIGTERM, if the process is still there.
KillTerm(p) ==
  /\ <<p, "term">> \in killers
  /\ killers' = (killers \ {<<p, "term">>}) \cup {<<p, "kill">>}
  /\ signalled' = signalled \cup Reached({p})
  /\ UNCHANGED <<procs, pidFile, loopKernel, cancelled, reaper, loopExit, swept>>

\* runKillSequence, last step: SIGKILL to a survivor.
KillSurvivor(p) ==
  /\ <<p, "kill">> \in killers
  /\ killers' = killers \ {<<p, "kill">>}
  /\ Kill({p})
  /\ UNCHANGED <<procs, pidFile, cancelled, reaper, loopExit, swept>>

\* The signal of a pause reaches a zombie without an error and a process that
\* was waited for not at all, which leaves the entry as it was.
TogglePause(r) ==
  /\ ~exiting
  /\ Tracked(r)
  /\ LET p == procs[r].pid IN
       /\ IsProcessAlive(p)
       /\ procs' = [procs EXCEPT ![r].paused = ~@]
       /\ frozen' = IF ~Live(p) THEN frozen
                    ELSE IF procs[r].paused THEN frozen \ {p} ELSE frozen \cup {p}
  /\ UNCHANGED <<pidFile, os, home, failed, children, loopSignals, reaper,
                 loopExit, swept>>

\* SIGTERM to every tracked loop, whose entry and PID file are removed at once.
SweepAll ==
  LET R == {r \in Repos : Tracked(r)} IN
    /\ signalled' = signalled \cup Reached({procs[r].pid : r \in R})
    /\ procs' = [r \in Repos |-> NoProc]
    /\ pidFile' = [r \in Repos |-> IF r \in R THEN 0 ELSE pidFile[r]]
    /\ swept' = swept \cup R

StopAll ==
  /\ ~exiting
  /\ \E r \in Repos : Tracked(r)
  /\ SweepAll
  /\ UNCHANGED <<loopKernel, killers, cancelled, reaper, loopExit>>

\* The interface has ended; its loops get five seconds to follow.
StopAllGraceful ==
  /\ ~exiting
  /\ exiting' = TRUE
  /\ grace' = {procs[r].pid : r \in {q \in Repos : Tracked(q)}}
  /\ SweepAll
  /\ UNCHANGED <<loopKernel, killers, cancelled, reaper, crashes>>

\* The deadline passes with loops still alive: SIGKILL.
GraceTimeout ==
  /\ exiting
  /\ \E p \in grace : IsProcessAlive(p)
  /\ Kill(grace)
  /\ grace' = {}
  /\ UNCHANGED <<procs, pidFile, killers, cancelled, reaper, exiting, crashes, swept>>

Recover ==
  /\ ~exiting
  /\ LET known == {r \in Repos : ~Tracked(r) /\ pidFile[r] # 0}
         found == {r \in known : IsProcessAlive(pidFile[r])}
     IN /\ known # {}
        /\ procs' = [r \in Repos |->
             IF r \in found
             THEN [Entry(pidFile[r], 0) EXCEPT !.recovered = TRUE]
             ELSE procs[r]]
        /\ pidFile' = [r \in Repos |-> IF r \in known \ found THEN 0 ELSE pidFile[r]]
  /\ UNCHANGED <<loopKernel, loopSignals, reaper, loopExit, swept>>

----------------------------------------------------------------------------
(* reaperLoop.  reaper[p] is the goroutine that waits for process p.       *)

ReaperAt(p, s) == reaper[p].at = s
ReaperGoto(p, s) == reaper' = [reaper EXCEPT ![p].at = s]

ReaperWaits(p) ==
  /\ ReaperAt(p, "wait") /\ os[p] = "zombie"
  /\ os' = [os EXCEPT ![p] = "gone"]
  /\ ReaperGoto(p, "decide")
  /\ UNCHANGED <<procs, pidFile, home, failed, children, frozen, loopSignals,
                 loopExit, swept>>

\* The entry looked up is the one the repository has now.
MayRestart(p) ==
  /\ AutoRestart
  /\ p \in failed
  /\ ~cancelled
  /\ Tracked(home[p])
  /\ ~procs[home[p]].stopping
  /\ procs[home[p]].restarts < MaxRestarts

\* Mutant: a loop that is not restarted is given up without the cleanup.
ReaperGivesUp(p) ==
  /\ ReaperAt(p, "decide")
  /\ IF MayRestart(p) THEN ReaperGoto(p, "backoff")
     ELSE reaper' = [reaper EXCEPT ![p] = NoReaper]
  /\ failed' = failed \ {p}
  /\ UNCHANGED <<procs, pidFile, os, home, children, frozen, loopSignals,
                 loopExit, swept>>

ReaperDecides(p) ==
  /\ ReaperAt(p, "decide")
  /\ IF MayRestart(p)
     THEN reaper' = [reaper EXCEPT ![p].at = "backoff",
                                   ![p].restarts = procs[home[p]].restarts]
     ELSE ReaperGoto(p, "forget")
  /\ failed' = failed \ {p}
  /\ UNCHANGED <<procs, pidFile, os, home, children, frozen, loopSignals,
                 loopExit, swept>>

\* After the backoff: the context and the entry are looked at again.
MayRelaunch(p) ==
  /\ ~cancelled
  /\ Tracked(home[p])
  /\ ~procs[home[p]].stopping

ReaperWakes(p) ==
  /\ ReaperAt(p, "backoff")
  /\ ReaperGoto(p, IF MayRelaunch(p) THEN "relaunch" ELSE "forget")
  /\ UNCHANGED <<procs, pidFile, loopKernel, loopSignals, loopExit, swept>>

\* exec.Cmd.Start refuses a cancelled context and may fail.
ReaperRelaunches(p) ==
  /\ ReaperAt(p, "relaunch")
  /\ \/ /\ ReaperGoto(p, "forget")
        /\ UNCHANGED <<pidFile, loopKernel>>
     \/ /\ ~cancelled
        /\ \E q \in Pids :
             /\ Spawn(home[p], q)
             /\ reaper' = [reaper EXCEPT ![p].at = "adopt", ![p].next = q]
  /\ UNCHANGED <<procs, loopSignals, loopExit, swept>>

\* Mutant: a stop in progress is not looked for.
MayAdoptStopping(p) == Tracked(home[p])

MayAdopt(p) == Tracked(home[p]) /\ ~procs[home[p]].stopping

\* Mutant: the new process gets no reaper of its own.
ReaperAdoptsUnwatched(p) ==
  /\ ReaperAt(p, "adopt")
  /\ MayAdopt(p)
  /\ procs' = [procs EXCEPT ![home[p]] = Entry(reaper[p].next, reaper[p].restarts + 1)]
  /\ reaper' = [reaper EXCEPT ![p] = NoReaper]
  /\ UNCHANGED <<loopKernel, signalled, pidFile, killers, cancelled, loopExit, swept>>

\* Mutant: the new process is left alone when it may not be adopted.
ReaperLeavesOrphan(p) ==
  /\ ReaperAt(p, "adopt")
  /\ ~MayAdopt(p)
  /\ reaper' = [reaper EXCEPT ![p].at = "forget", ![p].next = 0]
  /\ UNCHANGED <<procs, loopKernel, signalled, pidFile, killers, cancelled, loopExit, swept>>

\* The new process replaces the entry, or is killed when the entry is gone or
\* being stopped.
ReaperAdopts(p) ==
  /\ ReaperAt(p, "adopt")
  /\ LET r == home[p]
         q == reaper[p].next
     IN \/ /\ MayAdopt(p)
           /\ procs' = [procs EXCEPT ![r] = Entry(q, reaper[p].restarts + 1)]
           /\ reaper' = [reaper EXCEPT ![p] = NoReaper, ![q] = NewReaper]
           /\ UNCHANGED <<loopKernel, signalled>>
        \/ /\ ~MayAdopt(p)
           /\ Kill({q})
           /\ reaper' = [reaper EXCEPT ![p].at = "forget", ![p].next = 0]
           /\ UNCHANGED procs
  /\ UNCHANGED <<pidFile, killers, cancelled, loopExit, swept>>

\* cleanup, under m.mu: whatever entry the repository has is deleted.
ReaperForgets(p) ==
  /\ ReaperAt(p, "forget")
  /\ procs' = [procs EXCEPT ![home[p]] = NoProc]
  /\ ReaperGoto(p, "unpid")
  /\ UNCHANGED <<pidFile, loopKernel, loopSignals, loopExit, swept>>

\* cleanup, after m.mu was released: whatever PID file there is goes.
ReaperRemovesPidFile(p) ==
  /\ ReaperAt(p, "unpid")
  /\ pidFile' = [pidFile EXCEPT ![home[p]] = 0]
  /\ reaper' = [reaper EXCEPT ![p] = NoReaper]
  /\ UNCHANGED <<procs, loopKernel, loopSignals, loopExit, swept>>

----------------------------------------------------------------------------
(* ralphglasses crashes, or exits once the graceful stop is done; a new one
   starts with an empty map.  The loops run in process groups of their own and
   live on as children of init. *)
Restart ==
  /\ crashes < MaxCrashes
  /\ crashes' = crashes + 1
  /\ procs' = [r \in Repos |-> NoProc]
  /\ os' = [p \in Pids |-> IF os[p] = "zombie" THEN "gone" ELSE os[p]]
  /\ reaper' = [p \in Pids |-> NoReaper]
  /\ failed' = {} /\ children' = {} /\ swept' = {}
  /\ signalled' = {} /\ killers' = {} /\ cancelled' = FALSE
  /\ grace' = {} /\ exiting' = FALSE
  /\ UNCHANGED <<pidFile, home, frozen>>

ReaperSteps(p) ==
  \/ ReaperWaits(p) \/ ReaperDecides(p) \/ ReaperWakes(p) \/ ReaperRelaunches(p)
  \/ ReaperAdopts(p) \/ ReaperForgets(p) \/ ReaperRemovesPidFile(p)

LoopNext ==
  \/ \E r \in Repos : StartLoop(r) \/ StopLoop(r) \/ TogglePause(r)
  \/ \E p \in Pids : LoopExits(p) \/ ContextKill(p)
  \/ \E p \in Pids : KillTerm(p) \/ KillSurvivor(p) \/ ReaperSteps(p)
  \/ CancelContext \/ StopAll \/ StopAllGraceful \/ GraceTimeout \/ Recover \/ Restart

\* The goroutines of the manager run; a loop need not ever end by itself and
\* nobody has to start, stop or pause one.
LoopFairness ==
  \A p \in Pids : /\ WF_loopVars(KillTerm(p))
                 /\ WF_loopVars(KillSurvivor(p))
                 /\ WF_loopVars(ReaperSteps(p))

LoopSpec == LoopInit /\ [][LoopNext]_loopVars /\ LoopFairness

----------------------------------------------------------------------------
(* Properties. *)

\* A tracked loop that was not re-adopted has its reaper: one that has not yet
\* run the cleanup that takes the entry away (manager_lifecycle.go:72, 178, 222).
EntryHasReaper ==
  \A r \in Repos : Tracked(r) /\ ~procs[r].recovered =>
    /\ home[procs[r].pid] = r
    /\ reaper[procs[r].pid].at \notin {"none", "unpid"}

\* "Kill the newly started process to prevent an untracked orphan": as long as
\* StopAll took nothing from the repository, every live loop of this run of
\* ralphglasses is tracked, about to be adopted or killed, being stopped, or of
\* a cancelled context (manager_lifecycle.go:173-190).
NoUntrackedLoop ==
  \A p \in children : Live(p) /\ home[p] \notin swept =>
    \/ procs[home[p]].pid = p
    \/ \E q \in Pids : ReaperAt(q, "adopt") /\ reaper[q].next = p
    \/ p \in signalled \/ cancelled
    \/ \E s \in {"term", "kill"} : <<p, s>> \in killers

\* The PID file never names a loop other than the one tracked or the one about
\* to be adopted, as long as StopAll took nothing from the repository: what a
\* later Recover re-adopts is the repository's own loop (manager_lifecycle.go:469).
PidFileNamesTheLoop ==
  \A r \in Repos \ swept :
    Tracked(r) /\ pidFile[r] \notin {0, procs[r].pid} =>
      \E q \in Pids : /\ ReaperAt(q, "adopt") \/ ReaperAt(q, "forget")
                      /\ home[q] = r /\ procs[r].pid = q

\* An entry that Stop claimed is never replaced by a running one: it stays
\* claimed until it is removed (manager_lifecycle.go:138, 177, 282).
StopIsFinal ==
  [][\A r \in Repos : Tracked(r) /\ procs[r].stopping =>
       procs'[r] = NoProc \/ procs'[r] = [procs[r] EXCEPT !.paused = procs'[r].paused]]_loopVars

\* A loop the kill sequence of Stop was started for is dead in the end, frozen
\* or not, unless ralphglasses itself goes first.
StopKills ==
  \A p \in Pids :
    (crashes = MaxCrashes /\ <<p, "term">> \in killers) ~> ~Live(p)

\* A repository whose loop died does not stay "already running": its entry goes
\* or gets a new process, unless the loop was re-adopted and has no reaper.
DeadLoopsAreForgotten ==
  \A r \in Repos, p \in Pids :
    (Tracked(r) /\ procs[r].pid = p /\ ~procs[r].recovered /\ Dead(p))
      ~> procs[r].pid # p

=============================================================================
