--------------------------- MODULE SessionLifecycle ---------------------------
(***************************************************************************)
(* The life of the model sessions of one manager (src/internal/session:    *)
(* manager_lifecycle.go, runner.go, manager_stall.go): launch with its     *)
(* startup probe, the runner that reads the output and waits for the       *)
(* process, Stop with its escalation, what is persisted, the periodic      *)
(* reload of the state directory, and a restart of the program.            *)
(*                                                                         *)
(* Launch, runner, Stop and reload are goroutines that share the session   *)
(* under s.mu.  Saving a session clones it under s.mu and writes the clone *)
(* later, so a write may be older than the state on disk.                  *)
(*                                                                         *)
(* Left out: costs and output, the status cache, hand-offs to A2A and      *)
(* Antigravity, other processes that share the state directory; and with   *)
(* them the JSON file of a session, which is written after the row of the  *)
(* store and read only for sessions of another process.                    *)
(***************************************************************************)
EXTENDS Integers, FiniteSets

CONSTANTS
  Sessions,          \* sessions that may be launched
  MaxSessionCrashes  \* bound: restarts of the program

ASSUME SessionAssumption == MaxSessionCrashes \in Nat

VARIABLES
  proc,      \* the provider process of a session
  status,    \* Session.Status in memory, "none" before the launch
  ended,     \* sessions with EndedAt set
  known,     \* Manager.sessions
  launcher,  \* the launch of a session
  runner,    \* its runner goroutine
  stopper,   \* a Stop of it
  cancelledSessions,  \* sessions whose context is cancelled
  hooked,    \* sessions with onComplete set
  saves,     \* <<session, saver, status>>: clones taken and not yet written
  disk,      \* the status in the row of the session in the store, or "none"
  sessionCrashes  \* restarts of the program

sessionWork == <<launcher, runner, stopper, hooked>>
sessionVars == <<proc, status, ended, known, sessionWork, cancelledSessions, saves,
                 disk, sessionCrashes>>

Ends == {"completed", "errored", "stopped", "interrupted"}
SessionStatuses == {"none", "running"} \cup Ends
Savers == {"launcher", "runner", "stopper", "reload"}

SessionTypeOK ==
  /\ proc \in [Sessions -> {"none", "alive", "dead"}]
  /\ status \in [Sessions -> SessionStatuses]
  /\ ended \subseteq Sessions /\ known \subseteq Sessions
  /\ launcher \in [Sessions -> {"none", "probe", "save", "done"}]
  /\ runner \in [Sessions -> {"none", "read", "wait", "waited", "save", "done"}]
  /\ stopper \in [Sessions -> {"none", "kill", "save"}]
  /\ cancelledSessions \subseteq Sessions /\ hooked \subseteq Sessions
  /\ saves \subseteq Sessions \X Savers \X SessionStatuses
  /\ disk \in [Sessions -> SessionStatuses]
  /\ sessionCrashes \in 0..MaxSessionCrashes

SessionInit ==
  /\ proc = [s \in Sessions |-> "none"]
  /\ status = [s \in Sessions |-> "none"]
  /\ ended = {} /\ known = {} /\ hooked = {} /\ cancelledSessions = {}
  /\ launcher = [s \in Sessions |-> "none"]
  /\ runner = [s \in Sessions |-> "none"]
  /\ stopper = [s \in Sessions |-> "none"]
  /\ saves = {}
  /\ disk = [s \in Sessions |-> "none"]
  /\ sessionCrashes = 0

Terminal(s) == status[s] \in Ends
\* cmd.Wait has returned and doneCh is closed.
Reaped(s) == runner[s] \in {"waited", "save", "done"}

\* PersistSession: the clone, and its write.
Clone(s, by) == saves' = saves \cup {<<s, by, status[s]>>}
Write(s, by) ==
  \E c \in saves : /\ c[1] = s /\ c[2] = by
                   /\ disk' = [disk EXCEPT ![s] = c[3]]
                   /\ saves' = saves \ {c}
Saving(s, by) == \E c \in saves : c[1] = s /\ c[2] = by

----------------------------------------------------------------------------
(* Manager.Launch and launch. *)

LaunchSession(s) ==
  /\ proc[s] = "none"
  /\ proc' = [proc EXCEPT ![s] = "alive"]
  /\ status' = [status EXCEPT ![s] = "running"]
  /\ launcher' = [launcher EXCEPT ![s] = "probe"]
  /\ runner' = [runner EXCEPT ![s] = "read"]
  /\ UNCHANGED <<ended, known, stopper, hooked, cancelledSessions, saves, disk,
                 sessionCrashes>>

\* The process produced output, outlived the probe or completed within it, or
\* its output is seen before its failure is: the callback is set and the session
\* becomes known.
ProbePasses(s) ==
  /\ launcher[s] = "probe"
  /\ hooked' = hooked \cup {s}
  /\ known' = known \cup {s}
  /\ launcher' = [launcher EXCEPT ![s] = "save"]
  /\ UNCHANGED <<proc, status, ended, runner, stopper, cancelledSessions, saves, disk,
                 sessionCrashes>>

\* The process ended within the probe: Launch returns the error.
ProbeFails(s) ==
  /\ launcher[s] = "probe"
  /\ Reaped(s) /\ status[s] \in {"errored", "stopped"}
  /\ launcher' = [launcher EXCEPT ![s] = "done"]
  /\ UNCHANGED <<proc, status, ended, known, runner, stopper, hooked, cancelledSessions,
                 saves, disk, sessionCrashes>>

InitialSave(s) ==
  /\ launcher[s] = "save"
  /\ Clone(s, "launcher")
  /\ launcher' = [launcher EXCEPT ![s] = "done"]
  /\ UNCHANGED <<proc, status, ended, known, runner, stopper, hooked, cancelledSessions,
                 disk, sessionCrashes>>

----------------------------------------------------------------------------
(* The process and runSession. *)

ProcessExits(s) ==
  /\ proc[s] = "alive"
  /\ proc' = [proc EXCEPT ![s] = "dead"]
  /\ UNCHANGED <<status, ended, known, sessionWork, cancelledSessions, saves, disk,
                 sessionCrashes>>

\* exec.CommandContext kills the process of a cancelled context.
CancelKills(s) ==
  /\ s \in cancelledSessions /\ proc[s] = "alive"
  /\ runner[s] # "none"
  /\ proc' = [proc EXCEPT ![s] = "dead"]
  /\ UNCHANGED <<status, ended, known, sessionWork, cancelledSessions, saves, disk,
                 sessionCrashes>>

\* runSessionOutput ends the session: stalled, out of budget, turns or context.
RunnerStops(s) ==
  /\ runner[s] = "read" /\ s \notin cancelledSessions
  /\ cancelledSessions' = cancelledSessions \cup {s}
  /\ status' = [status EXCEPT ![s] = "stopped"]
  /\ runner' = [runner EXCEPT ![s] = "wait"]
  /\ UNCHANGED <<proc, ended, known, launcher, stopper, hooked, saves, disk, sessionCrashes>>

\* The output ends, or the context is done.
OutputEnds(s) ==
  /\ runner[s] = "read"
  /\ proc[s] = "dead" \/ s \in cancelledSessions
  /\ runner' = [runner EXCEPT ![s] = "wait"]
  /\ UNCHANGED <<proc, status, ended, known, launcher, stopper, hooked,
                 cancelledSessions, saves, disk, sessionCrashes>>

RunnerWaits(s) ==
  /\ runner[s] = "wait" /\ proc[s] = "dead"
  /\ runner' = [runner EXCEPT ![s] = "waited"]
  /\ UNCHANGED <<proc, status, ended, known, launcher, stopper, hooked,
                 cancelledSessions, saves, disk, sessionCrashes>>

\* Mutant: what the process did counts, stopped or not.
FinalStatusesAny(s) == {"completed", "errored"}

\* The final status under s.mu: a stopped session stays stopped, unless its
\* output tells of an exhausted quota.
FinalStatuses(s) ==
  IF status[s] = "stopped" THEN {"stopped", "errored"} ELSE {"completed", "errored"}

\* onComplete is taken as it is now; without it nothing is saved.
RunnerEnds(s) ==
  /\ runner[s] = "waited"
  /\ \E e \in FinalStatuses(s) : status' = [status EXCEPT ![s] = e]
  /\ ended' = ended \cup {s}
  /\ runner' = [runner EXCEPT ![s] = IF s \in hooked THEN "save" ELSE "done"]
  /\ UNCHANGED <<proc, known, launcher, stopper, hooked, cancelledSessions, saves, disk,
                 sessionCrashes>>

FinalSave(s) ==
  /\ runner[s] = "save"
  /\ Clone(s, "runner")
  /\ runner' = [runner EXCEPT ![s] = "done"]
  /\ UNCHANGED <<proc, status, ended, known, launcher, stopper, hooked,
                 cancelledSessions, disk, sessionCrashes>>

----------------------------------------------------------------------------
(* Manager.Stop. *)

StopSession(s) ==
  /\ s \in known /\ status[s] = "running"
  /\ stopper[s] = "none"
  /\ status' = [status EXCEPT ![s] = "stopped"]
  /\ cancelledSessions' = cancelledSessions \cup {s}
  /\ stopper' = [stopper EXCEPT ![s] = "kill"]
  /\ UNCHANGED <<proc, ended, known, launcher, runner, hooked, saves, disk, sessionCrashes>>

\* killWithEscalation: the process is reaped in time, or gets SIGKILL.
KillSession(s) ==
  /\ stopper[s] = "kill"
  /\ proc' = [proc EXCEPT ![s] = "dead"]
  /\ stopper' = [stopper EXCEPT ![s] = "save"]
  /\ UNCHANGED <<status, ended, known, launcher, runner, hooked, cancelledSessions,
                 saves, disk, sessionCrashes>>

StopSave(s) ==
  /\ stopper[s] = "save"
  /\ Clone(s, "stopper")
  /\ stopper' = [stopper EXCEPT ![s] = "none"]
  /\ UNCHANGED <<proc, status, ended, known, launcher, runner, hooked,
                 cancelledSessions, disk, sessionCrashes>>

WriteSave(s, by) ==
  /\ Write(s, by)
  /\ UNCHANGED <<proc, status, ended, known, sessionWork, cancelledSessions, sessionCrashes>>

----------------------------------------------------------------------------
(* LoadExternalSessions, on every tick of the terminal interface. *)

\* Mutant: the reload saves what the store had told it before.
ReloadSavesOld(s) ==
  /\ s \in known /\ disk[s] # "none"
  /\ ~Saving(s, "reload")
  /\ saves' = saves \cup {<<s, "reload", disk[s]>>}
  /\ UNCHANGED <<proc, status, ended, known, sessionWork, cancelledSessions, disk,
                 sessionCrashes>>

ReloadSaves(s) ==
  /\ s \in known /\ disk[s] # "none"
  /\ ~Saving(s, "reload")
  /\ Clone(s, "reload")
  /\ UNCHANGED <<proc, status, ended, known, sessionWork, cancelledSessions, disk,
                 sessionCrashes>>

\* Mutant: the end of the process is not waited for.
ReloadForgetsEarly(s) ==
  /\ s \in known
  /\ Terminal(s)
  /\ ~\E by \in Savers : Saving(s, by)
  /\ launcher[s] \notin {"probe", "save"} /\ runner[s] # "save" /\ stopper[s] = "none"
  /\ known' = known \ {s}
  /\ UNCHANGED <<proc, status, ended, sessionWork, cancelledSessions, saves, disk,
                 sessionCrashes>>

\* Minutes after its end: nothing of the session is still being written then.
\* The row of the store stays.
ReloadForgets(s) ==
  /\ s \in known
  /\ Terminal(s) /\ s \in ended
  /\ ~\E by \in Savers : Saving(s, by)
  /\ launcher[s] \notin {"probe", "save"} /\ runner[s] # "save" /\ stopper[s] = "none"
  /\ known' = known \ {s}
  /\ UNCHANGED <<proc, status, ended, sessionWork, cancelledSessions, saves, disk,
                 sessionCrashes>>

----------------------------------------------------------------------------
(* The program ends at any point and starts again: the store gives back the
   sessions, those that ran as interrupted.  What Stop saved before the runner
   was done has no end time.  A provider process may outlive the program. *)
RestartSessions ==
  /\ sessionCrashes < MaxSessionCrashes
  /\ sessionCrashes' = sessionCrashes + 1
  /\ known' = {s \in Sessions : disk[s] # "none"}
  /\ LET back == [s \in Sessions |-> IF disk[s] = "running" THEN "interrupted" ELSE disk[s]]
     IN disk' = back /\ status' = back
  /\ \E open \in SUBSET {s \in Sessions : disk[s] = "stopped"} :
       ended' = {s \in Sessions : disk[s] # "none"} \ open
  /\ launcher' = [s \in Sessions |-> "none"]
  /\ runner' = [s \in Sessions |-> "none"]
  /\ stopper' = [s \in Sessions |-> "none"]
  /\ hooked' = {} /\ cancelledSessions' = {} /\ saves' = {}
  /\ \E killed \in SUBSET Sessions :
       proc' = [s \in Sessions |-> IF s \in killed /\ proc[s] = "alive" THEN "dead"
                                   ELSE proc[s]]

LauncherSteps(s) ==
  ProbePasses(s) \/ ProbeFails(s) \/ InitialSave(s) \/ WriteSave(s, "launcher")
RunnerSteps(s) ==
  \/ OutputEnds(s) \/ RunnerWaits(s) \/ RunnerEnds(s) \/ FinalSave(s)
  \/ WriteSave(s, "runner")
StopperSteps(s) == KillSession(s) \/ StopSave(s) \/ WriteSave(s, "stopper")
ReloadSteps(s) == ReloadSaves(s) \/ WriteSave(s, "reload")

SessionNext ==
  \/ \E s \in Sessions :
       \/ LaunchSession(s) \/ LauncherSteps(s)
       \/ ProcessExits(s) \/ CancelKills(s)
       \/ RunnerStops(s) \/ RunnerSteps(s)
       \/ StopSession(s) \/ StopperSteps(s)
       \/ ReloadSteps(s) \/ ReloadForgets(s)
  \/ RestartSessions

\* The goroutines of a session run, the terminal interface ticks, and the
\* process of a cancelled context is killed.  A session need not end by itself.
SessionFairness ==
  \A s \in Sessions :
    /\ WF_sessionVars(LauncherSteps(s)) /\ WF_sessionVars(RunnerSteps(s))
    /\ WF_sessionVars(StopperSteps(s)) /\ WF_sessionVars(ReloadSteps(s))
    /\ WF_sessionVars(CancelKills(s))

SessionSpec == SessionInit /\ [][SessionNext]_sessionVars /\ SessionFairness

----------------------------------------------------------------------------
(* Properties. *)

\* However a Stop, an end of its own and a late save cross, a session that is
\* not running any more never becomes another one: only a stopped session may
\* still turn out to have exhausted its quota (runner.go:299, 325, 333;
\* manager_lifecycle.go:192).
TerminalIsFinal ==
  [][sessionCrashes' = sessionCrashes => \A s \in Sessions :
       Terminal(s) /\ status'[s] # status[s] => status[s] = "stopped" /\ status'[s] = "errored"
    ]_sessionVars

\* A process this run of the program started belongs to a session that can be
\* found and stopped, or its launch still decides: neither a failed launch nor
\* the reload forgets one that is alive (runner.go:213, manager_lifecycle.go:646).
NothingForgottenAlive ==
  \A s \in Sessions :
    proc[s] = "alive" /\ runner[s] # "none" => s \in known \/ launcher[s] = "probe"

\* A session whose process is dead has an end, and the store tells that end for
\* good, however the saves of launch, runner, Stop and reload overtake each
\* other and whether or not the program is restarted (manager_lifecycle.go:459).
EndsAreSaved ==
  \A s \in Sessions :
    (s \in known /\ proc[s] = "dead")
      ~> [](s \in known => Terminal(s) /\ disk[s] = status[s])

=============================================================================
