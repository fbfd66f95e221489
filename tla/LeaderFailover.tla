---------------------------- MODULE LeaderFailover ----------------------------
(***************************************************************************)
(* Leader election over a lock file (src/internal/session/                 *)
(* leader_failover.go).  The leader stamps the file once per heartbeat     *)
(* interval; the others look at it as often, and one that finds it missing *)
(* or older than three intervals waits a random while, writes its own      *)
(* stamp, waits a quarter of the interval and reads the file back.         *)
(*                                                                         *)
(* Time passes in units of a quarter of the interval divided by Quarter.   *)
(* An instance takes a step that is due before time passes, unless it is   *)
(* late: a process that is stopped, swapped out or on a sleeping machine.  *)
(* The stamp is taken and the file renamed into place in one step.         *)
(*                                                                         *)
(* Left out: the callbacks, and the name of the leader that followers      *)
(* remember for display.                                                   *)
(***************************************************************************)
EXTENDS Integers, FiniteSets

CONSTANTS
  Instances,      \* instances of the program that share the lock directory
  Quarter,        \* units of time in a quarter of the heartbeat interval
  MaxDisruptions  \* bound: crashes, stops, failed writes and suspensions

ASSUME LeaderAssumption ==
  /\ Quarter \in Nat \ {0} /\ MaxDisruptions \in Nat
  /\ "none" \notin Instances

VARIABLES
  lock,       \* leader.lock: its owner, if there is a file, and its age
  stage,      \* what Run of an instance does
  due,        \* units until the wait within tryAcquireLock is over
  ticker,     \* units until the ticker of Run fires
  leads,      \* instances with isLeader set
  late,       \* instances that do not get to run
  everLate,   \* history: has an instance been late?
  calm,       \* history: units since the last disruption or resume, with an
              \* instance up
  disruptions

leaderVars == <<lock, stage, due, ticker, leads, late, everLate, calm, disruptions>>

Heartbeat == 4 * Quarter
StaleThreshold == 3 * Heartbeat
\* Crash right after a renewal, a look just before the threshold, the wait
\* before the write, the same of an instance that starts just before it, and the
\* wait before the check.  The random waits are shorter than a quarter.
TakeoverTime == StaleThreshold + Heartbeat + 3 * Quarter - 2

Up == {i \in Instances : stage[i] # "down"}

LeaderTypeOK ==
  /\ lock \in [owner : Instances \cup {"none"}, age : 0..StaleThreshold + 1]
  /\ stage \in [Instances -> {"down", "idle", "renewed", "jitter", "verify", "removing"}]
  /\ due \in [Instances -> 0..Quarter]
  /\ ticker \in [Instances -> 0..Heartbeat]
  /\ leads \subseteq Up /\ late \subseteq Up
  /\ everLate \in BOOLEAN
  /\ calm \in 0..TakeoverTime + 1
  /\ disruptions \in 0..MaxDisruptions

LeaderInit ==
  /\ lock = [owner |-> "none", age |-> 0]
  /\ stage = [i \in Instances |-> "down"]
  /\ due = [i \in Instances |-> 0]
  /\ ticker = [i \in Instances |-> 0]
  /\ leads = {} /\ late = {} /\ everLate = FALSE
  /\ calm = 0 /\ disruptions = 0

\* The age of a lock older than the threshold does not matter any more.
Older(l) ==
  IF l.owner = "none" \/ l.age > StaleThreshold THEN l ELSE [l EXCEPT !.age = @ + 1]
\* Mutant: a lock that exists counts.
FreshForEver == lock.owner # "none"

Fresh == lock.owner # "none" /\ lock.age <= StaleThreshold
\* Mutant: a timer runs on below zero.
CountDownOn(n) == n - 1

CountDown(n) == IF n = 0 THEN 0 ELSE n - 1

StepDue(i) ==
  \/ stage[i] = "idle" /\ ticker[i] = 0
  \/ stage[i] \in {"jitter", "verify"} /\ due[i] = 0
  \/ stage[i] \in {"renewed", "removing"}

Disrupt == disruptions < MaxDisruptions /\ disruptions' = disruptions + 1 /\ calm' = 0
Undisturbed == UNCHANGED <<late, everLate, calm, disruptions>>

----------------------------------------------------------------------------
(* Time. *)

ClockTicks ==
  /\ \A i \in Up \ late : ~StepDue(i)
  /\ lock' = Older(lock)
  /\ due' = [i \in Instances |-> CountDown(due[i])]
  /\ ticker' = [i \in Instances |-> CountDown(ticker[i])]
  /\ calm' = IF calm > TakeoverTime THEN calm ELSE calm + 1
  /\ UNCHANGED <<stage, leads, late, everLate, disruptions>>

\* Run receives the tick; after a missed one the ticker keeps its own pace.
TakeTick(i) ==
  /\ i \notin late /\ stage[i] = "idle" /\ ticker[i] = 0
  /\ \E next \in (IF everLate THEN 1..Heartbeat ELSE {Heartbeat}) :
       ticker' = [ticker EXCEPT ![i] = next]

----------------------------------------------------------------------------
(* Run, tick and tryAcquireLock. *)

\* The first look comes at once.
StartInstance(i) ==
  /\ stage[i] = "down"
  /\ stage' = [stage EXCEPT ![i] = "idle"]
  /\ ticker' = [ticker EXCEPT ![i] = 0]
  /\ due' = [due EXCEPT ![i] = 0]
  /\ calm' = IF Up = {} THEN 0 ELSE calm
  /\ UNCHANGED <<lock, leads, late, everLate, disruptions>>

WriteLock(i) == lock' = [owner |-> i, age |-> 0]

\* The leader stamps the file first and then looks whose it is.
Renew(i) ==
  /\ i \in leads
  /\ TakeTick(i)
  /\ WriteLock(i)
  /\ stage' = [stage EXCEPT ![i] = "renewed"]
  /\ Undisturbed /\ UNCHANGED <<due, leads>>

RenewFails(i) ==
  /\ i \in leads
  /\ TakeTick(i)
  /\ leads' = leads \ {i}
  /\ Disrupt
  /\ UNCHANGED <<lock, stage, due, late, everLate>>

CheckRenewal(i) ==
  /\ i \notin late /\ stage[i] = "renewed"
  /\ leads' = IF lock.owner = i THEN leads ELSE leads \ {i}
  /\ stage' = [stage EXCEPT ![i] = "idle"]
  /\ Undisturbed /\ UNCHANGED <<lock, due, ticker>>

Follow(i) ==
  /\ i \notin leads
  /\ TakeTick(i)
  /\ Fresh
  /\ Undisturbed /\ UNCHANGED <<lock, stage, due, leads>>

FindsNoLeader(i) ==
  /\ i \notin leads
  /\ TakeTick(i)
  /\ ~Fresh
  /\ \E jitter \in 0..Quarter - 1 : due' = [due EXCEPT ![i] = jitter]
  /\ stage' = [stage EXCEPT ![i] = "jitter"]
  /\ Undisturbed /\ UNCHANGED <<lock, leads>>

\* Mutant: the file is not read back.
ClaimAtOnce(i) ==
  /\ i \notin late /\ stage[i] = "jitter" /\ due[i] = 0
  /\ WriteLock(i)
  /\ leads' = leads \cup {i}
  /\ stage' = [stage EXCEPT ![i] = "idle"]
  /\ Undisturbed /\ UNCHANGED <<ticker, due>>

Claim(i) ==
  /\ i \notin late /\ stage[i] = "jitter" /\ due[i] = 0
  /\ WriteLock(i)
  /\ due' = [due EXCEPT ![i] = Quarter]
  /\ stage' = [stage EXCEPT ![i] = "verify"]
  /\ Undisturbed /\ UNCHANGED <<ticker, leads>>

ClaimFails(i) ==
  /\ i \notin late /\ stage[i] = "jitter" /\ due[i] = 0
  /\ stage' = [stage EXCEPT ![i] = "idle"]
  /\ Disrupt
  /\ UNCHANGED <<lock, due, ticker, leads, late, everLate>>

Verify(i) ==
  /\ i \notin late /\ stage[i] = "verify" /\ due[i] = 0
  /\ leads' = IF lock.owner = i THEN leads \cup {i} ELSE leads
  /\ stage' = [stage EXCEPT ![i] = "idle"]
  /\ Undisturbed /\ UNCHANGED <<lock, due, ticker>>

----------------------------------------------------------------------------
(* Stop, crash, suspension. *)

\* Run returns when its context is done, between two ticks; a leader removes
\* the file, whoever wrote it.
Stop(i) ==
  /\ i \notin late /\ stage[i] = "idle"
  /\ leads' = leads \ {i}
  /\ stage' = [stage EXCEPT ![i] = IF i \in leads THEN "removing" ELSE "down"]
  /\ Disrupt
  /\ UNCHANGED <<lock, due, ticker, late, everLate>>

RemoveLock(i) ==
  /\ i \notin late /\ stage[i] = "removing"
  /\ lock' = [owner |-> "none", age |-> 0]
  /\ stage' = [stage EXCEPT ![i] = "down"]
  /\ Undisturbed /\ UNCHANGED <<due, ticker, leads>>

CrashInstance(i) ==
  /\ i \in Up
  /\ stage' = [stage EXCEPT ![i] = "down"]
  /\ leads' = leads \ {i} /\ late' = late \ {i}
  /\ Disrupt
  /\ UNCHANGED <<lock, due, ticker, everLate>>

FallBehind(i) ==
  /\ i \in Up \ late
  /\ late' = late \cup {i} /\ everLate' = TRUE
  /\ Disrupt
  /\ UNCHANGED <<lock, stage, due, ticker, leads>>

Resume(i) ==
  /\ i \in late
  /\ late' = late \ {i}
  /\ calm' = 0
  /\ UNCHANGED <<lock, stage, due, ticker, leads, everLate, disruptions>>

LeaderNext ==
  \/ ClockTicks
  \/ \E i \in Instances :
       \/ StartInstance(i)
       \/ Renew(i) \/ RenewFails(i) \/ CheckRenewal(i)
       \/ Follow(i) \/ FindsNoLeader(i) \/ Claim(i) \/ ClaimFails(i) \/ Verify(i)
       \/ Stop(i) \/ RemoveLock(i) \/ CrashInstance(i)
       \/ FallBehind(i) \/ Resume(i)

LeaderSpec == LeaderInit /\ [][LeaderNext]_leaderVars

----------------------------------------------------------------------------
(* Properties. *)

OneLeader == Cardinality(leads) <= 1

\* While every instance gets to run in time, the jitter, the write and the
\* check of tryAcquireLock elect one leader at most, whichever instances crash,
\* stop, start and compete (leader_failover.go:179, 188).
OneLeaderInTime == ~everLate => OneLeader

\* When nothing has gone wrong for the stale threshold, an interval and the
\* waits, an instance that is up is led: neither a lock left by a crash nor a
\* lost race keeps the leadership vacant (leader_failover.go:167).
TakeoverInTime ==
  Up # {} /\ late = {} /\ calm > TakeoverTime => leads # {}

=============================================================================
