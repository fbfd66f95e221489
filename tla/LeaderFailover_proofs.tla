----------------------- MODULE LeaderFailover_proofs -----------------------
(***************************************************************************)
(* Leader election for any number of instances, any length of the          *)
(* heartbeat interval and any number of disruptions.                       *)
(*                                                                         *)
(* OneLeaderInTime rests on InTime, which holds until an instance is late. *)
(* A leader owns the lock and stamps it before anybody may find it stale.  *)
(* Whoever wrote the lock last and waits to read it back waits longer than *)
(* those who found it vacant and are about to write: a random wait is      *)
(* shorter than the quarter between write and check.                       *)
(*                                                                         *)
(* TakeoverInTime rests on Calm, which bounds the time since the last      *)
(* disruption by what each instance is doing, and by the age of a lock     *)
(* that nobody keeps.  It is not needed that nobody was ever late.         *)
(***************************************************************************)
EXTENDS LeaderFailover, FiniteSetTheorems, TLAPS

\* What the stages say, in time or late.
Stages ==
    /\ \A k \in leads : stage[k] \in {"idle", "renewed"}
    /\ \A i \in Instances : stage[i] = "renewed" => i \in leads
    /\ \A i \in Instances : stage[i] = "jitter" => due[i] < Quarter

---------------------------------------------------------------------------
(* Every step keeps the types. *)

\* A step of instance i.
InstanceStep(i) ==
    \/ StartInstance(i)
    \/ Renew(i) \/ RenewFails(i) \/ CheckRenewal(i)
    \/ Follow(i) \/ FindsNoLeader(i) \/ Claim(i) \/ ClaimFails(i) \/ Verify(i)
    \/ Stop(i) \/ RemoveLock(i) \/ CrashInstance(i)
    \/ FallBehind(i) \/ Resume(i)

\* The times are multiples of a quarter.
LEMMA Times ==
    /\ Quarter \in Nat /\ Quarter >= 1
    /\ Heartbeat = 4 * Quarter /\ StaleThreshold = 12 * Quarter
    /\ TakeoverTime = 19 * Quarter - 2
BY LeaderAssumption DEF Heartbeat, StaleThreshold, TakeoverTime

\* The lock file.
Locks == [owner : Instances \cup {"none"}, age : 0..StaleThreshold + 1]

\* What becomes of a lock.
LEMMA LockMoves ==
    ASSUME lock \in Locks
    PROVE  /\ Older(lock) \in Locks /\ Older(lock).owner = lock.owner
           /\ \/ Older(lock).age = lock.age + 1 /\ lock.owner # "none" /\ lock.age <= StaleThreshold
              \/ Older(lock) = lock /\ ~Fresh
           /\ \A i \in Instances : [owner |-> i, age |-> 0] \in Locks
           /\ [owner |-> "none", age |-> 0] \in Locks
BY Times DEF Locks, Older, Fresh

\* Types at first.
LEMMA LeaderTypeInit == LeaderInit => LeaderTypeOK
<1> SUFFICES ASSUME LeaderInit PROVE LeaderTypeOK
  OBVIOUS
<1>1. 0 \in 0..StaleThreshold + 1 /\ 0 \in 0..Quarter /\ 0 \in 0..Heartbeat
      /\ 0 \in 0..TakeoverTime + 1 /\ 0 \in 0..MaxDisruptions
  BY LeaderAssumption, Times
<1> QED
  BY <1>1 DEF LeaderInit, LeaderTypeOK

\* Types need the stages: a leader that runs is up.
LEMMA LeaderTypeStep == LeaderTypeOK /\ Stages /\ [LeaderNext]_leaderVars => LeaderTypeOK'
<1> SUFFICES ASSUME LeaderTypeOK, Stages, [LeaderNext]_leaderVars PROVE LeaderTypeOK'
  OBVIOUS
<1>0. lock \in Locks
  BY DEF LeaderTypeOK, Locks
<1>1. CASE UNCHANGED leaderVars
  BY <1>1 DEF leaderVars, LeaderTypeOK, Up
<1>2. CASE ClockTicks
  <2>1. lock' \in Locks
    BY <1>0, <1>2, LockMoves DEF ClockTicks
  <2>2. /\ due' \in [Instances -> 0..Quarter] /\ ticker' \in [Instances -> 0..Heartbeat]
        /\ calm' \in 0..TakeoverTime + 1
    BY <1>2, Times DEF ClockTicks, CountDown, LeaderTypeOK
  <2> QED
    BY <1>2, <2>1, <2>2 DEF ClockTicks, LeaderTypeOK, Locks, Up
<1>3. ASSUME NEW i \in Instances, InstanceStep(i)
      PROVE  LeaderTypeOK'
  <2>1. lock' \in Locks
    BY <1>0, <1>3, LockMoves DEF InstanceStep, StartInstance, Renew, RenewFails, CheckRenewal,
       Follow, FindsNoLeader, Claim, ClaimFails, Verify, Stop, RemoveLock,
       CrashInstance, FallBehind, Resume, WriteLock
  <2>2. due' \in [Instances -> 0..Quarter]
    BY <1>3, Times DEF InstanceStep, LeaderTypeOK, StartInstance, Renew, RenewFails,
       CheckRenewal, Follow, FindsNoLeader, Claim, ClaimFails, Verify, Stop, RemoveLock,
       CrashInstance, FallBehind, Resume
  <2>3. ticker' \in [Instances -> 0..Heartbeat]
    BY <1>3, Times DEF InstanceStep, LeaderTypeOK, StartInstance, Renew, RenewFails,
       CheckRenewal, Follow, FindsNoLeader, Claim, ClaimFails, Verify, Stop, RemoveLock,
       CrashInstance, FallBehind, Resume, TakeTick
  <2>4. /\ calm' \in {calm, 0} /\ (everLate' = everLate \/ everLate' = TRUE)
        /\ \/ disruptions' = disruptions
           \/ disruptions < MaxDisruptions /\ disruptions' = disruptions + 1
    BY <1>3 DEF InstanceStep, StartInstance, Renew, RenewFails,
       CheckRenewal, Follow, FindsNoLeader, Claim, ClaimFails, Verify, Stop, RemoveLock,
       CrashInstance, FallBehind, Resume, Disrupt, Undisturbed
  <2>5. /\ calm' \in 0..TakeoverTime + 1 /\ disruptions' \in 0..MaxDisruptions
        /\ everLate' \in BOOLEAN
    <3>1. calm' \in 0..TakeoverTime + 1
      BY <2>4, Times DEF LeaderTypeOK
    <3>2. disruptions' \in 0..MaxDisruptions
      BY <2>4, LeaderAssumption DEF LeaderTypeOK
    <3>3. everLate' \in BOOLEAN
      BY <2>4, Zenon DEF LeaderTypeOK
    <3> QED
      BY <3>1, <3>2, <3>3
  <2>6. /\ stage' \in [Instances -> {"down", "idle", "renewed", "jitter", "verify", "removing"}]
        /\ \A j \in Instances : j # i => stage'[j] = stage[j]
    BY <1>3 DEF InstanceStep, LeaderTypeOK, StartInstance, Renew, RenewFails,
       CheckRenewal, Follow, FindsNoLeader, Claim, ClaimFails, Verify, Stop, RemoveLock,
       CrashInstance, FallBehind, Resume, TakeTick
  <2>7. leads' \subseteq leads \cup {i} /\ late' \subseteq late \cup {i}
    BY <1>3 DEF InstanceStep, StartInstance, Renew, RenewFails,
       CheckRenewal, Follow, FindsNoLeader, Claim, ClaimFails, Verify, Stop, RemoveLock,
       CrashInstance, FallBehind, Resume, Undisturbed, Disrupt
  <2>8. stage'[i] = "down" => i \notin leads' /\ i \notin late'
    BY <1>3 DEF InstanceStep, LeaderTypeOK, Stages, Up, StartInstance, Renew, RenewFails,
       CheckRenewal, Follow, FindsNoLeader, Claim, ClaimFails, Verify, Stop, RemoveLock,
       CrashInstance, FallBehind, Resume, TakeTick, Undisturbed
  <2>9. leads' \subseteq Up' /\ late' \subseteq Up'
    BY <2>6, <2>7, <2>8 DEF LeaderTypeOK, Up
  <2> QED
    BY <2>1, <2>2, <2>3, <2>5, <2>6, <2>9 DEF LeaderTypeOK, Locks
<1> QED
  BY <1>1, <1>2, <1>3 DEF LeaderNext, InstanceStep

\* Stages at first.
LEMMA StagesInit == LeaderInit => Stages
BY DEF LeaderInit, Stages

\* Every step keeps the stages.
LEMMA StagesStep == LeaderTypeOK /\ Stages /\ [LeaderNext]_leaderVars => Stages'
<1> SUFFICES ASSUME LeaderTypeOK, Stages, [LeaderNext]_leaderVars PROVE Stages'
  OBVIOUS
<1>1. CASE UNCHANGED leaderVars
  BY <1>1 DEF leaderVars, Stages
<1>2. CASE ClockTicks
  BY <1>2, Times DEF ClockTicks, CountDown, Stages, LeaderTypeOK
<1>3. ASSUME NEW i \in Instances, InstanceStep(i)
      PROVE  Stages'
  <2>1. \A k \in leads' : stage'[k] \in {"idle", "renewed"}
    BY <1>3 DEF InstanceStep, LeaderTypeOK, Stages, StartInstance, Renew, RenewFails,
       CheckRenewal, Follow, FindsNoLeader, Claim, ClaimFails, Verify, Stop, RemoveLock,
       CrashInstance, FallBehind, Resume, TakeTick, Up
  <2>2. \A k \in Instances : stage'[k] = "renewed" => k \in leads'
    BY <1>3 DEF InstanceStep, LeaderTypeOK, Stages, StartInstance, Renew, RenewFails,
       CheckRenewal, Follow, FindsNoLeader, Claim, ClaimFails, Verify, Stop, RemoveLock,
       CrashInstance, FallBehind, Resume, TakeTick, Up
  <2>3. \A k \in Instances : stage'[k] = "jitter" => due'[k] < Quarter
    BY <1>3, Times DEF InstanceStep, LeaderTypeOK, Stages, StartInstance, Renew, RenewFails,
       CheckRenewal, Follow, FindsNoLeader, Claim, ClaimFails, Verify, Stop, RemoveLock,
       CrashInstance, FallBehind, Resume, TakeTick, Up
  <2> QED
    BY <2>1, <2>2, <2>3 DEF Stages
<1> QED
  BY <1>1, <1>2, <1>3 DEF LeaderNext, InstanceStep

\* Types and stages.
LEMMA TypedSteps == LeaderSpec => [](LeaderTypeOK /\ Stages)
<1>1. LeaderInit => LeaderTypeOK /\ Stages
  BY LeaderTypeInit, StagesInit
<1>2. LeaderTypeOK /\ Stages /\ [LeaderNext]_leaderVars => LeaderTypeOK' /\ Stages'
  BY LeaderTypeStep, StagesStep
<1> QED
  BY <1>1, <1>2, PTL DEF LeaderSpec

\* Timers, ages and stages stay in their ranges: no timer runs below zero, and
\* only instances that run lead or are late (leader_failover.go:60).
THEOREM LeaderTypeCorrect == LeaderSpec => []LeaderTypeOK
BY TypedSteps, PTL

---------------------------------------------------------------------------
(* One leader. *)

\* An instance leads, or has just ceased to and will remove the file.
Master(k) == k \in leads \/ stage[k] = "removing"

\* A master owns the lock, stamps it in time, and nobody is about to write.
MasterOwns(k) ==
    /\ lock.owner = k
    /\ lock.age <= Heartbeat + Quarter
    /\ k \in leads => lock.age + ticker[k] <= Heartbeat + Quarter
    /\ \A j \in Instances : stage[j] # "jitter"

\* An instance that wrote the lock last will read it back ...
Candidate(i) == stage[i] = "verify" /\ lock.owner = i

\* ... after those who are about to write have written.
CandidateWaits(i) ==
    /\ lock.age + due[i] <= Quarter
    /\ \A j \in Instances : stage[j] = "jitter" => due[j] < due[i]

\* This holds until an instance is late.
InTime == ~everLate =>
    /\ late = {}
    /\ \A k \in Instances : Master(k) => MasterOwns(k)
    /\ \A i \in Instances : Candidate(i) => CandidateWaits(i)

\* The numbers of an instance.
LEMMA Numbers ==
    ASSUME LeaderTypeOK
    PROVE  /\ lock.age \in Nat /\ lock.age <= StaleThreshold + 1
           /\ lock.owner \in Instances \cup {"none"} /\ calm \in Nat
           /\ \A i \in Instances : /\ due[i] \in Nat /\ due[i] <= Quarter
                                   /\ ticker[i] \in Nat /\ ticker[i] <= Heartbeat
           /\ leads \subseteq Instances /\ late \subseteq Instances
           /\ \A i \in Instances : stage[i] = "down" => i \notin leads /\ i \notin late
BY Times DEF LeaderTypeOK, Up

\* At first nobody leads and nobody is late.
LEMMA InTimeInit == LeaderInit => InTime
BY DEF LeaderInit, InTime, Master, Candidate

\* Time passes when nobody has anything to do, and everybody's timer with it.
LEMMA TimePasses ==
    ASSUME LeaderTypeOK, Stages, ClockTicks, late = {}
    PROVE  /\ \A i \in Instances :
                /\ stage[i] \notin {"renewed", "removing"}
                /\ stage[i] = "idle" => ticker[i] >= 1 /\ ticker'[i] = ticker[i] - 1
                /\ stage[i] \in {"jitter", "verify"} => due[i] >= 1 /\ due'[i] = due[i] - 1
                /\ ticker'[i] <= ticker[i]
           /\ \A k \in leads : stage[k] = "idle"
           /\ UNCHANGED <<stage, leads, late>>
<1>1. \A i \in Instances : stage[i] # "down" => ~StepDue(i)
  BY DEF ClockTicks, Up
<1>2. \A i \in Instances :
        /\ stage[i] \notin {"renewed", "removing"}
        /\ stage[i] = "idle" => ticker[i] # 0
        /\ stage[i] \in {"jitter", "verify"} => due[i] # 0
  BY <1>1 DEF StepDue
<1>3. \A i \in Instances : /\ ticker'[i] = CountDown(ticker[i]) /\ due'[i] = CountDown(due[i])
                           /\ ticker[i] \in Nat /\ due[i] \in Nat
  BY Numbers DEF ClockTicks
<1> QED
  BY <1>2, <1>3, Numbers DEF ClockTicks, CountDown, Stages

\* Every step keeps InTime: who leads, competes, crashes or stops in time.
LEMMA InTimeStep == LeaderTypeOK /\ Stages /\ InTime /\ [LeaderNext]_leaderVars => InTime'
<1> SUFFICES ASSUME LeaderTypeOK, Stages, InTime, [LeaderNext]_leaderVars, ~everLate'
             PROVE  /\ late' = {}
                    /\ \A k \in Instances : Master(k)' => MasterOwns(k)'
                    /\ \A c \in Instances : Candidate(c)' => CandidateWaits(c)'
  BY DEF InTime
<1>1. CASE UNCHANGED leaderVars
  BY <1>1 DEF leaderVars, InTime, Master, MasterOwns, Candidate, CandidateWaits
<1>2. CASE ClockTicks
  <2>1. /\ late = {} /\ \A k \in Instances : Master(k) => MasterOwns(k)
        /\ \A i \in Instances : Candidate(i) => CandidateWaits(i)
    BY <1>2 DEF ClockTicks, InTime
  <2>2. /\ lock'.owner = lock.owner /\ lock'.age \in Nat
        /\ lock'.age = lock.age \/ lock'.age = lock.age + 1
    BY <1>2, LockMoves, Numbers DEF ClockTicks, LeaderTypeOK, Locks
  <2>3. ASSUME NEW k \in Instances, Master(k)' PROVE MasterOwns(k)'
    <3>1. Master(k) /\ k \in leads /\ stage[k] = "idle"
      BY <1>2, <2>1, <2>3, TimePasses DEF Master
    <3> QED
      BY <1>2, <2>1, <2>2, <3>1, TimePasses, Numbers, Times DEF MasterOwns
  <2>4. ASSUME NEW c \in Instances, Candidate(c)' PROVE CandidateWaits(c)'
    <3>1. Candidate(c)
      BY <1>2, <2>1, <2>2, <2>4, TimePasses DEF Candidate
    <3> QED
      BY <1>2, <2>1, <2>2, <3>1, TimePasses, Numbers, Times DEF Candidate, CandidateWaits
  <2> QED
    BY <1>2, <2>1, <2>3, <2>4 DEF ClockTicks
<1>3. ASSUME NEW i \in Instances, InstanceStep(i)
      PROVE  /\ late' = {}
             /\ \A k \in Instances : Master(k)' => MasterOwns(k)'
             /\ \A c \in Instances : Candidate(c)' => CandidateWaits(c)'
  <2>1. ~everLate /\ late = {} /\ late' = {}
    BY <1>3 DEF InTime, InstanceStep, StartInstance, Renew, RenewFails, CheckRenewal, Follow,
       FindsNoLeader, Claim, ClaimFails, Verify, Stop, RemoveLock,
       CrashInstance, FallBehind, Resume, Undisturbed
  <2>2. /\ \A k \in Instances : Master(k) => MasterOwns(k)
        /\ \A c \in Instances : Candidate(c) => CandidateWaits(c)
    BY <2>1 DEF InTime
  <2>3. /\ stage \in [Instances -> {"down", "idle", "renewed", "jitter", "verify", "removing"}]
        /\ due \in [Instances -> 0..Quarter] /\ ticker \in [Instances -> 0..Heartbeat]
        /\ leads \subseteq Instances
    BY Numbers DEF LeaderTypeOK
  <2>4. CASE \/ StartInstance(i) \/ RenewFails(i) \/ Follow(i) \/ ClaimFails(i)
             \/ CrashInstance(i)
    <3>1. /\ lock' = lock /\ leads' \subseteq leads
          /\ stage'[i] \in {"idle", "down"} /\ i \notin leads'
          /\ \A j \in Instances : j # i => /\ stage'[j] = stage[j] /\ due'[j] = due[j]
                                           /\ ticker'[j] = ticker[j]
      BY <2>3, <2>4, Numbers DEF StartInstance, RenewFails, Follow, ClaimFails, CrashInstance,
         TakeTick, Stages
    <3> QED
      BY <2>1, <2>2, <2>3, <3>1 DEF Master, MasterOwns, Candidate, CandidateWaits
  <2>5. CASE Renew(i)
    <3>1. /\ i \in leads /\ lock' = [owner |-> i, age |-> 0] /\ leads' = leads /\ due' = due
          /\ stage' = [stage EXCEPT ![i] = "renewed"] /\ ticker' = [ticker EXCEPT ![i] = Heartbeat]
      BY <2>1, <2>5 DEF Renew, WriteLock, TakeTick
    <3>2. MasterOwns(i)
      BY <2>2, <3>1 DEF Master
    <3>3. \A k \in Instances : Master(k)' => k = i
      BY <2>2, <2>3, <3>1, <3>2 DEF Master, MasterOwns
    <3>4. MasterOwns(i)'
      BY <2>3, <3>1, <3>2, Times DEF MasterOwns
    <3>5. \A c \in Instances : ~Candidate(c)'
      BY <2>3, <3>1 DEF Candidate
    <3> QED
      BY <2>1, <3>3, <3>4, <3>5
  <2>6. CASE CheckRenewal(i)
    <3>1. i \in leads /\ lock.owner = i
      BY <2>2, <2>6 DEF CheckRenewal, Stages, Master, MasterOwns
    <3>2. /\ UNCHANGED <<lock, leads, due, ticker>> /\ stage' = [stage EXCEPT ![i] = "idle"]
      BY <2>6, <3>1 DEF CheckRenewal
    <3> QED
      BY <2>1, <2>2, <2>3, <3>1, <3>2 DEF Master, MasterOwns, Candidate, CandidateWaits
  <2>7. CASE FindsNoLeader(i)
    <3>1. /\ ~Fresh /\ UNCHANGED <<lock, leads>> /\ stage' = [stage EXCEPT ![i] = "jitter"]
      BY <2>7 DEF FindsNoLeader
    <3>2. /\ \A k \in Instances : ~Master(k)
          /\ \A c \in Instances : ~Candidate(c)
      BY <2>2, <3>1, Numbers, Times, LeaderAssumption
         DEF MasterOwns, Candidate, CandidateWaits, Fresh
    <3>3. /\ \A k \in Instances : ~Master(k)'
          /\ \A c \in Instances : ~Candidate(c)'
      BY <2>3, <3>1, <3>2 DEF Master, Candidate
    <3> QED
      BY <2>1, <3>3
  <2>8. CASE Claim(i)
    <3>1. /\ stage[i] = "jitter" /\ lock' = [owner |-> i, age |-> 0] /\ leads' = leads
          /\ stage' = [stage EXCEPT ![i] = "verify"] /\ due' = [due EXCEPT ![i] = Quarter]
      BY <2>8 DEF Claim, WriteLock
    <3>2. \A k \in Instances : ~Master(k)
      BY <2>2, <3>1 DEF MasterOwns
    <3>3. \A k \in Instances : ~Master(k)'
      BY <2>3, <3>1, <3>2 DEF Master
    <3>4. CandidateWaits(i)'
      BY <2>3, <3>1, Times DEF CandidateWaits, Stages
    <3>5. \A c \in Instances : Candidate(c)' => c = i
      BY <3>1 DEF Candidate
    <3> QED
      BY <2>1, <3>3, <3>4, <3>5
  <2>9. CASE Verify(i)
    <3>1. /\ stage[i] = "verify" /\ due[i] = 0 /\ UNCHANGED <<lock, due, ticker>>
          /\ stage' = [stage EXCEPT ![i] = "idle"]
          /\ leads' = IF lock.owner = i THEN leads \cup {i} ELSE leads
      BY <2>9 DEF Verify
    <3>2. \A c \in Instances : Candidate(c)' => c # i /\ Candidate(c)
      BY <2>3, <3>1 DEF Candidate
    <3>3. CASE lock.owner = i
      <4>1. CandidateWaits(i)
        BY <2>2, <3>1, <3>3 DEF Candidate
      <4>2. \A j \in Instances : stage[j] # "jitter" /\ stage'[j] # "jitter"
        BY <2>3, <3>1, <4>1, Numbers DEF CandidateWaits
      <4>3. lock.age <= Quarter /\ ticker[i] <= Heartbeat
        BY <3>1, <4>1, Numbers, Times DEF CandidateWaits
      <4>4. MasterOwns(i)'
        BY <3>1, <3>3, <4>2, <4>3, Numbers, Times DEF MasterOwns
      <4>5. \A k \in Instances : Master(k)' => k = i
        BY <2>2, <2>3, <3>1, <3>3 DEF Master, MasterOwns
      <4>6. \A c \in Instances : ~Candidate(c)'
        BY <3>2, <3>3 DEF Candidate
      <4> QED
        BY <2>1, <4>4, <4>5, <4>6
    <3>4. CASE lock.owner # i
      BY <2>1, <2>2, <2>3, <3>1, <3>2, <3>4 DEF Master, MasterOwns, CandidateWaits
    <3> QED
      BY <3>3, <3>4
  <2>10. CASE Stop(i)
    <3>1. /\ stage[i] = "idle" /\ leads' = leads \ {i} /\ UNCHANGED <<lock, due, ticker>>
          /\ stage' = [stage EXCEPT ![i] = IF i \in leads THEN "removing" ELSE "down"]
      BY <2>10 DEF Stop
    <3> QED
      BY <2>1, <2>2, <2>3, <3>1 DEF Master, MasterOwns, Candidate, CandidateWaits
  <2>11. CASE RemoveLock(i)
    <3>1. /\ stage[i] = "removing" /\ leads' = leads /\ lock' = [owner |-> "none", age |-> 0]
          /\ stage' = [stage EXCEPT ![i] = "down"]
      BY <2>11 DEF RemoveLock
    <3>2. \A k \in Instances : Master(k) => k = i
      BY <2>2, <3>1 DEF Master, MasterOwns
    <3>3. i \notin leads
      BY <3>1 DEF Stages
    <3>4. \A k \in Instances : ~Master(k)'
      BY <2>3, <3>1, <3>2, <3>3 DEF Master
    <3>5. \A c \in Instances : ~Candidate(c)'
      BY <3>1, LeaderAssumption DEF Candidate
    <3> QED
      BY <2>1, <3>4, <3>5
  <2> QED
    BY <1>3, <2>1, <2>4, <2>5, <2>6, <2>7, <2>8, <2>9, <2>10, <2>11
       DEF InstanceStep, FallBehind, Resume
<1> QED
  BY <1>1, <1>2, <1>3 DEF LeaderNext, InstanceStep

\* The one leader is the owner of the lock.
LEMMA InTimeIsSingle == LeaderTypeOK /\ InTime => OneLeaderInTime
<1> SUFFICES ASSUME LeaderTypeOK, InTime, ~everLate PROVE OneLeader
  BY DEF OneLeaderInTime
<1>1. \A k \in leads : lock.owner = k
  BY Numbers DEF InTime, Master, MasterOwns
<1>2. leads = {} \/ leads = {lock.owner}
  BY <1>1
<1>3. Cardinality(leads) = 0 \/ Cardinality(leads) = 1
  BY <1>2, FS_EmptySet, FS_Singleton
<1> QED
  BY <1>3 DEF OneLeader

\* While every instance gets to run in time, at most one leads (tryAcquireLock and
\* tick, leader_failover.go:134 and 188), through crashes, stops, starts and failed
\* writes at any moment.
THEOREM LeadersAreSingle == LeaderSpec => []OneLeaderInTime
<1>1. LeaderTypeOK /\ Stages /\ InTime /\ [LeaderNext]_leaderVars => InTime'
  BY InTimeStep
<1> QED
  BY <1>1, InTimeIsSingle, TypedSteps, InTimeInit, PTL DEF LeaderSpec

---------------------------------------------------------------------------
(* A leader in time. *)

\* The last disruption or the last write was at most t units ago.
QuietFor(t) == calm <= t \/ (lock.owner # "none" /\ lock.age <= t)

\* A leader has stamped the lock within an interval, or was elected just before.
Leading(k) == QuietFor(Heartbeat + Quarter - ticker[k])

\* An instance that waits to read the lock back has written it, or another has
\* since; if its own stamp is still there, its claim came in time.
Verifying(i) ==
    /\ QuietFor(Quarter - due[i])
    /\ lock.owner = i => calm + due[i] <= TakeoverTime

\* An instance that is about to write found the lock vacant in time.
Waiting(i) == calm + due[i] <= TakeoverTime - Quarter

\* A leader that stopped removes the file at once.
Removing(i) == calm = 0

\* A leader checks its stamp at once.
Renewed(i) == calm = 0 \/ (lock.owner # "none" /\ lock.age = 0)

\* What the bounds say of instance i.
Timed(i) ==
    /\ i \in leads => Leading(i)
    /\ stage[i] = "verify" => Verifying(i)
    /\ stage[i] = "jitter" => Waiting(i)
    /\ stage[i] = "removing" => Removing(i)
    /\ stage[i] = "renewed" => Renewed(i)

\* Nobody keeps a lock that is fresh: there was no disruption since it was
\* written, or it would have been kept.
Orphaned ==
    Fresh /\ lock.owner \notin leads /\ stage[lock.owner] # "verify" => calm <= lock.age

\* Instance i has noticed that the lock is vacant, or will in time.
Looks(i) ==
    \/ stage[i] = "idle" /\ calm + ticker[i] <= StaleThreshold + Heartbeat
    \/ stage[i] = "jitter" /\ calm + due[i] < StaleThreshold + Heartbeat + Quarter
    \/ stage[i] = "verify" /\ calm + due[i] <= Quarter
    \/ stage[i] = "removing" /\ calm = 0

\* While the lock is vacant, somebody does.
Watched == ~Fresh /\ leads = {} /\ Up # {} => \E i \in Instances : Looks(i)

\* This holds while nobody is late.
Calm == late = {} =>
    /\ \A i \in Instances : Timed(i)
    /\ Orphaned
    /\ Watched

\* All bounds hold when a disruption has just happened.
LEMMA CalmAtZero == ASSUME LeaderTypeOK', Stages', calm' = 0 PROVE Calm'
<1>1. /\ lock'.age \in Nat
      /\ \A i \in Instances : /\ due'[i] \in Nat /\ due'[i] <= Quarter
                              /\ ticker'[i] \in Nat /\ ticker'[i] <= Heartbeat
                              /\ stage'[i] \in {"down", "idle", "renewed", "jitter", "verify",
                                                "removing"}
      /\ leads' \subseteq Instances
  BY Times DEF LeaderTypeOK, Up
<1>2. \A k \in leads' : Leading(k)'
  BY <1>1, Times DEF Leading, QuietFor
<1>3. \A i \in Instances : /\ stage'[i] = "verify" => Verifying(i)'
                           /\ stage'[i] = "jitter" => Waiting(i)'
                           /\ stage'[i] = "removing" => Removing(i)'
                           /\ stage'[i] = "renewed" => Renewed(i)'
  BY <1>1, Times DEF Verifying, Waiting, Removing, Renewed, QuietFor
<1>4. Orphaned'
  BY <1>1 DEF Orphaned
<1>5. ASSUME leads' = {}, NEW i \in Up' PROVE Looks(i)'
  BY <1>1, <1>5, Times DEF Looks, Up, Stages
<1>6. Watched'
  BY <1>5 DEF Watched, Up
<1> QED
  BY <1>2, <1>3, <1>4, <1>6 DEF Calm, Timed

\* At first nobody is up.
LEMMA CalmInit == ASSUME LeaderInit PROVE Calm
BY LeaderAssumption
   DEF LeaderInit, Calm, Timed, Orphaned, Watched, Up, Fresh

\* While the lock is vacant, somebody is about to notice.
LEMMA Vacant ==
    ASSUME LeaderTypeOK, Calm, late = {}, ~Fresh, Up # {}
    PROVE  calm < StaleThreshold + Heartbeat + Quarter
<1>1. CASE leads = {}
  <2>1. PICK w \in Instances : Looks(w)
    BY <1>1 DEF Calm, Watched
  <2> QED
    BY <2>1, Numbers, Times DEF Looks
<1>2. CASE leads # {}
  <2>1. PICK k \in leads : Leading(k)
    BY <1>2, Numbers DEF Calm, Timed
  <2> QED
    BY <2>1, Numbers, Times DEF Leading, QuietFor, Fresh
<1> QED
  BY <1>1, <1>2

\* Time passes.
LEMMA CalmTicks ==
    ASSUME LeaderTypeOK, Stages, Calm, ClockTicks, late = {}
    PROVE  Calm'
<1>1. /\ lock'.owner = lock.owner
      /\ \/ lock'.age = lock.age + 1 /\ Fresh
         \/ lock' = lock /\ ~Fresh
      /\ calm' \in Nat /\ calm' <= calm + 1
  BY LockMoves, Numbers DEF ClockTicks, LeaderTypeOK, Locks, Fresh
<1>2. ASSUME NEW t \in Int, QuietFor(t)
      PROVE  calm' <= t + 1 \/ (lock'.owner # "none" /\ lock'.age <= t + 1)
  BY <1>1, <1>2, Numbers DEF QuietFor
<1>3. ASSUME NEW k \in leads' PROVE Leading(k)'
  <2>1. k \in leads /\ k \in Instances /\ ticker'[k] = ticker[k] - 1 /\ Leading(k)
    BY <1>3, TimePasses, Numbers DEF Calm, Timed
  <2>2. ticker[k] \in Int
    BY <2>1, Numbers
  <2> QED
    BY <1>2, <2>1, <2>2, Times DEF Leading, QuietFor
<1>4. ASSUME NEW i \in Instances
      PROVE  /\ stage'[i] = "verify" => Verifying(i)'
             /\ stage'[i] = "jitter" => Waiting(i)'
             /\ stage'[i] = "removing" => Removing(i)'
             /\ stage'[i] = "renewed" => Renewed(i)'
  <2>1. CASE stage[i] = "verify"
    <3>1. due'[i] = due[i] - 1 /\ due[i] \in Int /\ Verifying(i) /\ stage'[i] = stage[i]
      BY <2>1, TimePasses, Numbers DEF Calm, Timed
    <3>2. QuietFor(Quarter - due[i])'
      BY <1>2, <3>1, Times DEF Verifying, QuietFor
    <3>3. lock'.owner = i => calm' + due'[i] <= TakeoverTime
      BY <1>1, <3>1, Numbers, Times DEF Verifying
    <3> QED
      BY <2>1, <3>1, <3>2, <3>3 DEF Verifying
  <2>2. CASE stage[i] = "jitter"
    <3>1. due'[i] = due[i] - 1 /\ due[i] \in Int /\ Waiting(i) /\ stage'[i] = stage[i]
      BY <2>2, TimePasses, Numbers DEF Calm, Timed
    <3> QED
      BY <1>1, <2>2, <3>1, Numbers, Times DEF Waiting
  <2> QED
    BY <2>1, <2>2, TimePasses
<1>5. Orphaned'
  BY <1>1, Numbers, TimePasses DEF Orphaned, Calm, Fresh
<1>6. ASSUME ~Fresh', leads' = {}, Up' # {} PROVE \E i \in Instances : Looks(i)'
  <2>1. leads = {} /\ Up # {} /\ UNCHANGED stage
    BY <1>6, TimePasses DEF Up
  <2>2. ASSUME NEW w \in Instances, stage[w] \in {"idle", "jitter", "verify"}, Looks(w)
        PROVE  Looks(w)'
    BY <1>1, <2>1, <2>2, TimePasses, Numbers, Times DEF Looks
  <2>3. CASE ~Fresh
    <3>1. PICK w \in Instances : Looks(w)
      BY <2>1, <2>3 DEF Calm, Watched
    <3>2. stage[w] \in {"idle", "jitter", "verify"}
      BY <3>1, TimePasses DEF Looks
    <3> QED
      BY <2>2, <3>1, <3>2
  <2>4. CASE Fresh
    <3>1. lock.age = StaleThreshold /\ lock.owner \in Instances
      BY <1>1, <1>6, <2>4, Numbers, Times DEF Fresh
    <3>2. ASSUME NEW v \in Instances, stage[v] = "verify" PROVE Looks(v)'
      <4>1. Verifying(v)
        BY <3>2 DEF Calm, Timed
      <4>2. calm + due[v] <= Quarter
        BY <3>1, <4>1, Numbers, Times DEF Verifying, QuietFor
      <4> QED
        BY <2>2, <3>2, <4>2 DEF Looks
    <3>3. CASE stage[lock.owner] = "verify"
      BY <3>1, <3>2, <3>3
    <3>4. CASE stage[lock.owner] # "verify"
      <4>1. calm <= StaleThreshold
        BY <2>1, <2>4, <3>1, <3>4 DEF Calm, Orphaned
      <4>2. PICK w \in Instances : stage[w] # "down"
        BY <2>1 DEF Up
      <4>3. stage[w] \in {"idle", "jitter", "verify"}
        BY <4>2, TimePasses DEF LeaderTypeOK
      <4>4. stage[w] \in {"idle", "jitter"} => Looks(w)'
        BY <1>1, <2>1, <4>1, TimePasses, Numbers, Times DEF Looks, Stages
      <4> QED
        BY <3>2, <4>3, <4>4
    <3> QED
      BY <3>3, <3>4
  <2> QED
    BY <2>3, <2>4
<1>7. Watched'
  BY <1>6 DEF Watched
<1> QED
  BY <1>3, <1>4, <1>5, <1>7, Numbers DEF Calm, Timed, ClockTicks

\* An instance that does not move keeps its times, as long as the lock does not
\* get older.
LEMMA TimesKept ==
    ASSUME LeaderTypeOK, NEW i \in Instances, Timed(i), calm' = calm,
           stage'[i] = stage[i], due'[i] = due[i], ticker'[i] = ticker[i],
           i \in leads' => i \in leads,
           lock' = lock \/ (lock'.age = 0 /\ lock'.owner \in Instances \ {i})
    PROVE  Timed(i)'
<1>1. \A t \in Nat : QuietFor(t) => QuietFor(t)'
  BY LeaderAssumption DEF QuietFor
<1>2. /\ Quarter - due[i] \in Nat /\ Heartbeat + Quarter - ticker[i] \in Nat
  BY Numbers, Times
<1>3. QuietFor(Quarter - due[i]) => QuietFor(Quarter - due[i])'
  BY <1>1, <1>2 DEF QuietFor
<1>4. QuietFor(Heartbeat + Quarter - ticker[i]) => QuietFor(Heartbeat + Quarter - ticker[i])'
  BY <1>1, <1>2 DEF QuietFor
<1>5. i \in leads' => Leading(i)'
  BY <1>4 DEF Timed, Leading, QuietFor
<1>6. stage'[i] = "verify" => Verifying(i)'
  BY <1>3 DEF Timed, Verifying, QuietFor
<1> QED
  BY <1>5, <1>6, LeaderAssumption DEF Timed, Waiting, Removing, Renewed

\* An instance moves, and that is no disruption.
LEMMA CalmMoves ==
    ASSUME LeaderTypeOK, LeaderTypeOK', Stages, Stages', Calm, NEW i \in Instances,
           InstanceStep(i), late' = {}, calm' # 0
    PROVE  Calm'
<1>0. /\ stage \in [Instances -> {"down", "idle", "renewed", "jitter", "verify", "removing"}]
      /\ due \in [Instances -> 0..Quarter] /\ ticker \in [Instances -> 0..Heartbeat]
  BY DEF LeaderTypeOK
<1>1. /\ late = {} /\ calm' = calm
      /\ \/ StartInstance(i) \/ Renew(i) \/ CheckRenewal(i) \/ Follow(i) \/ FindsNoLeader(i)
         \/ Claim(i) \/ Verify(i) \/ RemoveLock(i)
      /\ StartInstance(i) => Up # {}
  BY DEF InstanceStep, StartInstance, Renew, RenewFails, CheckRenewal, Follow, FindsNoLeader,
     Claim, ClaimFails, Verify, Stop, RemoveLock, CrashInstance, FallBehind, Resume, Disrupt,
     Undisturbed
<1>2. /\ \A j \in Instances : Timed(j)
      /\ Orphaned /\ Watched
  BY <1>1 DEF Calm
<1>3. ~RemoveLock(i)
  BY <1>1, <1>2 DEF RemoveLock, Timed, Removing
<1>4. \A j \in Instances : j # i =>
         /\ stage'[j] = stage[j] /\ due'[j] = due[j] /\ ticker'[j] = ticker[j]
         /\ j \in leads' <=> j \in leads
  BY <1>0, <1>1, <1>3 DEF StartInstance, Renew, CheckRenewal, Follow, FindsNoLeader, Claim,
     Verify, TakeTick
<1>5. ASSUME lock' = lock \/ lock' = [owner |-> i, age |-> 0], NEW j \in Instances, j # i
      PROVE  Timed(j)'
  <2>1. lock' = lock \/ (lock'.age = 0 /\ lock'.owner \in Instances \ {j})
    BY <1>5
  <2> QED
    BY <1>1, <1>2, <1>4, <1>5, <2>1, TimesKept
<1>6. SUFFICES Timed(i)' /\ Orphaned' /\ Watched'
             /\ (lock' = lock \/ lock' = [owner |-> i, age |-> 0])
  BY <1>5 DEF Calm
<1>7. ASSUME NEW w \in Instances, w # i, Looks(w) PROVE Looks(w)'
  BY <1>1, <1>4, <1>7 DEF Looks
<1>8. CASE StartInstance(i)
  <2>1. /\ stage[i] = "down" /\ stage' = [stage EXCEPT ![i] = "idle"] /\ Up # {}
        /\ UNCHANGED <<lock, leads>>
    BY <1>1, <1>8 DEF StartInstance
  <2>2. i \notin leads
    BY <2>1, Numbers
  <2>3. Timed(i)'
    BY <1>0, <2>1, <2>2 DEF Timed
  <2>4. Orphaned'
    BY <1>0, <1>1, <1>2, <2>1 DEF Orphaned, Fresh
  <2>5. Watched'
    BY <1>2, <1>7, <2>1 DEF Watched, Fresh, Looks
  <2> QED
    BY <2>1, <2>3, <2>4, <2>5
<1>9. CASE Renew(i)
  <2>1. /\ i \in leads /\ lock' = [owner |-> i, age |-> 0] /\ leads' = leads
        /\ stage' = [stage EXCEPT ![i] = "renewed"]
    BY <1>9 DEF Renew, WriteLock
  <2>2. ticker'[i] \in Nat /\ ticker'[i] <= Heartbeat
    BY Times DEF LeaderTypeOK
  <2>3. Timed(i)'
    BY <1>0, <2>1, <2>2, Times, LeaderAssumption DEF Timed, Leading, Renewed, QuietFor
  <2>4. Orphaned' /\ Watched'
    BY <2>1, Times, LeaderAssumption DEF Orphaned, Watched, Fresh
  <2> QED
    BY <2>1, <2>3, <2>4
<1>10. CASE CheckRenewal(i)
  <2>1. /\ stage[i] = "renewed" /\ stage' = [stage EXCEPT ![i] = "idle"]
        /\ UNCHANGED <<lock, due, ticker>>
        /\ leads' = IF lock.owner = i THEN leads ELSE leads \ {i}
    BY <1>10 DEF CheckRenewal
  <2>2. i \in leads /\ Renewed(i)
    BY <1>2, <2>1 DEF Stages, Timed
  <2>3. Fresh
    BY <1>1, <2>2, Times DEF Renewed, Fresh
  <2>4. Timed(i)'
    BY <1>0, <1>1, <1>2, <2>1, <2>2 DEF Timed, Leading, QuietFor
  <2>5. Orphaned'
    BY <1>0, <1>1, <1>2, <2>1, <2>2 DEF Orphaned, Fresh
  <2>6. Watched'
    BY <2>1, <2>3 DEF Watched, Fresh
  <2> QED
    BY <2>1, <2>4, <2>5, <2>6
<1>11. CASE Follow(i)
  <2>1. i \notin leads /\ stage[i] = "idle" /\ Fresh /\ UNCHANGED <<lock, stage, due, leads>>
    BY <1>11 DEF Follow, TakeTick
  <2>2. Timed(i)'
    BY <2>1 DEF Timed
  <2>3. Orphaned' /\ Watched'
    BY <1>1, <1>2, <2>1 DEF Orphaned, Watched, Fresh
  <2> QED
    BY <2>1, <2>2, <2>3
<1>12. CASE FindsNoLeader(i)
  <2>1. /\ i \notin leads /\ stage[i] = "idle" /\ ticker[i] = 0 /\ ~Fresh
        /\ UNCHANGED <<lock, leads>>
        /\ stage' = [stage EXCEPT ![i] = "jitter"]
        /\ due'[i] \in 0..Quarter - 1
    BY <1>0, <1>12 DEF FindsNoLeader, TakeTick
  <2>2. calm < StaleThreshold + Heartbeat + Quarter
    <3>1. Up # {}
      BY <2>1 DEF Up
    <3> QED
      BY <1>1, <2>1, <3>1, Vacant
  <2>3. Timed(i)'
    BY <1>0, <1>1, <2>1, <2>2, Numbers, Times DEF Timed, Waiting
  <2>4. Orphaned'
    BY <2>1 DEF Orphaned, Fresh
  <2>5. ASSUME Looks(i) PROVE Looks(i)'
    BY <1>0, <1>1, <2>1, <2>5, Numbers, Times DEF Looks
  <2>6. ASSUME leads' = {} PROVE \E w \in Instances : Looks(w)'
    <3>1. PICK w \in Instances : Looks(w)
      BY <1>2, <2>1, <2>6 DEF Watched, Up
    <3> QED
      BY <1>7, <2>5, <3>1
  <2>7. Watched'
    BY <2>6 DEF Watched
  <2> QED
    BY <2>1, <2>3, <2>4, <2>7
<1>13. CASE Claim(i)
  <2>1. /\ stage[i] = "jitter" /\ due[i] = 0 /\ lock' = [owner |-> i, age |-> 0] /\ leads' = leads
        /\ stage' = [stage EXCEPT ![i] = "verify"] /\ due'[i] = Quarter
    BY <1>0, <1>13 DEF Claim, WriteLock
  <2>2. i \notin leads /\ Waiting(i)
    BY <1>2, <2>1 DEF Stages, Timed
  <2>3. Timed(i)'
    BY <1>0, <1>1, <2>1, <2>2, Numbers, Times, LeaderAssumption
       DEF Timed, Waiting, Verifying, QuietFor
  <2>4. Orphaned' /\ Watched'
    BY <1>0, <2>1, Times, LeaderAssumption DEF Orphaned, Watched, Fresh
  <2> QED
    BY <2>1, <2>3, <2>4
<1>14. CASE Verify(i)
  <2>1. /\ stage[i] = "verify" /\ due[i] = 0 /\ UNCHANGED <<lock, due, ticker>>
        /\ stage' = [stage EXCEPT ![i] = "idle"]
        /\ leads' = IF lock.owner = i THEN leads \cup {i} ELSE leads
    BY <1>14 DEF Verify
  <2>2. i \notin leads /\ Verifying(i)
    BY <1>2, <2>1 DEF Stages, Timed
  <2>3. Timed(i)'
    <3>1. stage'[i] = "idle"
      BY <1>0, <2>1
    <3>2. QuietFor(Quarter)
      BY <2>1, <2>2, Numbers, Times DEF Verifying, QuietFor
    <3>3. Leading(i)'
      BY <1>1, <2>1, <3>2, Numbers, Times DEF Leading, QuietFor
    <3> QED
      BY <3>1, <3>3 DEF Timed
  <2>4. Orphaned'
    BY <1>0, <1>1, <1>2, <2>1 DEF Orphaned, Fresh
  <2>5. ASSUME lock.owner # i, Looks(i), ~Fresh PROVE Looks(i)'
    BY <1>0, <1>1, <2>1, <2>5, Numbers, Times DEF Looks
  <2>6. ASSUME leads' = {}, ~Fresh PROVE \E w \in Instances : Looks(w)'
    <3>1. lock.owner # i /\ leads = {}
      BY <2>1, <2>6
    <3>2. PICK w \in Instances : Looks(w)
      BY <1>2, <2>1, <2>6, <3>1 DEF Watched, Up
    <3> QED
      BY <1>7, <2>5, <2>6, <3>1, <3>2
  <2>7. Watched'
    BY <2>1, <2>6 DEF Watched, Fresh
  <2> QED
    BY <2>1, <2>3, <2>4, <2>7
<1> QED
  BY <1>1, <1>3, <1>8, <1>9, <1>10, <1>11, <1>12, <1>13, <1>14

\* Every step keeps Calm.
LEMMA CalmStep ==
    ASSUME LeaderTypeOK, LeaderTypeOK', Stages, Stages', Calm, [LeaderNext]_leaderVars
    PROVE  Calm'
<1>1. CASE late' # {}
  BY <1>1 DEF Calm
<1>2. CASE calm' = 0
  BY <1>2, CalmAtZero
<1>3. CASE late' = {} /\ calm' # 0
  <2>1. CASE UNCHANGED leaderVars
    BY <2>1 DEF leaderVars, Calm, Timed, Leading, Verifying, Waiting, Removing, Renewed, Orphaned,
       Watched, QuietFor, Looks, Fresh, Up
  <2>2. CASE ClockTicks
    BY <1>3, <2>2, CalmTicks DEF ClockTicks
  <2>3. ASSUME NEW i \in Instances, InstanceStep(i) PROVE Calm'
    BY <1>3, <2>3, CalmMoves
  <2> QED
    BY <2>1, <2>2, <2>3 DEF LeaderNext, InstanceStep
<1> QED
  BY <1>1, <1>2, <1>3

\* Whoever holds a fresh lock without leading has written it lately.
LEMMA CalmIsInTime == ASSUME LeaderTypeOK, Calm PROVE TakeoverInTime
<1> SUFFICES ASSUME Up # {}, late = {}, leads = {} PROVE calm <= TakeoverTime
  BY Numbers, Times DEF TakeoverInTime
<1>1. CASE ~Fresh
  BY <1>1, Vacant, Numbers, Times
<1>2. CASE Fresh
  <2>1. lock.owner \in Instances /\ lock.age <= StaleThreshold
    BY <1>2, Numbers DEF Fresh
  <2>2. CASE stage[lock.owner] = "verify"
    <3>1. Verifying(lock.owner)
      BY <2>1, <2>2 DEF Calm, Timed
    <3> QED
      BY <2>1, <3>1, Numbers, Times DEF Verifying
  <2>3. CASE stage[lock.owner] # "verify"
    <3>1. calm <= lock.age
      BY <1>2, <2>3 DEF Calm, Orphaned
    <3> QED
      BY <2>1, <3>1, Numbers, Times
  <2> QED
    BY <2>2, <2>3
<1> QED
  BY <1>1, <1>2

\* When nothing has gone wrong for TakeoverTime, an instance that is up is led
\* (leader_failover.go:167), whether or not some instance was ever late: a lock that
\* was left goes stale, somebody finds it so within an interval, and those who compete
\* for it have all written within two random waits and then read it back.
THEOREM TakeoversAreInTime == LeaderSpec => []TakeoverInTime
<1>1. LeaderTypeOK /\ LeaderTypeOK' /\ Stages /\ Stages' /\ Calm /\ [LeaderNext]_leaderVars => Calm'
  BY CalmStep
<1>2. LeaderTypeOK /\ Calm => TakeoverInTime
  BY CalmIsInTime
<1> QED
  BY <1>1, <1>2, CalmInit, TypedSteps, PTL DEF LeaderSpec
=============================================================================
