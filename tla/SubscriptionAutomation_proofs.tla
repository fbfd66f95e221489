--------------------- MODULE SubscriptionAutomation_proofs ---------------------
(***************************************************************************)
(* Safety of the subscription automation for every queue, schedule, target *)
(* and number of restarts.  When one supervisor ticks a repository, the    *)
(* invariant AutoIInv adds to the checked properties                       *)
(*   - JobPlaces: the state of a job says where its item is;               *)
(*   - HandsFree: what a ticker is about to launch or resume found no      *)
(*     other job active, and while it is busy none becomes so;             *)
(*   - SpendRoom: an active job, one about to be launched and a parked     *)
(*     session fit into the target, and unless the session ran out of      *)
(*     quota into what this window has left of it.                         *)
(* With any number of supervisors SharedIInv holds: the schedule is kept,  *)
(* and what the controller or a ticker holds was accepted (HeldAccepted).  *)
(***************************************************************************)
EXTENDS SubscriptionAutomation, FiniteSetTheorems, TLAPS

\* A repository is ticked by one supervisor (supervisor_manager.go).
SingleTicker == \A s, t \in Tickers : s = t

Launches(t, i) == hand[t].does = "launch" /\ hand[t].item = i

JobPlaces ==
  \A i \in Entries :
    /\ job[i] \in {"running", "ended", "stale"} <=> ctl.active = i
    /\ job[i] = "waiting" <=>
         i \in ctl.queue \/ ctl.parked = i \/ \E t \in Tickers : Launches(t, i)
    /\ i \in ctl.queue => ctl.parked # i /\ \A t \in Tickers : ~Launches(t, i)

HandsFree ==
  /\ ctl.active # NoItem => ctl.parked = NoItem
  /\ \A t \in Tickers :
       /\ hand[t].does = "nothing" => hand[t] = Idle
       /\ hand[t].does = "launch" =>
            ctl.active = NoItem /\ ctl.parked = NoItem /\ hand[t].item \in Entries
       /\ hand[t].does = "resume" =>
            /\ ctl.active = NoItem /\ ~ctl.exhausted
            /\ ctl.parked # NoItem /\ hand[t].item = ctl.parked

\* The runs up to the last one recorded, and no others, were accepted
\* (enqueueDueLocked, subscription_automation.go:457).
ScheduleKept ==
  /\ ctl.lastRun <= dueRun
  /\ \A r \in Runs : job[r] # "new" <=> r <= ctl.lastRun

Lost == {i \in Entries : job[i] = "lost"}

\* A crash loses one launch of each ticker at most.
LossesBounded ==
  IsFiniteSet(Lost) /\ Cardinality(Lost) <= autoCrashes * Cardinality(Tickers)

SpendRoom ==
  \A i \in Entries :
    ctl.active = i \/ ctl.parked = i \/ (\E t \in Tickers : Launches(t, i)) =>
      /\ Estimate[i] <= Target
      /\ \/ ctl.parked = i /\ ctl.exhausted
         \/ ctl.spend - ctl.extra + Estimate[i] <= Target

Ctls == [on : BOOLEAN, queue : SUBSET Entries, active : ItemOrNone,
         parked : ItemOrNone, resumable : BOOLEAN, backoff : BOOLEAN,
         exhausted : BOOLEAN, spend : Nat, extra : Nat, lastRun : 0..MaxRuns]
Hands == [does : {"nothing", "launch", "resume"}, item : ItemOrNone]

AutoIInv ==
  /\ AutomationTypeOK
  /\ JobPlaces /\ HandsFree /\ ScheduleKept /\ LossesBounded
  /\ SpendRoom /\ SpendWithinTarget

-----------------------------------------------------------------------------
(* The operators on the state of the controller. *)

LEMMA Types ==
    AutomationTypeOK <=>
      /\ ctl \in Ctls
      /\ kind \in [Entries -> Kinds \cup {"none"}]
      /\ job \in [Entries -> {"new", "waiting", "running", "ended", "stale", "settled", "lost"}]
      /\ hand \in [Tickers -> Hands]
      /\ reporters \subseteq Entries
      /\ windowOver \in BOOLEAN
      /\ dueRun \in 0..MaxRuns
      /\ mishaps \in 0..MaxMishaps /\ autoCrashes \in 0..MaxAutoCrashes
BY DEF AutomationTypeOK, Ctls, Hands

LEMMA ItemKinds ==
    /\ NoItem \notin Entries /\ Runs \subseteq Entries /\ Requests \subseteq Entries
    /\ Requests \cap Runs = {} /\ Runs \subseteq Nat
    /\ Target \in Nat \ {0} /\ MaxRuns \in Nat /\ MaxSpend \in Nat
    /\ \A i \in Entries : Estimate[i] \in Nat
BY AutomationAssumption DEF Entries, Runs

\* What two states of the controller have in common when only its account and
\* its policy differ.
SameWork(c, d) ==
  /\ d.queue = c.queue /\ d.active = c.active /\ d.parked = c.parked /\ d.lastRun = c.lastRun

\* A reset of the window leaves the work alone and empties the account.
LEMMA WindowMoves ==
    ASSUME NEW c \in Ctls
    PROVE  /\ EnsureWindow(c) \in Ctls /\ SameWork(c, EnsureWindow(c))
           /\ \/ EnsureWindow(c) = c
              \/ /\ EnsureWindow(c).spend = 0 /\ EnsureWindow(c).extra = 0
                 /\ ~EnsureWindow(c).exhausted
<1>1. [c EXCEPT !.spend = 0, !.extra = 0, !.exhausted = FALSE] \in Ctls
  BY DEF Ctls
<1> QED
  BY <1>1 DEF EnsureWindow, SameWork, Ctls

\* A job adds what it spent to the account, and no more than its estimate to
\* what counts against the target.
LEMMA PaidMoves ==
    ASSUME NEW c \in Ctls, NEW i \in Entries, NEW spent \in Nat
    PROVE  LET d == Paid(c, i, spent)
           IN /\ d \in Ctls /\ SameWork(c, d)
              /\ d.exhausted = c.exhausted
              /\ d.spend - d.extra <= c.spend - c.extra + Estimate[i]
<1> DEFINE n == c.spend + spent
           m == c.extra + Overrun(i, spent)
<1>1. c.spend \in Nat /\ c.extra \in Nat /\ Estimate[i] \in Nat
  BY ItemKinds DEF Ctls
<1>2. n \in Nat /\ m \in Nat /\ n - m <= c.spend - c.extra + Estimate[i]
  BY <1>1 DEF Overrun
<1>3. Paid(c, i, spent) = [c EXCEPT !.spend = n, !.extra = m]
  BY DEF Paid
<1> HIDE DEF n, m
<1> QED
  BY <1>2, <1>3 DEF Ctls, SameWork

\* A job that has ended is cleared, and its item is parked when the quota was
\* exhausted.
LEMMA HandledMoves ==
    ASSUME NEW c \in Ctls, NEW spent \in Nat, NEW quota \in BOOLEAN, NEW id \in BOOLEAN,
           quota => ActiveEnded(c) /\ kind[c.active] = "session"
    PROVE  LET h == HandleActive(c, spent, quota, id)
           IN /\ h \in Ctls
              /\ h.queue = c.queue /\ h.lastRun = c.lastRun
              /\ h.active = IF ActiveEnded(c) THEN NoItem ELSE c.active
              /\ h.parked = IF quota THEN c.active ELSE c.parked
              /\ h.exhausted <=> (quota \/ c.exhausted)
              /\ \/ h.spend = c.spend /\ h.extra = c.extra
                 \/ /\ ActiveEnded(c)
                    /\ h.spend - h.extra <= c.spend - c.extra + Estimate[c.active]
<1> DEFINE cleared == ClearActive(c, c.active)
           paid == Paid(cleared, c.active, spent)
           parked == [paid EXCEPT !.exhausted = TRUE, !.parked = c.active, !.resumable = id, !.backoff = FALSE]
<1>1. cleared = [c EXCEPT !.active = NoItem]
  BY DEF ClearActive
<1>2. cleared \in Ctls
  BY <1>1 DEF Ctls, ItemOrNone
<1>3. ASSUME ActiveEnded(c)
      PROVE  /\ paid \in Ctls /\ paid.active = NoItem
             /\ paid.queue = c.queue /\ paid.lastRun = c.lastRun
             /\ paid.parked = c.parked /\ paid.exhausted = c.exhausted
             /\ paid.spend - paid.extra <= c.spend - c.extra + Estimate[c.active]
  <2>1. c.active \in Entries
    BY <1>3 DEF ActiveEnded, Ctls, ItemOrNone
  <2>2. /\ cleared.active = NoItem /\ cleared.queue = c.queue /\ cleared.lastRun = c.lastRun
        /\ cleared.parked = c.parked /\ cleared.exhausted = c.exhausted
        /\ cleared.spend = c.spend /\ cleared.extra = c.extra
    BY <1>1 DEF Ctls
  <2> HIDE DEF cleared
  <2> QED
    BY <1>2, <2>1, <2>2, PaidMoves DEF SameWork
<1>4. ASSUME ActiveEnded(c)
      PROVE  /\ parked \in Ctls /\ parked.active = NoItem
             /\ parked.queue = c.queue /\ parked.lastRun = c.lastRun
             /\ parked.parked = c.active /\ parked.exhausted
             /\ parked.spend - parked.extra <= c.spend - c.extra + Estimate[c.active]
  <2>1. c.active \in ItemOrNone
    BY DEF Ctls
  <2> HIDE DEF paid
  <2> QED
    BY <1>3, <1>4, <2>1 DEF Ctls
<1>5. CASE ~ActiveEnded(c)
  BY <1>5 DEF HandleActive
<1>6. CASE ActiveEnded(c) /\ kind[c.active] = "cycle"
  <2>1. ~quota /\ HandleActive(c, spent, quota, id) = cleared
    BY <1>6 DEF HandleActive
  <2> QED
    BY <1>1, <1>2, <1>6, <2>1 DEF Ctls
<1>7. CASE ActiveEnded(c) /\ kind[c.active] # "cycle" /\ ~quota
  <2>1. HandleActive(c, spent, quota, id) = paid
    BY <1>7 DEF HandleActive
  <2> QED
    BY <1>3, <1>7, <2>1
<1>8. CASE ActiveEnded(c) /\ kind[c.active] # "cycle" /\ quota
  <2>1. HandleActive(c, spent, quota, id) = parked
    BY <1>8 DEF HandleActive
  <2> HIDE DEF parked, paid, cleared
  <2> QED
    BY <1>4, <1>8, <2>1
<1> QED
  BY <1>5, <1>6, <1>7, <1>8

\* The due runs of the schedule join the queue.
LEMMA DueMoves ==
    ASSUME NEW c \in Ctls, dueRun \in 0..MaxRuns, c.lastRun <= dueRun
    PROVE  LET d == EnqueueDue(c)
           IN /\ d \in Ctls
              /\ d.queue = c.queue \cup DueRuns(c)
              /\ d.active = c.active /\ d.parked = c.parked
              /\ d.spend = c.spend /\ d.extra = c.extra /\ d.exhausted = c.exhausted
              /\ DueRuns(c) \subseteq Runs
              /\ d.lastRun <= dueRun
              /\ \A r \in Runs : r \in DueRuns(c) <=> c.lastRun < r /\ r <= d.lastRun
              /\ c.lastRun <= d.lastRun
<1>1. c.lastRun \in 0..MaxRuns /\ c.queue \in SUBSET Entries
  BY DEF Ctls
<1>2. DueRuns(c) \subseteq Runs /\ DueRuns(c) \in SUBSET Entries
  BY <1>1, ItemKinds DEF DueRuns, Runs
<1>3. CASE DueRuns(c) = {}
  BY <1>1, <1>3 DEF EnqueueDue, Runs
<1>4. CASE DueRuns(c) # {}
  <2>1. DueRuns(c) = c.lastRun + 1 .. dueRun
    BY <1>4 DEF DueRuns
  <2>2. EnqueueDue(c) = [c EXCEPT !.queue = c.queue \cup DueRuns(c), !.lastRun = dueRun]
    BY <1>4 DEF EnqueueDue
  <2>3. EnqueueDue(c) \in Ctls
    BY <1>1, <1>2, <2>2 DEF Ctls
  <2> QED
    BY <1>1, <1>2, <2>1, <2>2, <2>3 DEF Ctls, Runs
<1> QED
  BY <1>3, <1>4

\* What is dispatched: nothing, the parked session or an item of the queue, and
\* only while no job is active, to a budget with room for it.
LEMMA DispatchMoves ==
    ASSUME NEW c \in Ctls, NEW a \in NextActions(c)
    PROVE  /\ a \in Hands
           /\ Dispatched(c, a) \in Ctls
           /\ Dispatched(c, a).active = c.active /\ Dispatched(c, a).parked = c.parked
           /\ Dispatched(c, a).spend = c.spend /\ Dispatched(c, a).extra = c.extra
           /\ Dispatched(c, a).exhausted = c.exhausted /\ Dispatched(c, a).lastRun = c.lastRun
           /\ \/ a = Idle /\ Dispatched(c, a).queue = c.queue
              \/ /\ a = [does |-> "resume", item |-> c.parked]
                 /\ c.parked # NoItem /\ c.active = NoItem /\ ~c.exhausted
                 /\ Dispatched(c, a).queue = c.queue
              \/ /\ a.does = "launch" /\ a.item \in c.queue
                 /\ c.parked = NoItem /\ c.active = NoItem
                 /\ c.spend + Estimate[a.item] <= Target
                 /\ Dispatched(c, a).queue = c.queue \ {a.item}
<1>1. c.queue \subseteq Entries /\ c.parked \in ItemOrNone /\ Idle \in Hands /\ Idle.does = "nothing"
  BY DEF Ctls, Hands, Idle, ItemOrNone
<1>2. CASE a = Idle
  BY <1>1, <1>2 DEF Dispatched
<1>3. CASE a # Idle /\ c.parked # NoItem
  <2>1. a = [does |-> "resume", item |-> c.parked] /\ c.active = NoItem /\ ~c.exhausted
    BY <1>3 DEF NextActions, MayDispatch
  <2>2. a \in Hands /\ a.does = "resume"
    BY <1>1, <2>1 DEF Hands
  <2> QED
    BY <1>3, <2>1, <2>2 DEF Dispatched
<1>4. CASE a # Idle /\ c.parked = NoItem
  <2>1. /\ MayDispatch(c)
        /\ \E i \in c.queue : a = [does |-> "launch", item |-> i] /\ Affordable(c, i)
    BY <1>4 DEF NextActions
  <2>2. PICK i \in c.queue : a = [does |-> "launch", item |-> i] /\ Affordable(c, i)
    BY <2>1
  <2>3. a \in Hands /\ a.does = "launch" /\ a.item = i
    BY <1>1, <2>2 DEF Hands, ItemOrNone
  <2>4. Dispatched(c, a) = [c EXCEPT !.queue = c.queue \ {i}]
    BY <2>3 DEF Dispatched
  <2>5. Dispatched(c, a) \in Ctls
    BY <1>1, <2>4 DEF Ctls
  <2> QED
    BY <1>4, <2>1, <2>3, <2>4, <2>5 DEF Ctls, MayDispatch, Affordable
<1> QED
  BY <1>2, <1>3, <1>4

-----------------------------------------------------------------------------
(* The steps. *)

\* A step after which the same items are lost, and no crash, keeps the bound.
LEMMA LossesKept ==
    ASSUME LossesBounded, UNCHANGED autoCrashes,
           \A i \in Entries : job'[i] = "lost" <=> job[i] = "lost"
    PROVE  LossesBounded'
<1>1. Lost' = Lost
  BY DEF Lost
<1> QED
  BY <1>1 DEF LossesBounded

\* There is one ticker, or there is none.
LEMMA TickerCount ==
    ASSUME SingleTicker
    PROVE  /\ Cardinality(Tickers) \in {0, 1}
           /\ Tickers # {} => Cardinality(Tickers) = 1
<1>1. CASE Tickers = {}
  BY <1>1, FS_EmptySet
<1>2. CASE Tickers # {}
  <2>1. PICK t \in Tickers : Tickers = {t}
    BY <1>2 DEF SingleTicker
  <2>2. Cardinality({t}) = 1
    BY FS_Singleton, Zenon
  <2> QED
    BY <2>1, <2>2
<1> QED
  BY <1>1, <1>2

LEMMA AutoInit == ASSUME SingleTicker, AutomationInit PROVE AutoIInv
<1>1. ctl \in Ctls /\ ctl.queue = {} /\ ctl.active = NoItem /\ ctl.parked = NoItem
      /\ ctl.lastRun = 0 /\ ctl.spend = 0 /\ ctl.extra = 0
  BY ItemKinds DEF AutomationInit, Ctls, ItemOrNone
<1>2. \A t \in Tickers : hand[t] = Idle /\ Idle \in Hands /\ Idle.does = "nothing"
  BY DEF AutomationInit, Idle, Hands, ItemOrNone
<1>3. AutomationTypeOK
  <2>1. 0 \in 0..MaxRuns /\ 0 \in 0..MaxMishaps /\ 0 \in 0..MaxAutoCrashes
    BY AutomationAssumption
  <2>2. hand \in [Tickers -> Hands]
    BY <1>2 DEF AutomationInit
  <2> QED
    BY <1>1, <2>1, <2>2, Types DEF AutomationInit
<1>4. JobPlaces
  BY <1>1, <1>2, ItemKinds DEF AutomationInit, JobPlaces, Launches
<1>5. HandsFree
  BY <1>1, <1>2 DEF HandsFree
<1>6. ScheduleKept
  BY <1>1, ItemKinds DEF AutomationInit, ScheduleKept, Runs
<1>7. LossesBounded
  <2>1. Lost = {}
    BY DEF AutomationInit, Lost
  <2>2. IsFiniteSet({}) /\ Cardinality({}) = 0
    BY FS_EmptySet
  <2>3. 0 * Cardinality(Tickers) = 0
    BY TickerCount
  <2> QED
    BY <2>1, <2>2, <2>3 DEF LossesBounded, AutomationInit
<1>8. SpendRoom /\ SpendWithinTarget
  BY <1>1, <1>2, ItemKinds DEF SpendRoom, SpendWithinTarget, Launches
<1> QED
  BY <1>3, <1>4, <1>5, <1>6, <1>7, <1>8 DEF AutoIInv

\* A step that leaves the jobs, the hands and the work alone, and the account
\* unless the window is reset.
LEMMA AutoQuiet ==
    ASSUME AutoIInv, AutomationTypeOK', UNCHANGED <<job, hand, autoCrashes>>,
           SameWork(ctl, ctl'), dueRun' \in Nat, dueRun <= dueRun',
           \/ ctl'.spend = ctl.spend /\ ctl'.extra = ctl.extra /\ ctl'.exhausted = ctl.exhausted
           \/ ctl'.spend = 0 /\ ctl'.extra = 0 /\ ~ctl'.exhausted
    PROVE  AutoIInv'
<1> USE DEF AutoIInv
<1>1. ctl \in Ctls /\ ctl' \in Ctls /\ dueRun \in Nat /\ ctl.lastRun \in Nat
  BY ItemKinds DEF AutomationTypeOK, Ctls
<1>2. JobPlaces'
  BY DEF JobPlaces, SameWork, Launches
<1>3. HandsFree'
  BY DEF HandsFree, SameWork
<1>4. ScheduleKept'
  BY <1>1 DEF ScheduleKept, SameWork
<1>5. LossesBounded'
  BY LossesKept
<1>6. SpendRoom'
  BY <1>1, ItemKinds DEF SpendRoom, SameWork, Launches
<1>7. SpendWithinTarget'
  BY <1>1, ItemKinds DEF SpendWithinTarget
<1> QED
  BY <1>2, <1>3, <1>4, <1>5, <1>6, <1>7

LEMMA AutoClock ==
    ASSUME AutoIInv, SetPolicy \/ Status \/ WindowPasses \/ BackoffPasses \/ RunFallsDue
    PROVE  AutoIInv'
<1>1. ctl \in Ctls /\ dueRun \in 0..MaxRuns /\ windowOver \in BOOLEAN
  BY Types DEF AutoIInv
<1>2. CASE SetPolicy
  <2> DEFINE c == [ctl EXCEPT !.on = ~@]
  <2>1. c \in Ctls /\ SameWork(ctl, c) /\ c.spend = ctl.spend /\ c.extra = ctl.extra
        /\ c.exhausted = ctl.exhausted
    BY <1>1 DEF Ctls, SameWork
  <2>2. ctl' = EnsureWindow(c) /\ windowOver' \in BOOLEAN
        /\ UNCHANGED <<kind, job, hand, reporters, dueRun, mishaps, autoCrashes>>
    BY <1>2, <1>1 DEF SetPolicy, SeesWindow
  <2>3. AutomationTypeOK'
    BY <2>1, <2>2, WindowMoves, Types DEF AutoIInv, AutomationTypeOK, Ctls
  <2>4. SameWork(ctl, ctl')
    BY <2>1, <2>2, WindowMoves DEF SameWork
  <2>5. \/ ctl'.spend = ctl.spend /\ ctl'.extra = ctl.extra /\ ctl'.exhausted = ctl.exhausted
        \/ ctl'.spend = 0 /\ ctl'.extra = 0 /\ ~ctl'.exhausted
    BY <2>1, <2>2, WindowMoves
  <2>6. dueRun \in Nat /\ dueRun' = dueRun
    BY <1>1, <2>2, ItemKinds
  <2> QED
    BY <2>2, <2>3, <2>4, <2>5, <2>6, AutoQuiet
<1>3. CASE Status
  <2>1. ctl' = EnsureWindow(ctl) /\ windowOver' \in BOOLEAN
        /\ UNCHANGED <<kind, job, hand, reporters, dueRun, mishaps, autoCrashes>>
    BY <1>3, <1>1 DEF Status, SeesWindow
  <2>2. AutomationTypeOK'
    BY <1>1, <2>1, WindowMoves, Types DEF AutoIInv, AutomationTypeOK, Ctls
  <2> QED
    BY <1>1, <2>1, <2>2, WindowMoves, AutoQuiet
<1>4. CASE WindowPasses \/ BackoffPasses \/ RunFallsDue
  <2>1. /\ ctl' \in Ctls /\ SameWork(ctl, ctl') /\ ctl'.spend = ctl.spend
        /\ ctl'.extra = ctl.extra /\ ctl'.exhausted = ctl.exhausted
    BY <1>1, <1>4 DEF WindowPasses, BackoffPasses, RunFallsDue, Ctls, SameWork
  <2>2. /\ UNCHANGED <<kind, job, hand, reporters, mishaps, autoCrashes>>
        /\ windowOver' \in BOOLEAN
    BY <1>1, <1>4 DEF WindowPasses, BackoffPasses, RunFallsDue
  <2>4. dueRun' \in 0..MaxRuns /\ dueRun <= dueRun' /\ dueRun' \in Nat
    <3>1. dueRun' = dueRun \/ (dueRun < MaxRuns /\ dueRun' = dueRun + 1)
      BY <1>4 DEF WindowPasses, BackoffPasses, RunFallsDue
    <3> QED
      BY <1>1, <3>1, ItemKinds
  <2>3. AutomationTypeOK'
    BY <2>1, <2>2, <2>4 DEF AutoIInv, AutomationTypeOK, Ctls
  <2> QED
    BY <2>1, <2>2, <2>3, <2>4, AutoQuiet
<1> QED
  BY <1>2, <1>3, <1>4

\* A launch puts the item a ticker holds in the place of the active job.
LEMMA AutoLaunch ==
    ASSUME SingleTicker, AutoIInv, NEW t \in Tickers, LaunchJob(t)
    PROVE  AutoIInv'
<1> USE DEF AutoIInv
<1> DEFINE i == hand[t].item
<1>1. ctl \in Ctls /\ hand \in [Tickers -> Hands] /\ Idle \in Hands /\ Idle.does = "nothing" /\ Idle.item = NoItem
  BY Types DEF Hands, Idle, ItemOrNone
<1>2. /\ hand[t].does = "launch" /\ i \in Entries /\ ctl.active = NoItem /\ ctl.parked = NoItem
      /\ job[i] = "waiting" /\ i \notin ctl.queue
  BY DEF LaunchJob, Launching, HandsFree, JobPlaces, Launches
<1>3. ctl' = [ctl EXCEPT !.active = i] /\ job' = [job EXCEPT ![i] = "running"]
      /\ hand' = [hand EXCEPT ![t] = Idle]
      /\ UNCHANGED <<kind, windowOver, dueRun, mishaps, autoCrashes>>
  BY DEF LaunchJob, Finish
<1>4. /\ ctl' \in Ctls /\ ctl'.active = i /\ ctl'.parked = NoItem /\ ctl'.queue = ctl.queue
      /\ ctl'.spend = ctl.spend /\ ctl'.extra = ctl.extra /\ ctl'.lastRun = ctl.lastRun
      /\ \A s \in Tickers : hand'[s] = Idle
  BY <1>1, <1>2, <1>3 DEF Ctls, ItemOrNone, SingleTicker
<1>5. job \in [Entries -> {"new", "waiting", "running", "ended", "stale", "settled", "lost"}]
  BY Types
<1>6. AutomationTypeOK'
  <2>1. reporters' \subseteq Entries
    BY <1>2 DEF LaunchJob, AutomationTypeOK
  <2>2. hand' \in [Tickers -> Hands]
    BY <1>1, <1>3
  <2>3. job' \in [Entries -> {"new", "waiting", "running", "ended", "stale", "settled", "lost"}]
    BY <1>3, <1>5
  <2> QED
    BY <1>3, <1>4, <2>1, <2>2, <2>3 DEF AutomationTypeOK, Ctls, Hands
<1>7. JobPlaces'
  BY <1>1, <1>2, <1>3, <1>4, <1>5, ItemKinds DEF JobPlaces, Launches, SingleTicker
<1>8. HandsFree'
  BY <1>1, <1>4 DEF HandsFree
<1>9. ScheduleKept'
  BY <1>2, <1>3, <1>4, <1>5, ItemKinds DEF ScheduleKept
<1>10. LossesBounded'
  BY <1>2, <1>3, <1>5, LossesKept
<1>11. SpendRoom' /\ SpendWithinTarget'
  <2>1. Launches(t, i)
    BY <1>2 DEF Launches
  <2>2. Estimate[i] <= Target /\ ctl.spend - ctl.extra + Estimate[i] <= Target
    BY <1>2, <2>1, ItemKinds DEF SpendRoom
  <2>3. \A j \in Entries : ctl'.active = j \/ ctl'.parked = j \/ (\E s \in Tickers : Launches(s, j)') => j = i
    BY <1>1, <1>4, ItemKinds DEF Launches
  <2>4. ctl.spend - ctl.extra <= Target
    BY DEF SpendWithinTarget
  <2> QED
    BY <1>4, <2>2, <2>3, <2>4 DEF SpendRoom, SpendWithinTarget
<1> QED
  BY <1>6, <1>7, <1>8, <1>9, <1>10, <1>11

\* A research entry is handed over and done with.
LEMMA AutoResearch ==
    ASSUME SingleTicker, AutoIInv, NEW t \in Tickers, LaunchResearch(t)
    PROVE  AutoIInv'
<1> USE DEF AutoIInv
<1> DEFINE i == hand[t].item
<1>1. ctl \in Ctls /\ hand \in [Tickers -> Hands] /\ Idle \in Hands /\ Idle.does = "nothing"
  BY Types DEF Hands, Idle, ItemOrNone
<1>2. /\ hand[t].does = "launch" /\ i \in Entries /\ ctl.active = NoItem /\ ctl.parked = NoItem
      /\ job[i] = "waiting" /\ i \notin ctl.queue
  BY DEF LaunchResearch, Launching, HandsFree, JobPlaces, Launches
<1>3. job' = [job EXCEPT ![i] = "settled"] /\ hand' = [hand EXCEPT ![t] = Idle]
      /\ UNCHANGED <<ctl, kind, reporters, windowOver, dueRun, mishaps, autoCrashes>>
  BY DEF LaunchResearch, Finish
<1>4. \A s \in Tickers : hand'[s] = Idle
  BY <1>1, <1>3 DEF SingleTicker
<1>5. job \in [Entries -> {"new", "waiting", "running", "ended", "stale", "settled", "lost"}]
  BY Types
<1>6. AutomationTypeOK'
  <2>1. hand' \in [Tickers -> Hands]
    BY <1>1, <1>3
  <2>2. job' \in [Entries -> {"new", "waiting", "running", "ended", "stale", "settled", "lost"}]
    BY <1>3, <1>5
  <2> QED
    BY <1>3, <2>1, <2>2 DEF AutomationTypeOK, Hands
<1>7. JobPlaces'
  BY <1>1, <1>2, <1>3, <1>4, <1>5, ItemKinds DEF JobPlaces, Launches, SingleTicker
<1>8. HandsFree'
  BY <1>1, <1>2, <1>3, <1>4 DEF HandsFree
<1>9. ScheduleKept'
  BY <1>2, <1>3, <1>5, ItemKinds DEF ScheduleKept
<1>10. LossesBounded'
  BY <1>2, <1>3, <1>5, LossesKept
<1>11. SpendRoom' /\ SpendWithinTarget'
  BY <1>1, <1>2, <1>3, <1>4 DEF SpendRoom, SpendWithinTarget, Launches
<1> QED
  BY <1>6, <1>7, <1>8, <1>9, <1>10, <1>11

\* An item that could not be launched goes back to the queue.
LEMMA AutoLaunchFails ==
    ASSUME SingleTicker, AutoIInv, NEW t \in Tickers, LaunchJobFails(t)
    PROVE  AutoIInv'
<1> USE DEF AutoIInv
<1> DEFINE i == hand[t].item
<1>1. ctl \in Ctls /\ hand \in [Tickers -> Hands] /\ Idle \in Hands /\ Idle.does = "nothing"
  BY Types DEF Hands, Idle, ItemOrNone
<1>2. /\ hand[t].does = "launch" /\ i \in Entries /\ ctl.active = NoItem /\ ctl.parked = NoItem
      /\ job[i] = "waiting"
  BY DEF LaunchJobFails, Launching, HandsFree, JobPlaces, Launches
<1>3. ctl' = [ctl EXCEPT !.queue = ctl.queue \cup {i}] /\ hand' = [hand EXCEPT ![t] = Idle]
      /\ UNCHANGED <<kind, job, reporters, windowOver, dueRun, autoCrashes>>
      /\ mishaps < MaxMishaps /\ mishaps' = mishaps + 1
  BY DEF LaunchJobFails, Finish, Requeue, Mishap
<1>4. /\ ctl' \in Ctls /\ ctl'.active = NoItem /\ ctl'.parked = NoItem
      /\ ctl'.queue = ctl.queue \cup {i}
      /\ ctl'.spend = ctl.spend /\ ctl'.extra = ctl.extra /\ ctl'.lastRun = ctl.lastRun
      /\ \A s \in Tickers : hand'[s] = Idle
  BY <1>1, <1>2, <1>3 DEF Ctls, SingleTicker
<1>5. AutomationTypeOK'
  <2>1. hand' \in [Tickers -> Hands]
    BY <1>1, <1>3
  <2>2. mishaps' \in 0..MaxMishaps
    BY <1>3, AutomationAssumption DEF AutomationTypeOK
  <2> QED
    BY <1>3, <1>4, <2>1, <2>2 DEF AutomationTypeOK, Hands, Ctls
<1>6. JobPlaces'
  BY <1>1, <1>2, <1>3, <1>4, ItemKinds DEF JobPlaces, Launches, SingleTicker
<1>7. HandsFree'
  BY <1>1, <1>4 DEF HandsFree
<1>8. ScheduleKept'
  BY <1>3, <1>4 DEF ScheduleKept
<1>9. LossesBounded'
  BY <1>3, LossesKept
<1>10. SpendRoom' /\ SpendWithinTarget'
  <2>1. \A j \in Entries : ~(ctl'.active = j \/ ctl'.parked = j \/ \E s \in Tickers : Launches(s, j)')
    BY <1>1, <1>4, ItemKinds DEF Launches
  <2>2. ctl.spend - ctl.extra <= Target
    BY DEF SpendWithinTarget
  <2> QED
    BY <1>4, <2>1, <2>2 DEF SpendRoom, SpendWithinTarget
<1> QED
  BY <1>5, <1>6, <1>7, <1>8, <1>9, <1>10

\* A resumed session is the active job again, and no longer parked.
LEMMA AutoResume ==
    ASSUME SingleTicker, AutoIInv, NEW t \in Tickers, ResumeParked(t)
    PROVE  AutoIInv'
<1> USE DEF AutoIInv
<1> DEFINE i == hand[t].item
<1>1. ctl \in Ctls /\ hand \in [Tickers -> Hands] /\ Idle \in Hands /\ Idle.does = "nothing"
  BY Types DEF Hands, Idle, ItemOrNone
<1>2. /\ hand[t].does = "resume" /\ ctl.active = NoItem /\ ctl.parked = i /\ i # NoItem
      /\ ~ctl.exhausted /\ i \in Entries
      /\ job[i] = "waiting" /\ i \notin ctl.queue
  <2>1. hand[t].does = "resume" /\ ctl.active = NoItem /\ ctl.parked = i /\ i # NoItem /\ ~ctl.exhausted
    BY DEF ResumeParked, HandsFree
  <2>2. i \in Entries
    BY <1>1, <2>1 DEF Ctls, ItemOrNone
  <2> QED
    BY <2>1, <2>2 DEF JobPlaces
<1>3. ctl' = [ctl EXCEPT !.active = i, !.parked = NoItem] /\ job' = [job EXCEPT ![i] = "running"]
      /\ hand' = [hand EXCEPT ![t] = Idle]
      /\ UNCHANGED <<kind, reporters, windowOver, dueRun, mishaps, autoCrashes>>
  BY DEF ResumeParked, Finish
<1>4. /\ ctl' \in Ctls /\ ctl'.active = i /\ ctl'.parked = NoItem /\ ctl'.queue = ctl.queue
      /\ ctl'.spend = ctl.spend /\ ctl'.extra = ctl.extra /\ ctl'.lastRun = ctl.lastRun
      /\ \A s \in Tickers : hand'[s] = Idle
  BY <1>1, <1>2, <1>3 DEF Ctls, ItemOrNone, SingleTicker
<1>5. job \in [Entries -> {"new", "waiting", "running", "ended", "stale", "settled", "lost"}]
  BY Types
<1>6. AutomationTypeOK'
  <2>1. hand' \in [Tickers -> Hands]
    BY <1>1, <1>3
  <2>2. job' \in [Entries -> {"new", "waiting", "running", "ended", "stale", "settled", "lost"}]
    BY <1>3, <1>5
  <2> QED
    BY <1>3, <1>4, <2>1, <2>2 DEF AutomationTypeOK, Ctls, Hands
<1>7. JobPlaces'
  <2>1. \A s \in Tickers : s = t
    BY DEF SingleTicker
  <2> QED
    BY <1>1, <1>2, <1>3, <1>4, <1>5, <2>1, ItemKinds DEF JobPlaces, Launches
<1>8. HandsFree'
  BY <1>1, <1>4 DEF HandsFree
<1>9. ScheduleKept'
  BY <1>2, <1>3, <1>4, <1>5, ItemKinds DEF ScheduleKept
<1>10. LossesBounded'
  BY <1>2, <1>3, <1>5, LossesKept
<1>11. SpendRoom' /\ SpendWithinTarget'
  <2>1. Estimate[i] <= Target /\ ctl.spend - ctl.extra + Estimate[i] <= Target
    BY <1>2 DEF SpendRoom
  <2>2. \A j \in Entries : ctl'.active = j \/ ctl'.parked = j \/ (\E s \in Tickers : Launches(s, j)') => j = i
    BY <1>1, <1>4, ItemKinds DEF Launches
  <2>3. ctl.spend - ctl.extra <= Target
    BY DEF SpendWithinTarget
  <2> QED
    BY <1>4, <2>1, <2>2, <2>3 DEF SpendRoom, SpendWithinTarget
<1> QED
  BY <1>6, <1>7, <1>8, <1>9, <1>10, <1>11

\* A session that was not resumed stays parked.
LEMMA AutoNoResume ==
    ASSUME SingleTicker, AutoIInv, NEW t \in Tickers, ResumeFails(t) \/ ResumeSkipped(t)
    PROVE  AutoIInv'
<1> USE DEF AutoIInv
<1>1. ctl \in Ctls /\ hand \in [Tickers -> Hands] /\ Idle \in Hands /\ Idle.does = "nothing"
  BY Types DEF Hands, Idle, ItemOrNone
<1>2. hand[t].does = "resume" /\ hand' = [hand EXCEPT ![t] = Idle]
      /\ UNCHANGED <<kind, job, reporters, windowOver, dueRun, autoCrashes>>
      /\ ctl' \in {ctl, [ctl EXCEPT !.backoff = ctl.parked # NoItem]}
      /\ (mishaps' = mishaps \/ (mishaps < MaxMishaps /\ mishaps' = mishaps + 1))
  BY DEF ResumeFails, ResumeSkipped, Finish, Mishap
<1>3. /\ ctl' \in Ctls /\ SameWork(ctl, ctl') /\ ctl'.exhausted = ctl.exhausted
      /\ ctl'.spend = ctl.spend /\ ctl'.extra = ctl.extra
      /\ \A s \in Tickers : hand'[s] = Idle
  BY <1>1, <1>2 DEF Ctls, SingleTicker, SameWork
<1>4. AutomationTypeOK'
  <2>1. hand' \in [Tickers -> Hands]
    BY <1>1, <1>2
  <2>2. mishaps' \in 0..MaxMishaps
    BY <1>2, AutomationAssumption DEF AutomationTypeOK
  <2> QED
    BY <1>2, <1>3, <2>1, <2>2 DEF AutomationTypeOK, Hands, Ctls
<1>5. JobPlaces'
  BY <1>1, <1>2, <1>3 DEF JobPlaces, Launches, SingleTicker, SameWork
<1>6. HandsFree'
  BY <1>1, <1>3 DEF HandsFree, SameWork
<1>7. ScheduleKept'
  BY <1>2, <1>3 DEF ScheduleKept, SameWork
<1>8. LossesBounded'
  BY <1>2, LossesKept
<1>9. SpendRoom' /\ SpendWithinTarget'
  BY <1>1, <1>3 DEF SpendRoom, SpendWithinTarget, SameWork, Launches
<1> QED
  BY <1>4, <1>5, <1>6, <1>7, <1>8, <1>9

\* The hands and the account are not touched when a job ends or an item is
\* enqueued or removed.
LEMMA AutoJobs ==
    ASSUME AutoIInv, NEW i \in Entries,
           JobEnds(i) \/ (i \in Requests /\ Enqueue(i)) \/ RemoveQueueItem(i)
    PROVE  AutoIInv'
<1> USE DEF AutoIInv
<1>1. /\ ctl \in Ctls
      /\ job \in [Entries -> {"new", "waiting", "running", "ended", "stale", "settled", "lost"}]
  BY Types
<1>2. /\ UNCHANGED <<hand, reporters, windowOver, dueRun, mishaps, autoCrashes>>
      /\ ctl' \in Ctls
      /\ ctl'.active = ctl.active /\ ctl'.parked = ctl.parked /\ ctl'.exhausted = ctl.exhausted
      /\ ctl'.spend = ctl.spend /\ ctl'.extra = ctl.extra /\ ctl'.lastRun = ctl.lastRun
  BY <1>1 DEF JobEnds, Enqueue, RemoveQueueItem, Ctls
<1>3. \/ job[i] = "running" /\ job' = [job EXCEPT ![i] = "ended"] /\ ctl'.queue = ctl.queue
      \/ /\ job[i] = "new" /\ job' = [job EXCEPT ![i] = "waiting"] /\ i \notin Runs
         /\ ctl'.queue = ctl.queue \cup {i}
      \/ /\ i \in ctl.queue /\ job' = [job EXCEPT ![i] = "settled"]
         /\ ctl'.queue = ctl.queue \ {i}
  BY <1>1, ItemKinds DEF JobEnds, Enqueue, RemoveQueueItem, Ctls
<1>4. AutomationTypeOK'
  <2>1. kind' \in [Entries -> Kinds \cup {"none"}]
    BY DEF JobEnds, Enqueue, RemoveQueueItem, AutomationTypeOK
  <2>2. job' \in [Entries -> {"new", "waiting", "running", "ended", "stale", "settled", "lost"}]
    BY <1>1, <1>3
  <2> QED
    BY <1>2, <2>1, <2>2 DEF AutomationTypeOK, Ctls
<1>5. i \in ctl.queue => job[i] = "waiting" /\ ctl.active # i
  BY DEF JobPlaces
<1>6. JobPlaces'
  <2> SUFFICES ASSUME NEW j \in Entries
               PROVE  /\ job'[j] \in {"running", "ended", "stale"} <=> ctl.active = j
                      /\ job'[j] = "waiting" <=>
                           j \in ctl'.queue \/ ctl.parked = j \/ \E t \in Tickers : Launches(t, j)
                      /\ j \in ctl'.queue => ctl.parked # j /\ \A t \in Tickers : ~Launches(t, j)
    BY <1>2 DEF JobPlaces, Launches
  <2>1. CASE j # i
    BY <1>1, <1>3, <2>1 DEF JobPlaces
  <2>2. CASE j = i
    BY <1>1, <1>3, <1>5, <2>2 DEF JobPlaces
  <2> QED
    BY <2>1, <2>2
<1>7. HandsFree'
  BY <1>2 DEF HandsFree
<1>8. ScheduleKept'
  BY <1>1, <1>2, <1>3, <1>5, ItemKinds DEF ScheduleKept
<1>9. LossesBounded'
  BY <1>1, <1>2, <1>3, <1>5, LossesKept
<1>10. SpendRoom' /\ SpendWithinTarget'
  BY <1>2 DEF SpendRoom, SpendWithinTarget, Launches
<1> QED
  BY <1>4, <1>6, <1>7, <1>8, <1>9, <1>10

\* What a report makes of the account, before it clears its job.
LEMMA ReportMoves ==
    ASSUME ctl \in Ctls, NEW i \in Entries, Report(i)
    PROVE  \E c \in Ctls :
             /\ ctl' = ClearActive(c, i)
             /\ SameWork(ctl, c) /\ c.exhausted = ctl.exhausted
             /\ IF job[i] = "ended" THEN c.spend - c.extra <= ctl.spend - ctl.extra + Estimate[i]
                ELSE c.spend - c.extra = ctl.spend - ctl.extra
<1>1. PICK spent \in 0..MaxSpend :
        ctl' = ClearActive(IF job[i] = "ended" THEN Paid(ctl, i, spent)
                           ELSE [ctl EXCEPT !.spend = @ + spent, !.extra = @ + spent], i)
  BY DEF Report
<1>2. spent \in Nat
  BY ItemKinds
<1>3. CASE job[i] = "ended"
  <2>1. ctl' = ClearActive(Paid(ctl, i, spent), i)
    BY <1>1, <1>3
  <2> QED
    BY <1>2, <1>3, <2>1, PaidMoves
<1>4. CASE job[i] # "ended"
  <2> DEFINE n == ctl.spend + spent
             m == ctl.extra + spent
             c == [ctl EXCEPT !.spend = n, !.extra = m]
  <2>1. ctl' = ClearActive(c, i)
    BY <1>1, <1>4
  <2>2. n \in Nat /\ m \in Nat /\ n - m = ctl.spend - ctl.extra
    BY <1>2 DEF Ctls
  <2>3. c \in Ctls /\ SameWork(ctl, c) /\ c.exhausted = ctl.exhausted
        /\ c.spend = n /\ c.extra = m
    <3> HIDE DEF n, m
    <3> QED
      BY <2>2 DEF Ctls, SameWork
  <2> HIDE DEF n, m, c
  <2> QED
    BY <1>4, <2>1, <2>2, <2>3
<1> QED
  BY <1>3, <1>4

\* A report clears its own job only, and spends the room that job had.
LEMMA AutoReport ==
    ASSUME AutoIInv, NEW i \in Entries, Report(i)
    PROVE  AutoIInv'
<1> USE DEF AutoIInv
<1>1. /\ ctl \in Ctls
      /\ job \in [Entries -> {"new", "waiting", "running", "ended", "stale", "settled", "lost"}]
  BY Types
<1>2. /\ job[i] \in {"ended", "settled"} /\ job' = [job EXCEPT ![i] = "settled"]
      /\ reporters' = reporters \ {i}
      /\ UNCHANGED <<kind, hand, windowOver, dueRun, mishaps, autoCrashes>>
  BY DEF Report
<1>3. PICK c \in Ctls :
        /\ ctl' = ClearActive(c, i)
        /\ SameWork(ctl, c) /\ c.exhausted = ctl.exhausted
        /\ IF job[i] = "ended" THEN c.spend - c.extra <= ctl.spend - ctl.extra + Estimate[i]
           ELSE c.spend - c.extra = ctl.spend - ctl.extra
  BY <1>1, ReportMoves
<1>4. ctl.active = i <=> job[i] = "ended"
  BY <1>2 DEF JobPlaces
<1>5. /\ ctl' \in Ctls /\ ctl'.active = IF ctl.active = i THEN NoItem ELSE ctl.active
      /\ ctl'.queue = ctl.queue /\ ctl'.parked = ctl.parked /\ ctl'.lastRun = ctl.lastRun
      /\ ctl'.exhausted = ctl.exhausted /\ ctl'.spend = c.spend /\ ctl'.extra = c.extra
  <2>1. c.active = ctl.active /\ c.queue = ctl.queue /\ c.parked = ctl.parked /\ c.lastRun = ctl.lastRun
    BY <1>3 DEF SameWork
  <2>2. CASE ctl.active = i
    <3>1. ctl' = [c EXCEPT !.active = NoItem]
      BY <1>3, <2>1, <2>2 DEF ClearActive
    <3> QED
      BY <1>3, <2>1, <2>2, <3>1 DEF Ctls, ItemOrNone
  <2>3. CASE ctl.active # i
    <3>1. ctl' = c
      BY <1>3, <2>1, <2>3 DEF ClearActive
    <3> QED
      BY <1>3, <2>1, <2>3, <3>1
  <2> QED
    BY <2>2, <2>3
<1>6. AutomationTypeOK'
  <2>1. job' \in [Entries -> {"new", "waiting", "running", "ended", "stale", "settled", "lost"}]
    BY <1>1, <1>2
  <2>2. reporters' \subseteq Entries
    BY <1>2 DEF AutomationTypeOK
  <2> QED
    BY <1>2, <1>5, <2>1, <2>2 DEF AutomationTypeOK, Ctls
<1>7. JobPlaces'
  <2> SUFFICES ASSUME NEW j \in Entries
               PROVE  /\ job'[j] \in {"running", "ended", "stale"} <=> ctl'.active = j
                      /\ job'[j] = "waiting" <=>
                           j \in ctl.queue \/ ctl.parked = j \/ \E t \in Tickers : Launches(t, j)
                      /\ j \in ctl.queue => ctl.parked # j /\ \A t \in Tickers : ~Launches(t, j)
    BY <1>2, <1>5 DEF JobPlaces, Launches
  <2>1. CASE j # i
    BY <1>1, <1>2, <1>4, <1>5, <2>1, ItemKinds DEF JobPlaces
  <2>2. CASE j = i
    BY <1>1, <1>2, <1>4, <1>5, <2>2, ItemKinds DEF JobPlaces
  <2> QED
    BY <2>1, <2>2
<1>8. HandsFree'
  BY <1>2, <1>5 DEF HandsFree
<1>9. ScheduleKept'
  BY <1>1, <1>2, <1>5, ItemKinds DEF ScheduleKept
<1>10. LossesBounded'
  BY <1>1, <1>2, LossesKept
<1>11. ctl'.active # NoItem => ctl.active # NoItem /\ job[i] # "ended"
  BY <1>4, <1>5
<1>12. ctl.active = i => ctl.active # NoItem /\ ctl.parked = NoItem /\ \A t \in Tickers : hand[t].does # "launch"
  BY ItemKinds DEF HandsFree
<1>13. /\ ctl.spend \in Int /\ ctl.extra \in Int /\ Target \in Int
       /\ ctl'.spend \in Int /\ ctl'.extra \in Int /\ \A j \in Entries : Estimate[j] \in Int
       /\ IF job[i] = "ended" THEN ctl'.spend - ctl'.extra <= ctl.spend - ctl.extra + Estimate[i]
          ELSE ctl'.spend - ctl'.extra = ctl.spend - ctl.extra
  BY <1>1, <1>3, <1>5, ItemKinds DEF Ctls
<1>14. SpendRoom'
  <2>1. CASE ctl.active = i
    BY <1>2, <1>5, <1>12, <2>1, ItemKinds DEF SpendRoom, Launches
  <2>2. CASE ctl.active # i
    BY <1>2, <1>4, <1>5, <1>13, <2>2 DEF SpendRoom, Launches
  <2> QED
    BY <2>1, <2>2
<1>15. SpendWithinTarget'
  <2>1. CASE ctl.active = i
    <3>1. ctl.spend - ctl.extra + Estimate[i] <= Target
      BY <1>12, <2>1, ItemKinds DEF SpendRoom
    <3> QED
      BY <1>4, <1>13, <2>1, <3>1 DEF SpendWithinTarget
  <2>2. CASE ctl.active # i
    BY <1>4, <1>13, <2>2 DEF SpendWithinTarget
  <2> QED
    BY <2>1, <2>2
<1> QED
  BY <1>6, <1>7, <1>8, <1>9, <1>10, <1>14, <1>15

\* A restart loses what a ticker held: one item, as there is one ticker.
LEMMA AutoNewRun ==
    ASSUME SingleTicker, AutoIInv, RestartAutomation
    PROVE  AutoIInv'
<1> USE DEF AutoIInv
<1>1. /\ ctl \in Ctls /\ autoCrashes \in Nat /\ autoCrashes' = autoCrashes + 1 /\ autoCrashes < MaxAutoCrashes
      /\ job \in [Entries -> {"new", "waiting", "running", "ended", "stale", "settled", "lost"}]
      /\ hand \in [Tickers -> Hands] /\ Idle \in Hands /\ Idle.does = "nothing"
      /\ MaxAutoCrashes \in Nat
  BY Types, AutomationAssumption DEF RestartAutomation, Hands, Idle, ItemOrNone
<1>2. /\ hand' = [t \in Tickers |-> Idle] /\ reporters' = {}
      /\ UNCHANGED <<ctl, kind, windowOver, dueRun, mishaps>>
  BY DEF RestartAutomation
<1>3. ASSUME NEW i \in Entries
      PROVE  /\ (\E t \in Tickers : Launches(t, i)) => job[i] = "waiting" /\ job'[i] = "lost"
             /\ ~(\E t \in Tickers : Launches(t, i)) =>
                  \/ job[i] = "running" /\ job'[i] \in {"ended", "stale"}
                  \/ job[i] # "running" /\ job'[i] = job[i]
  <2>1. ASSUME NEW t \in Tickers
        PROVE  Launches(t, i) <=> hand[t] = [does |-> "launch", item |-> i]
    BY <1>1 DEF Launches, Hands
  <2>2. job'[i] = CASE \E t \in Tickers : Launches(t, i) -> "lost"
                    [] job[i] = "running" -> IF kind[i] = "session" THEN "ended" ELSE "stale"
                    [] OTHER -> job[i]
    BY <2>1 DEF RestartAutomation
  <2>3. (\E t \in Tickers : Launches(t, i)) => job[i] = "waiting"
    BY DEF JobPlaces
  <2> QED
    BY <2>2, <2>3
<1>4. AutomationTypeOK'
  <2>1. job' \in [Entries -> {"new", "waiting", "running", "ended", "stale", "settled", "lost"}]
    <3>1. job' = [i \in Entries |-> job'[i]]
      BY DEF RestartAutomation
    <3>2. \A i \in Entries : job'[i] \in {"new", "waiting", "running", "ended", "stale", "settled", "lost"}
      BY <1>1, <1>3
    <3> QED
      BY <3>1, <3>2
  <2>2. autoCrashes' \in 0..MaxAutoCrashes
    BY <1>1
  <2>3. hand' \in [Tickers -> Hands]
    BY <1>1, <1>2
  <2> QED
    BY <1>2, <2>1, <2>2, <2>3 DEF AutomationTypeOK, Hands
<1>5. \A t \in Tickers : hand'[t] = Idle
  BY <1>2
<1>6. JobPlaces'
  <2> SUFFICES ASSUME NEW i \in Entries
               PROVE  /\ job'[i] \in {"running", "ended", "stale"} <=> ctl.active = i
                      /\ job'[i] = "waiting" <=> i \in ctl.queue \/ ctl.parked = i
                      /\ i \in ctl.queue => ctl.parked # i
    BY <1>1, <1>2, <1>5 DEF JobPlaces, Launches
  <2>1. CASE \E t \in Tickers : Launches(t, i)
    <3>1. ctl.parked = NoItem
      BY <2>1 DEF HandsFree, Launches
    <3> QED
      BY <1>3, <2>1, <3>1, ItemKinds DEF JobPlaces
  <2>2. CASE ~\E t \in Tickers : Launches(t, i)
    BY <1>3, <2>2 DEF JobPlaces
  <2> QED
    BY <2>1, <2>2
<1>7. HandsFree'
  BY <1>1, <1>2, <1>5 DEF HandsFree
<1>8. ScheduleKept'
  BY <1>2, <1>3, ItemKinds DEF ScheduleKept
<1>9. LossesBounded'
  <2>1. CASE \E t \in Tickers : hand[t].does = "launch"
    <3>1. PICK t \in Tickers : hand[t].does = "launch"
      BY <2>1
    <3> DEFINE j == hand[t].item
    <3>2. j \in Entries /\ \A i \in Entries : (\E s \in Tickers : Launches(s, i)) <=> i = j
      BY <3>1 DEF HandsFree, Launches, SingleTicker
    <3>3. Lost' = Lost \cup {j}
      BY <1>1, <1>3, <3>2 DEF Lost
    <3>4. Cardinality(Tickers) = 1
      BY TickerCount
    <3>5. IsFiniteSet(Lost) /\ Cardinality(Lost) \in Nat /\ Cardinality(Lost) <= autoCrashes
      <4>1. IsFiniteSet(Lost) /\ Cardinality(Lost) <= autoCrashes * 1
        BY <3>4 DEF LossesBounded
      <4>2. autoCrashes * 1 = autoCrashes
        BY <1>1
      <4> QED
        BY <4>1, <4>2, FS_CardinalityType
    <3>6. IsFiniteSet(Lost') /\ Cardinality(Lost') <= autoCrashes + 1
      <4>0. IsFiniteSet(Lost \cup {j}) /\ Cardinality(Lost \cup {j}) =
              IF j \in Lost THEN Cardinality(Lost) ELSE Cardinality(Lost) + 1
        BY <3>5, FS_AddElement, Zenon
      <4>1. IsFiniteSet(Lost \cup {j}) /\ Cardinality(Lost \cup {j}) <= Cardinality(Lost) + 1
        BY <3>5, <4>0
      <4>2. Cardinality(Lost \cup {j}) \in Nat
        BY <4>1, FS_CardinalityType
      <4> QED
        BY <1>1, <3>3, <3>5, <4>1, <4>2
    <3>7. (autoCrashes + 1) * 1 = autoCrashes + 1
      BY <1>1
    <3> QED
      BY <1>1, <3>4, <3>6, <3>7 DEF LossesBounded
  <2>2. CASE ~\E t \in Tickers : hand[t].does = "launch"
    <3>1. Lost' = Lost
      BY <1>1, <1>3, <2>2 DEF Lost, Launches
    <3>2. autoCrashes * Cardinality(Tickers) <= (autoCrashes + 1) * Cardinality(Tickers)
      BY <1>1, TickerCount
    <3>3. Cardinality(Lost) \in Nat /\ Cardinality(Tickers) \in Nat
          /\ autoCrashes * Cardinality(Tickers) \in Nat /\ (autoCrashes + 1) * Cardinality(Tickers) \in Nat
      <4>1. Cardinality(Lost) \in Nat
        BY FS_CardinalityType DEF LossesBounded
      <4> QED
        BY <1>1, <4>1, TickerCount
    <3> QED
      BY <1>1, <3>1, <3>2, <3>3 DEF LossesBounded
  <2> QED
    BY <2>1, <2>2
<1>10. SpendRoom' /\ SpendWithinTarget'
  BY <1>1, <1>2, <1>5 DEF SpendRoom, SpendWithinTarget, Launches
<1> QED
  BY <1>4, <1>6, <1>7, <1>8, <1>9, <1>10

\* A tick: the window, the job that has ended, the schedule, the next action.
LEMMA AutoTick ==
    ASSUME SingleTicker, AutoIInv, NEW t \in Tickers, Tick(t)
    PROVE  AutoIInv'
<1> USE DEF AutoIInv
<1>1. PICK quota \in BOOLEAN, id \in BOOLEAN, spent \in 0..MaxSpend :
        LET handled == HandleActive(EnsureWindow(ctl), spent, quota, id)
            ready == EnqueueDue(handled)
            done == IF ActiveEnded(ctl) THEN {ctl.active} ELSE {}
        IN /\ id => quota
           /\ IF quota
              THEN ActiveEnded(ctl) /\ kind[ctl.active] = "session" /\ Mishap
              ELSE UNCHANGED mishaps
           /\ \E a \in NextActions(ready) :
                ctl' = Dispatched(ready, a) /\ hand' = [hand EXCEPT ![t] = a]
           /\ \E f \in [DueRuns(handled) -> Kinds] :
                kind' = [i \in Entries |-> IF i \in DueRuns(handled) THEN f[i] ELSE kind[i]]
           /\ job' = [i \in Entries |->
                       IF i \in done THEN IF quota THEN "waiting" ELSE "settled"
                       ELSE IF i \in DueRuns(handled) THEN "waiting" ELSE job[i]]
  BY DEF Tick
<1> DEFINE e == EnsureWindow(ctl)
           h == HandleActive(e, spent, quota, id)
           r == EnqueueDue(h)
           ended == ActiveEnded(ctl)
           due == DueRuns(h)
<1>2. PICK a \in NextActions(r) : ctl' = Dispatched(r, a) /\ hand' = [hand EXCEPT ![t] = a]
  BY <1>1
<1>3. /\ ctl \in Ctls /\ hand \in [Tickers -> Hands] /\ dueRun \in 0..MaxRuns
      /\ job \in [Entries -> {"new", "waiting", "running", "ended", "stale", "settled", "lost"}]
      /\ kind \in [Entries -> Kinds \cup {"none"}] /\ windowOver \in BOOLEAN
      /\ Idle.does = "nothing"
  BY Types DEF Idle
<1>4. hand[t] = Idle /\ (\A s \in Tickers : s = t) /\ UNCHANGED <<reporters, dueRun, autoCrashes>>
  BY DEF Tick, SingleTicker
<1>5. /\ e \in Ctls /\ SameWork(ctl, e)
      /\ \/ e.spend = ctl.spend /\ e.extra = ctl.extra /\ e.exhausted = ctl.exhausted
         \/ e.spend = 0 /\ e.extra = 0 /\ ~e.exhausted
  BY <1>3, WindowMoves
<1>6. /\ e.active = ctl.active /\ ActiveEnded(e) <=> ended
      /\ quota => ended /\ kind[ctl.active] = "session"
      /\ spent \in Nat
  BY <1>1, <1>5, ItemKinds DEF SameWork, ActiveEnded
<1>7. /\ h \in Ctls /\ h.queue = ctl.queue /\ h.lastRun = ctl.lastRun
      /\ h.active = IF ended THEN NoItem ELSE ctl.active
      /\ h.parked = IF quota THEN ctl.active ELSE ctl.parked
      /\ h.exhausted <=> (quota \/ e.exhausted)
      /\ \/ h.spend = e.spend /\ h.extra = e.extra
         \/ ended /\ h.spend - h.extra <= e.spend - e.extra + Estimate[ctl.active]
  BY <1>5, <1>6, HandledMoves DEF SameWork
<1>8. /\ r \in Ctls /\ r.queue = ctl.queue \cup due
      /\ r.active = h.active /\ r.parked = h.parked
      /\ r.spend = h.spend /\ r.extra = h.extra /\ r.exhausted = h.exhausted
      /\ due \subseteq Runs /\ r.lastRun <= dueRun
      /\ \A x \in Runs : x \in due <=> ctl.lastRun < x /\ x <= r.lastRun
      /\ ctl.lastRun <= r.lastRun
  BY <1>3, <1>7, DueMoves DEF ScheduleKept
<1>9. /\ a \in Hands /\ ctl' \in Ctls
      /\ ctl'.active = r.active /\ ctl'.parked = r.parked
      /\ ctl'.spend = r.spend /\ ctl'.extra = r.extra
      /\ ctl'.exhausted = r.exhausted /\ ctl'.lastRun = r.lastRun
      /\ \/ a = Idle /\ ctl'.queue = r.queue
         \/ /\ a = [does |-> "resume", item |-> r.parked]
            /\ r.parked # NoItem /\ r.active = NoItem /\ ~r.exhausted
            /\ ctl'.queue = r.queue
         \/ /\ a.does = "launch" /\ a.item \in r.queue
            /\ r.parked = NoItem /\ r.active = NoItem
            /\ r.spend + Estimate[a.item] <= Target
            /\ ctl'.queue = r.queue \ {a.item}
  BY <1>2, <1>8, DispatchMoves
<1>10. \A s \in Tickers : hand'[s] = a
  BY <1>2, <1>3, <1>4
<1>11. \A i \in Entries : job'[i] = IF ended /\ i = ctl.active
                                    THEN IF quota THEN "waiting" ELSE "settled"
                                    ELSE IF i \in due THEN "waiting" ELSE job[i]
  BY <1>1
<1>12. \A i \in due : i \in Entries /\ job[i] = "new"
  <2>1. ctl.lastRun \in Nat
    BY <1>3, ItemKinds DEF Ctls
  <2>2. ASSUME NEW x \in due PROVE x \in Runs /\ x \in Entries /\ x \in Nat /\ ctl.lastRun < x
    BY <1>8, ItemKinds
  <2>3. ASSUME NEW x \in due PROVE job[x] = "new"
    <3>1. ~(x <= ctl.lastRun)
      BY <2>1, <2>2
    <3> QED
      BY <2>2, <3>1 DEF ScheduleKept
  <2> QED
    BY <2>2, <2>3
<1>13. ended => ctl.active # NoItem /\ ctl.active \in Entries /\ job[ctl.active] = "ended" /\ ctl.parked = NoItem
  BY <1>3 DEF ActiveEnded, HandsFree, Ctls, ItemOrNone
<1> HIDE DEF e, h, r, due
<1>14. AutomationTypeOK'
  <2>1. mishaps' \in 0..MaxMishaps
    BY <1>1, AutomationAssumption DEF Mishap, AutomationTypeOK
  <2>2. kind' \in [Entries -> Kinds \cup {"none"}]
    BY <1>1, <1>3 DEF due, h, e
  <2>3. job' \in [Entries -> {"new", "waiting", "running", "ended", "stale", "settled", "lost"}]
    <3>1. job' = [i \in Entries |-> job'[i]]
      BY <1>1
    <3>2. \A i \in Entries : job'[i] \in {"new", "waiting", "running", "ended", "stale", "settled", "lost"}
      BY <1>3, <1>11
    <3> QED
      BY <3>1, <3>2
  <2>4. hand' \in [Tickers -> Hands]
    BY <1>2, <1>3, <1>9
  <2>5. windowOver' \in BOOLEAN
    BY <1>3 DEF Tick, SeesWindow
  <2> QED
    BY <1>4, <1>9, <2>1, <2>2, <2>3, <2>4, <2>5 DEF AutomationTypeOK, Ctls, Hands
<1>15. JobPlaces'
  <2> SUFFICES ASSUME NEW i \in Entries
               PROVE  /\ job'[i] \in {"running", "ended", "stale"} <=> ctl'.active = i
                      /\ job'[i] = "waiting" <=>
                           i \in ctl'.queue \/ ctl'.parked = i \/ (a.does = "launch" /\ a.item = i)
                      /\ i \in ctl'.queue => ctl'.parked # i /\ ~(a.does = "launch" /\ a.item = i)
    BY <1>4, <1>10 DEF JobPlaces, Launches
  <2>1. /\ job[i] \in {"running", "ended", "stale"} <=> ctl.active = i
        /\ job[i] = "waiting" <=> i \in ctl.queue \/ ctl.parked = i
        /\ i \in ctl.queue => ctl.parked # i
    BY <1>3, <1>4 DEF JobPlaces, Launches
  <2>2. /\ i \in ctl'.queue \/ (a.does = "launch" /\ a.item = i) <=> i \in ctl.queue \cup due
        /\ i \in ctl'.queue => ~(a.does = "launch" /\ a.item = i)
    BY <1>3, <1>8, <1>9
  <2>3. CASE ended /\ i = ctl.active
    <3>1. i \notin due /\ i \notin ctl.queue /\ ctl'.active = NoItem
      BY <1>7, <1>8, <1>9, <1>12, <1>13, <2>1, <2>3
    <3>2. ctl'.parked = (IF quota THEN i ELSE NoItem) /\ job'[i] = (IF quota THEN "waiting" ELSE "settled")
      BY <1>7, <1>8, <1>9, <1>11, <1>13, <2>3
    <3> QED
      BY <2>2, <3>1, <3>2, ItemKinds
  <2>4. CASE ~(ended /\ i = ctl.active) /\ i \in due
    BY <1>6, <1>7, <1>8, <1>9, <1>11, <1>12, <2>1, <2>2, <2>4, ItemKinds
  <2>5. CASE ~(ended /\ i = ctl.active) /\ i \notin due
    BY <1>6, <1>7, <1>8, <1>9, <1>11, <1>13, <2>1, <2>2, <2>5, ItemKinds
  <2> QED
    BY <2>3, <2>4, <2>5
<1>16. HandsFree'
  <2>1. ctl'.active # NoItem => ctl'.parked = NoItem
    BY <1>6, <1>7, <1>8, <1>9 DEF HandsFree
  <2>2. a.does = "launch" => a.item \in Entries
    <3>1. r.queue \subseteq Entries
      BY <1>8 DEF Ctls
    <3> QED
      BY <1>3, <1>9, <3>1
  <2> QED
    BY <1>3, <1>9, <1>10, <2>1, <2>2 DEF HandsFree
<1>17. ScheduleKept'
  <2>1. ctl.lastRun \in Nat /\ r.lastRun \in Nat /\ Runs \subseteq Nat
    BY <1>3, <1>8, ItemKinds DEF Ctls
  <2>2. ASSUME NEW x \in Runs PROVE job'[x] # "new" <=> x <= r.lastRun
    <3>1. x \in Entries /\ x \in Nat /\ (job[x] # "new" <=> x <= ctl.lastRun)
      BY <2>1, ItemKinds DEF ScheduleKept
    <3>2. x \in due <=> ctl.lastRun < x /\ x <= r.lastRun
      BY <1>8
    <3>3. job'[x] # "new" <=> job[x] # "new" \/ x \in due
      BY <1>11, <1>13, <3>1
    <3> QED
      BY <1>8, <2>1, <3>1, <3>2, <3>3
  <2> QED
    BY <1>4, <1>8, <1>9, <2>2 DEF ScheduleKept
<1>18. LossesBounded'
  BY <1>3, <1>4, <1>11, <1>12, <1>13, LossesKept
<1>19. /\ ctl.spend \in Nat /\ ctl.extra \in Nat /\ e.spend \in Nat /\ e.extra \in Nat
       /\ r.spend \in Nat /\ r.extra \in Nat /\ Target \in Nat
       /\ \A i \in Entries : Estimate[i] \in Nat
  BY <1>3, <1>5, <1>8, ItemKinds DEF Ctls
\* The item that was active or parked fits, into this window or the next.
<1>20. ASSUME NEW i \in Entries, ctl.active = i \/ ctl.parked = i
       PROVE  /\ Estimate[i] <= Target
              /\ (ctl.parked = i /\ e.exhausted) \/ e.spend - e.extra + Estimate[i] <= Target
  <2>1. /\ Estimate[i] <= Target
        /\ (ctl.parked = i /\ ctl.exhausted) \/ ctl.spend - ctl.extra + Estimate[i] <= Target
    BY <1>20 DEF SpendRoom
  <2> QED
    BY <1>5, <1>19, <2>1
<1>21. SpendRoom'
  <2> SUFFICES ASSUME NEW i \in Entries,
                      ctl'.active = i \/ ctl'.parked = i \/ (a.does = "launch" /\ a.item = i)
               PROVE  /\ Estimate[i] <= Target
                      /\ \/ ctl'.parked = i /\ ctl'.exhausted
                         \/ ctl'.spend - ctl'.extra + Estimate[i] <= Target
    BY <1>10 DEF SpendRoom, Launches
  <2>1. CASE a.does = "launch" /\ a.item = i
    BY <1>3, <1>9, <1>19, <2>1
  <2>2. CASE ctl'.active = i
    <3>1. ctl.active = i /\ ~ended /\ ctl.parked # i
      BY <1>7, <1>8, <1>9, <2>2, ItemKinds DEF HandsFree
    <3>2. ctl'.spend = e.spend /\ ctl'.extra = e.extra
      BY <1>7, <1>8, <1>9, <3>1
    <3> QED
      BY <1>20, <3>1, <3>2
  <2>3. CASE ctl'.parked = i /\ quota
    <3>1. ctl.active = i /\ ctl'.exhausted
      BY <1>7, <1>8, <1>9, <2>3
    <3> QED
      BY <1>20, <2>3, <3>1
  <2>4. CASE ctl'.parked = i /\ ~quota
    <3>1. ctl.parked = i /\ ~ended
      BY <1>7, <1>8, <1>9, <1>13, <2>4, ItemKinds
    <3>2. ctl'.spend = e.spend /\ ctl'.extra = e.extra /\ (ctl'.exhausted <=> e.exhausted)
      BY <1>7, <1>8, <1>9, <2>4, <3>1
    <3> QED
      BY <1>20, <2>4, <3>1, <3>2
  <2> QED
    BY <2>1, <2>2, <2>3, <2>4
<1>22. SpendWithinTarget'
  <2>1. e.spend - e.extra <= Target
    BY <1>5, <1>19 DEF SpendWithinTarget
  <2>2. CASE h.spend = e.spend /\ h.extra = e.extra
    BY <1>8, <1>9, <2>1, <2>2 DEF SpendWithinTarget
  <2>3. CASE ended /\ h.spend - h.extra <= e.spend - e.extra + Estimate[ctl.active]
    <3>1. ctl.active \in Entries /\ ctl.parked # ctl.active
      BY <1>13, <2>3, ItemKinds
    <3>2. e.spend - e.extra + Estimate[ctl.active] <= Target
      BY <1>20, <3>1
    <3>3. ctl'.spend - ctl'.extra <= e.spend - e.extra + Estimate[ctl.active]
          /\ ctl'.spend \in Nat /\ ctl'.extra \in Nat
      BY <1>8, <1>9, <1>19, <2>3
    <3> QED
      BY <1>19, <3>1, <3>2, <3>3 DEF SpendWithinTarget
  <2> QED
    BY <1>7, <2>2, <2>3
<1> QED
  BY <1>14, <1>15, <1>16, <1>17, <1>18, <1>21, <1>22

LEMMA AutoStep ==
    ASSUME SingleTicker, AutoIInv, [AutomationNext]_autoVars
    PROVE  AutoIInv'
<1>1. ASSUME NEW t \in Tickers, Tick(t) \/ HandSteps(t) PROVE AutoIInv'
  BY <1>1, AutoTick, AutoLaunch, AutoResearch, AutoLaunchFails, AutoResume, AutoNoResume DEF HandSteps
<1>2. ASSUME NEW i \in Entries, JobEnds(i) \/ Report(i) \/ RemoveQueueItem(i) PROVE AutoIInv'
  BY <1>2, AutoJobs, AutoReport
<1>3. ASSUME NEW i \in Requests, Enqueue(i) PROVE AutoIInv'
  BY <1>3, AutoJobs, ItemKinds
<1>4. CASE SetPolicy \/ Status \/ WindowPasses \/ BackoffPasses \/ RunFallsDue
  BY <1>4, AutoClock
<1>5. CASE RestartAutomation
  BY <1>5, AutoNewRun
<1>6. CASE UNCHANGED autoVars
  <2>1. UNCHANGED <<ctl, kind, job, hand, reporters, windowOver, dueRun, mishaps, autoCrashes>>
    BY <1>6 DEF autoVars
  <2>2. AutomationTypeOK' /\ SameWork(ctl, ctl') /\ dueRun \in Nat
    BY <2>1, ItemKinds DEF AutoIInv, AutomationTypeOK, SameWork
  <2> QED
    BY <2>1, <2>2, AutoQuiet
<1> QED
  BY <1>1, <1>2, <1>3, <1>4, <1>5, <1>6 DEF AutomationNext

\* In every reachable state the invariant holds.
THEOREM AutoInvariant == ASSUME SingleTicker PROVE AutomationSpec => []AutoIInv
<1>1. AutomationInit => AutoIInv
  BY AutoInit
<1>2. AutoIInv /\ [AutomationNext]_autoVars => AutoIInv'
  BY AutoStep
<1> QED
  BY <1>1, <1>2, PTL DEF AutomationSpec

\* At most one job runs, and it is the one the controller watches
\* (subscription_automation.go:1155, 1363).
THEOREM OneJobRuns == ASSUME SingleTicker PROVE AutomationSpec => []OneJobAtATime
<1>1. AutoIInv => OneJobAtATime
  BY DEF AutoIInv, OneJobAtATime, JobPlaces
<1> QED
  BY <1>1, AutoInvariant, PTL

\* The account of a window exceeds the target by nothing but late reports and
\* what jobs spend beyond their estimate
\* (subscription_automation.go:518, 735, 788).
THEOREM SpendIsBounded == ASSUME SingleTicker PROVE AutomationSpec => []SpendWithinTarget
<1>1. AutoIInv => SpendWithinTarget
  BY DEF AutoIInv
<1> QED
  BY <1>1, AutoInvariant, PTL

\* An accepted item is in one place, a new one in none.
LEMMA OnePlace ==
    ASSUME SingleTicker, AutoIInv, NEW i \in Entries
    PROVE  Cardinality(Places(i)) = IF job[i] = "new" THEN 0 ELSE 1
<1> USE DEF AutoIInv
<1>1. /\ job[i] \in {"new", "waiting", "running", "ended", "stale", "settled", "lost"}
      /\ hand \in [Tickers -> Hands] /\ i # NoItem
      /\ \A t \in Tickers : t \notin {"queue", "active", "parked", "settled", "lost"}
  BY Types, ItemKinds, AutomationAssumption
<1>2. ASSUME NEW p
      PROVE  p \in Places(i) <=>
               \/ p = "queue" /\ i \in ctl.queue
               \/ p = "active" /\ i = ctl.active
               \/ p = "parked" /\ i = ctl.parked
               \/ p \in {"settled", "lost"} /\ job[i] = p
               \/ p \in Tickers /\ Launches(p, i)
  <2>1. ASSUME p \in Tickers
        PROVE  hand[p] = [does |-> "launch", item |-> i] <=> Launches(p, i)
    BY <1>1, <2>1 DEF Launches, Hands
  <2>2. CASE p \in Tickers
    BY <1>1, <2>1, <2>2 DEF Places
  <2>3. CASE p \notin Tickers
    BY <2>3 DEF Places
  <2> QED
    BY <2>2, <2>3
<1>3. ASSUME NEW p, Places(i) = {p} PROVE Cardinality(Places(i)) = 1
  BY <1>3, FS_Singleton, Zenon
<1>4. /\ job[i] \in {"running", "ended", "stale"} <=> ctl.active = i
      /\ job[i] = "waiting" <=>
           i \in ctl.queue \/ ctl.parked = i \/ \E t \in Tickers : Launches(t, i)
      /\ i \in ctl.queue => ctl.parked # i /\ \A t \in Tickers : ~Launches(t, i)
      /\ \A t \in Tickers : Launches(t, i) => ctl.parked = NoItem
  BY DEF JobPlaces, HandsFree, Launches
<1>5. CASE job[i] = "new"
  <2>1. Places(i) = {}
    BY <1>2, <1>4, <1>5
  <2> QED
    BY <1>5, <2>1, FS_EmptySet
<1>6. CASE job[i] \in {"running", "ended", "stale"}
  <2>1. Places(i) = {"active"}
    BY <1>2, <1>4, <1>6
  <2> QED
    BY <1>3, <1>6, <2>1
<1>7. CASE job[i] \in {"settled", "lost"}
  <2>1. Places(i) = {job[i]}
    BY <1>2, <1>4, <1>7
  <2> QED
    BY <1>3, <1>7, <2>1
<1>8. CASE job[i] = "waiting"
  <2>1. CASE i \in ctl.queue
    <3>1. Places(i) = {"queue"}
      BY <1>1, <1>2, <1>4, <1>8, <2>1
    <3> QED
      BY <1>3, <1>8, <3>1
  <2>2. CASE ctl.parked = i
    <3>1. Places(i) = {"parked"}
      BY <1>1, <1>2, <1>4, <1>8, <2>2
    <3> QED
      BY <1>3, <1>8, <3>1
  <2>3. ASSUME NEW t \in Tickers, Launches(t, i)
        PROVE  Cardinality(Places(i)) = 1
    <3>1. Places(i) = {t}
      BY <1>1, <1>2, <1>4, <1>8, <2>3 DEF SingleTicker
    <3> QED
      BY <1>3, <3>1
  <2> QED
    BY <1>4, <1>8, <2>1, <2>2, <2>3
<1> QED
  BY <1>1, <1>5, <1>6, <1>7, <1>8

\* Items that are in one place, and lost no more than crashes allow.
LEMMA ItemsInPlace == ASSUME SingleTicker PROVE AutoIInv => ItemsAccounted
<1>1. AutoIInv => ScheduleKept /\ LossesBounded
  BY DEF AutoIInv
<1> QED
  BY <1>1, OnePlace DEF ItemsAccounted, ScheduleKept, LossesBounded, Lost

\* No item is lost or doubled on its way, no run of the schedule is skipped or
\* accepted twice, and a crash costs one item at most
\* (subscription_automation.go:360, 457).
THEOREM NoItemIsLost == ASSUME SingleTicker PROVE AutomationSpec => []ItemsAccounted
BY ItemsInPlace, AutoInvariant, PTL

-----------------------------------------------------------------------------
(* Any number of supervisors.  They may launch two jobs, resume a session twice
   and forget what runs, but what they hold was accepted before, so the schedule
   is kept and a crash loses no more than they had in hand. *)

\* What the controller or a ticker holds was accepted.
HeldAccepted ==
  /\ \A i \in ctl.queue : job[i] # "new"
  /\ ctl.active # NoItem => job[ctl.active] # "new"
  /\ ctl.parked # NoItem => job[ctl.parked] # "new"
  /\ \A t \in Tickers :
       hand[t].does # "nothing" => hand[t].item \in Entries /\ job[hand[t].item] # "new"

SharedIInv == AutomationTypeOK /\ HeldAccepted /\ ScheduleKept

\* A step that accepts no run of the schedule, and takes nothing that was not
\* accepted.
LEMMA SharedMoves ==
    ASSUME SharedIInv, AutomationTypeOK',
           \A i \in Entries : job[i] # "new" => job'[i] # "new",
           \A i \in Runs : job'[i] = "new" <=> job[i] = "new",
           ctl'.lastRun = ctl.lastRun, dueRun <= dueRun',
           \A i \in ctl'.queue : i \in ctl.queue \/ job'[i] # "new",
           ctl'.active \in {ctl.active, NoItem} \/ job'[ctl'.active] # "new",
           ctl'.parked \in {ctl.parked, NoItem} \/ job'[ctl'.parked] # "new",
           \A t \in Tickers : hand'[t] = hand[t] \/ hand'[t] = Idle
    PROVE  SharedIInv'
<1>1. ctl.queue \subseteq Entries /\ ctl.active \in ItemOrNone /\ ctl.parked \in ItemOrNone
      /\ ctl.lastRun \in Nat /\ dueRun \in Nat /\ dueRun' \in Nat /\ Idle.does = "nothing"
  BY ItemKinds DEF SharedIInv, AutomationTypeOK, Idle
<1>2. HeldAccepted'
  BY <1>1 DEF SharedIInv, HeldAccepted, ItemOrNone
<1>3. ScheduleKept'
  BY <1>1 DEF SharedIInv, ScheduleKept
<1> QED
  BY <1>2, <1>3 DEF SharedIInv

\* The job of an item that was accepted moves on.
LEMMA JobMoves ==
    ASSUME AutomationTypeOK, NEW i \in Entries, job[i] # "new",
           NEW s \in {"waiting", "running", "ended", "settled"}, job' = [job EXCEPT ![i] = s]
    PROVE  /\ job' \in [Entries -> {"new", "waiting", "running", "ended", "stale", "settled", "lost"}]
           /\ \A k \in Entries : job'[k] = "new" <=> job[k] = "new"
           /\ job'[i] # "new"
BY DEF AutomationTypeOK

\* What a ticker does after its tick.
LEMMA SharedHands ==
    ASSUME SharedIInv, NEW t \in Tickers, HandSteps(t)
    PROVE  SharedIInv'
<1> DEFINE i == hand[t].item
<1>1. /\ ctl \in Ctls /\ hand \in [Tickers -> Hands] /\ Idle \in Hands /\ AutomationTypeOK
      /\ dueRun \in Nat /\ Runs \subseteq Entries
  BY Types, ItemKinds DEF SharedIInv, Idle, Hands, ItemOrNone
<1>2. i \in Entries /\ job[i] # "new" /\ i \in ItemOrNone
  BY DEF SharedIInv, HeldAccepted, HandSteps, LaunchJob, LaunchResearch, LaunchJobFails, Launching,
     ResumeParked, ResumeFails, ResumeSkipped, ItemOrNone
<1>3. /\ hand' = [hand EXCEPT ![t] = Idle] /\ hand' \in [Tickers -> Hands]
      /\ \A u \in Tickers : hand'[u] = hand[u] \/ hand'[u] = Idle
      /\ UNCHANGED <<kind, windowOver, dueRun, autoCrashes>>
      /\ reporters' \subseteq Entries /\ mishaps' \in 0..MaxMishaps
  BY <1>1, <1>2, AutomationAssumption
     DEF HandSteps, LaunchJob, LaunchResearch, LaunchJobFails, ResumeParked, ResumeFails,
         ResumeSkipped, Finish, Mishap, AutomationTypeOK
<1>4. /\ job' \in [Entries -> {"new", "waiting", "running", "ended", "stale", "settled", "lost"}]
      /\ \A k \in Entries : job'[k] = "new" <=> job[k] = "new"
  <2>1. job' = job \/ \E s \in {"running", "settled"} : job' = [job EXCEPT ![i] = s]
    BY DEF HandSteps, LaunchJob, LaunchResearch, LaunchJobFails, ResumeParked, ResumeFails, ResumeSkipped
  <2> QED
    BY <1>1, <1>2, <2>1, JobMoves DEF AutomationTypeOK
<1>5. /\ ctl' \in Ctls /\ ctl'.lastRun = ctl.lastRun
      /\ ctl'.queue \subseteq ctl.queue \cup {i}
      /\ ctl'.active \in {ctl.active, i} /\ ctl'.parked \in {ctl.parked, NoItem}
  <2>1. CASE LaunchJob(t)
    BY <1>1, <1>2, <2>1 DEF LaunchJob, Ctls
  <2>2. CASE LaunchJobFails(t)
    BY <1>1, <1>2, <2>2 DEF LaunchJobFails, Requeue, Ctls
  <2>3. CASE ResumeParked(t)
    BY <1>1, <1>2, <2>3 DEF ResumeParked, Ctls, ItemOrNone
  <2>4. CASE ResumeFails(t)
    BY <1>1, <1>2, <2>4 DEF ResumeFails, Ctls
  <2>5. CASE LaunchResearch(t) \/ ResumeSkipped(t)
    BY <1>1, <1>2, <2>5 DEF LaunchResearch, ResumeSkipped
  <2> QED
    BY <2>1, <2>2, <2>3, <2>4, <2>5 DEF HandSteps
<1>6. AutomationTypeOK'
  BY <1>1, <1>3, <1>4, <1>5 DEF AutomationTypeOK, Ctls, Hands
<1> HIDE DEF i
<1> QED
  BY <1>1, <1>2, <1>3, <1>4, <1>5, <1>6, SharedMoves

\* Jobs end and report, items come and go by hand.
LEMMA SharedJobs ==
    ASSUME SharedIInv, NEW i \in Entries,
           JobEnds(i) \/ Report(i) \/ RemoveQueueItem(i) \/ (i \in Requests /\ Enqueue(i))
    PROVE  SharedIInv'
<1>1. /\ ctl \in Ctls /\ AutomationTypeOK /\ dueRun \in Nat /\ Runs \subseteq Entries
      /\ NoItem \notin Entries /\ Requests \cap Runs = {} /\ Requests \subseteq Entries
  BY Types, ItemKinds DEF SharedIInv
<1>2. CASE JobEnds(i)
  <2>1. UNCHANGED <<ctl, kind, hand, reporters, windowOver, dueRun, mishaps, autoCrashes>>
    BY <1>2 DEF JobEnds
  <2>2. /\ job' \in [Entries -> {"new", "waiting", "running", "ended", "stale", "settled", "lost"}]
        /\ \A k \in Entries : job'[k] = "new" <=> job[k] = "new"
    BY <1>1, <1>2, JobMoves DEF JobEnds
  <2>3. AutomationTypeOK'
    BY <1>1, <2>1, <2>2 DEF AutomationTypeOK
  <2> QED
    BY <1>1, <2>1, <2>2, <2>3, SharedMoves
<1>3. CASE Report(i)
  <2>1. /\ UNCHANGED <<kind, hand, windowOver, dueRun, mishaps, autoCrashes>>
        /\ reporters' \subseteq Entries
    BY <1>1, <1>3 DEF Report, AutomationTypeOK
  <2>2. /\ job' \in [Entries -> {"new", "waiting", "running", "ended", "stale", "settled", "lost"}]
        /\ \A k \in Entries : job'[k] = "new" <=> job[k] = "new"
    BY <1>1, <1>3, JobMoves DEF Report
  <2>3. /\ ctl' \in Ctls /\ ctl'.lastRun = ctl.lastRun /\ ctl'.queue = ctl.queue
        /\ ctl'.active \in {ctl.active, NoItem} /\ ctl'.parked = ctl.parked
    <3>1. PICK c \in Ctls : ctl' = ClearActive(c, i) /\ SameWork(ctl, c)
      BY <1>1, <1>3, ReportMoves
    <3> QED
      BY <3>1 DEF ClearActive, SameWork, Ctls, ItemOrNone
  <2>4. AutomationTypeOK'
    BY <1>1, <2>1, <2>2, <2>3 DEF AutomationTypeOK, Ctls
  <2> QED
    BY <1>1, <2>1, <2>2, <2>3, <2>4, SharedMoves
<1>4. CASE RemoveQueueItem(i)
  <2>1. UNCHANGED <<kind, hand, reporters, windowOver, dueRun, mishaps, autoCrashes>>
    BY <1>4 DEF RemoveQueueItem
  <2>2. /\ job' \in [Entries -> {"new", "waiting", "running", "ended", "stale", "settled", "lost"}]
        /\ \A k \in Entries : job'[k] = "new" <=> job[k] = "new"
    BY <1>1, <1>4, JobMoves DEF RemoveQueueItem, SharedIInv, HeldAccepted
  <2>3. /\ ctl' \in Ctls /\ ctl'.lastRun = ctl.lastRun /\ ctl'.queue \subseteq ctl.queue
        /\ ctl'.active = ctl.active /\ ctl'.parked = ctl.parked
    BY <1>1, <1>4 DEF RemoveQueueItem, Ctls
  <2>4. AutomationTypeOK'
    BY <1>1, <2>1, <2>2, <2>3 DEF AutomationTypeOK, Ctls
  <2> QED
    BY <1>1, <2>1, <2>2, <2>3, <2>4, SharedMoves
<1>5. CASE i \in Requests /\ Enqueue(i)
  <2>1. UNCHANGED <<hand, reporters, windowOver, dueRun, mishaps, autoCrashes>>
        /\ kind' \in [Entries -> Kinds \cup {"none"}]
    BY <1>1, <1>5 DEF Enqueue, AutomationTypeOK
  <2>2. /\ job' \in [Entries -> {"new", "waiting", "running", "ended", "stale", "settled", "lost"}]
        /\ job'[i] # "new" /\ \A k \in Entries \ {i} : job'[k] = job[k]
    BY <1>1, <1>5 DEF Enqueue, AutomationTypeOK
  <2>3. /\ ctl' \in Ctls /\ ctl'.lastRun = ctl.lastRun /\ ctl'.queue = ctl.queue \cup {i}
        /\ ctl'.active = ctl.active /\ ctl'.parked = ctl.parked
    BY <1>1, <1>5 DEF Enqueue, Ctls
  <2>4. AutomationTypeOK'
    BY <1>1, <2>1, <2>2, <2>3 DEF AutomationTypeOK, Ctls
  <2>5. i \notin Runs
    BY <1>1, <1>5
  <2> QED
    BY <1>1, <2>1, <2>2, <2>3, <2>4, <2>5, SharedMoves
<1> QED
  BY <1>2, <1>3, <1>4, <1>5

\* The clock, the window and the policy leave the work alone.
LEMMA SharedClock ==
    ASSUME SharedIInv, SetPolicy \/ Status \/ WindowPasses \/ BackoffPasses \/ RunFallsDue
    PROVE  SharedIInv'
<1>1. /\ ctl \in Ctls /\ AutomationTypeOK /\ dueRun \in 0..MaxRuns /\ windowOver \in BOOLEAN
      /\ [ctl EXCEPT !.on = ~@] \in Ctls /\ SameWork(ctl, [ctl EXCEPT !.on = ~@])
      /\ [ctl EXCEPT !.backoff = FALSE] \in Ctls /\ SameWork(ctl, [ctl EXCEPT !.backoff = FALSE])
  BY Types DEF SharedIInv, Ctls, SameWork
<1>2. ctl' \in Ctls /\ SameWork(ctl, ctl')
  <2>1. \/ ctl' = ctl \/ ctl' = EnsureWindow(ctl) \/ ctl' = EnsureWindow([ctl EXCEPT !.on = ~@])
        \/ ctl' = [ctl EXCEPT !.backoff = FALSE]
    BY DEF SetPolicy, Status, WindowPasses, BackoffPasses, RunFallsDue
  <2>2. CASE ctl' = EnsureWindow([ctl EXCEPT !.on = ~@])
    BY <1>1, <2>2, WindowMoves DEF SameWork
  <2> QED
    BY <1>1, <2>1, <2>2, WindowMoves DEF SameWork
<1>3. UNCHANGED <<kind, job, hand, reporters, mishaps, autoCrashes>> /\ windowOver' \in BOOLEAN
  BY <1>1 DEF SetPolicy, Status, WindowPasses, BackoffPasses, RunFallsDue, SeesWindow
<1>4. dueRun' \in 0..MaxRuns /\ dueRun <= dueRun'
  <2>1. dueRun' = dueRun \/ (dueRun < MaxRuns /\ dueRun' = dueRun + 1)
    BY DEF SetPolicy, Status, WindowPasses, BackoffPasses, RunFallsDue
  <2> QED
    BY <1>1, <2>1, ItemKinds
<1>5. AutomationTypeOK'
  BY <1>1, <1>2, <1>3, <1>4 DEF AutomationTypeOK, Ctls
<1> QED
  BY <1>1, <1>2, <1>3, <1>4, <1>5, SharedMoves DEF SameWork

\* After a restart no ticker has anything in hand.
LEMMA SharedNewRun == ASSUME SharedIInv, RestartAutomation PROVE SharedIInv'
<1>1. /\ ctl \in Ctls /\ AutomationTypeOK /\ Idle \in Hands /\ dueRun \in Nat
      /\ Runs \subseteq Entries
  BY Types, ItemKinds DEF SharedIInv, Idle, Hands, ItemOrNone
<1>2. /\ hand' = [t \in Tickers |-> Idle] /\ reporters' = {}
      /\ UNCHANGED <<ctl, kind, windowOver, dueRun, mishaps>>
      /\ autoCrashes' \in 0..MaxAutoCrashes
  BY <1>1, AutomationAssumption DEF RestartAutomation, AutomationTypeOK
<1>3. ASSUME NEW i \in Entries
      PROVE  /\ job'[i] \in {"new", "waiting", "running", "ended", "stale", "settled", "lost"}
             /\ job'[i] = "new" <=> job[i] = "new"
  <2>1. ASSUME NEW t \in Tickers, hand[t] = [does |-> "launch", item |-> i]
        PROVE  job[i] # "new"
    BY <2>1 DEF SharedIInv, HeldAccepted
  <2>2. job'[i] = CASE \E t \in Tickers : hand[t] = [does |-> "launch", item |-> i] -> "lost"
                    [] job[i] = "running" -> IF kind[i] = "session" THEN "ended" ELSE "stale"
                    [] OTHER -> job[i]
    BY DEF RestartAutomation
  <2>3. CASE \E t \in Tickers : hand[t] = [does |-> "launch", item |-> i]
    <3>1. job'[i] = "lost" \/ (job[i] = "running" /\ job'[i] \in {"ended", "stale"})
      BY <2>2, <2>3
    <3> QED
      BY <2>1, <2>3, <3>1
  <2>4. CASE ~\E t \in Tickers : hand[t] = [does |-> "launch", item |-> i]
    <3>1. job'[i] = job[i] \/ (job[i] = "running" /\ job'[i] \in {"ended", "stale"})
      BY <2>2, <2>4
    <3> QED
      BY <1>1, <3>1 DEF AutomationTypeOK
  <2> QED
    BY <2>3, <2>4
<1>4. AutomationTypeOK'
  <2>1. job' = [i \in Entries |-> job'[i]]
    BY DEF RestartAutomation
  <2>2. job' \in [Entries -> {"new", "waiting", "running", "ended", "stale", "settled", "lost"}]
    BY <1>3, <2>1
  <2>3. hand' \in [Tickers -> Hands]
    BY <1>1, <1>2
  <2> QED
    BY <1>1, <1>2, <2>2, <2>3 DEF AutomationTypeOK, Hands
<1> QED
  BY <1>1, <1>2, <1>3, <1>4, SharedMoves

\* A tick: it accepts the runs that are due, each once, and takes in hand what was
\* queued or parked.
LEMMA SharedTick ==
    ASSUME SharedIInv, NEW t \in Tickers, Tick(t)
    PROVE  SharedIInv'
<1>1. PICK quota \in BOOLEAN, id \in BOOLEAN, spent \in 0..MaxSpend :
        LET handled == HandleActive(EnsureWindow(ctl), spent, quota, id)
            ready == EnqueueDue(handled)
            done == IF ActiveEnded(ctl) THEN {ctl.active} ELSE {}
        IN /\ id => quota
           /\ IF quota
              THEN ActiveEnded(ctl) /\ kind[ctl.active] = "session" /\ Mishap
              ELSE UNCHANGED mishaps
           /\ \E a \in NextActions(ready) :
                ctl' = Dispatched(ready, a) /\ hand' = [hand EXCEPT ![t] = a]
           /\ \E f \in [DueRuns(handled) -> Kinds] :
                kind' = [i \in Entries |-> IF i \in DueRuns(handled) THEN f[i] ELSE kind[i]]
           /\ job' = [i \in Entries |->
                       IF i \in done THEN IF quota THEN "waiting" ELSE "settled"
                       ELSE IF i \in DueRuns(handled) THEN "waiting" ELSE job[i]]
  BY DEF Tick
<1> DEFINE e == EnsureWindow(ctl)
           h == HandleActive(e, spent, quota, id)
           r == EnqueueDue(h)
           ended == ActiveEnded(ctl)
           due == DueRuns(h)
<1>2. PICK a \in NextActions(r) : ctl' = Dispatched(r, a) /\ hand' = [hand EXCEPT ![t] = a]
  BY <1>1
<1>3. /\ ctl \in Ctls /\ hand \in [Tickers -> Hands] /\ dueRun \in 0..MaxRuns
      /\ job \in [Entries -> {"new", "waiting", "running", "ended", "stale", "settled", "lost"}]
      /\ kind \in [Entries -> Kinds \cup {"none"}] /\ windowOver \in BOOLEAN
      /\ Idle.does = "nothing" /\ HeldAccepted /\ ScheduleKept /\ AutomationTypeOK
      /\ UNCHANGED <<reporters, dueRun, autoCrashes>>
  BY Types DEF Idle, SharedIInv, Tick
<1>4. e \in Ctls /\ SameWork(ctl, e)
  BY <1>3, WindowMoves
<1>5. /\ e.active = ctl.active /\ ActiveEnded(e) <=> ended
      /\ quota => ended /\ kind[ctl.active] = "session"
      /\ spent \in Nat
  BY <1>1, <1>4, ItemKinds DEF SameWork, ActiveEnded
<1>6. /\ h \in Ctls /\ h.queue = ctl.queue /\ h.lastRun = ctl.lastRun
      /\ h.active \in {ctl.active, NoItem} /\ h.parked \in {ctl.active, ctl.parked}
  BY <1>4, <1>5, HandledMoves DEF SameWork
<1>7. /\ r \in Ctls /\ r.queue = ctl.queue \cup due
      /\ r.active = h.active /\ r.parked = h.parked
      /\ due \subseteq Runs /\ r.lastRun <= dueRun
      /\ \A x \in Runs : x \in due <=> ctl.lastRun < x /\ x <= r.lastRun
      /\ ctl.lastRun <= r.lastRun
  BY <1>3, <1>6, DueMoves DEF ScheduleKept
<1>8. /\ a \in Hands /\ ctl' \in Ctls
      /\ ctl'.active = r.active /\ ctl'.parked = r.parked /\ ctl'.lastRun = r.lastRun
      /\ ctl'.queue \subseteq r.queue
      /\ \/ a = Idle
         \/ a.item = r.parked /\ r.parked # NoItem
         \/ a.item \in r.queue
  BY <1>2, <1>7, DispatchMoves
<1>9. \A i \in Entries : job'[i] = IF ended /\ i = ctl.active
                                   THEN IF quota THEN "waiting" ELSE "settled"
                                   ELSE IF i \in due THEN "waiting" ELSE job[i]
  BY <1>1
<1>10. /\ ctl.queue \subseteq Entries /\ ctl.active \in ItemOrNone /\ ctl.parked \in ItemOrNone
       /\ ctl.lastRun \in Nat /\ r.lastRun \in Nat /\ dueRun \in Nat
       /\ Runs \subseteq Nat /\ Runs \subseteq Entries /\ NoItem \notin Entries
       /\ due \subseteq Entries /\ r.queue \subseteq Entries
  BY <1>3, <1>7, ItemKinds DEF Ctls
<1>11. ended => ctl.active \in Entries /\ job[ctl.active] = "ended"
  BY <1>10 DEF ActiveEnded, ItemOrNone
<1> HIDE DEF e, h, r, due, ended
<1>12. \A i \in Entries : job'[i] # "new" <=> job[i] # "new" \/ i \in due
  BY <1>9, <1>11
<1>13. AutomationTypeOK'
  <2>1. mishaps' \in 0..MaxMishaps
    BY <1>1, <1>3, AutomationAssumption DEF Mishap, AutomationTypeOK
  <2>2. kind' \in [Entries -> Kinds \cup {"none"}]
    BY <1>1, <1>3 DEF due, h, e
  <2>3. job' \in [Entries -> {"new", "waiting", "running", "ended", "stale", "settled", "lost"}]
    <3>1. job' = [i \in Entries |-> job'[i]]
      BY <1>1
    <3>2. \A i \in Entries : job'[i] \in {"new", "waiting", "running", "ended", "stale", "settled", "lost"}
      BY <1>3, <1>9
    <3> QED
      BY <3>1, <3>2
  <2>4. hand' \in [Tickers -> Hands]
    BY <1>2, <1>3, <1>8
  <2>5. windowOver' \in BOOLEAN
    BY <1>3 DEF Tick, SeesWindow
  <2> QED
    BY <1>3, <1>8, <2>1, <2>2, <2>3, <2>4, <2>5 DEF AutomationTypeOK, Ctls, Hands
<1>14. HeldAccepted'
  <2>1. \A i \in r.queue : job'[i] # "new"
    BY <1>3, <1>7, <1>10, <1>12 DEF HeldAccepted
  <2>2. ctl.active # NoItem => ctl.active \in Entries /\ job'[ctl.active] # "new"
    BY <1>3, <1>10, <1>12 DEF HeldAccepted, ItemOrNone
  <2>3. ctl.parked # NoItem => ctl.parked \in Entries /\ job'[ctl.parked] # "new"
    BY <1>3, <1>10, <1>12 DEF HeldAccepted, ItemOrNone
  <2>4. a.does # "nothing" => a.item \in Entries /\ job'[a.item] # "new"
    BY <1>3, <1>6, <1>7, <1>8, <1>10, <2>1, <2>2, <2>3
  <2>5. ASSUME NEW u \in Tickers, hand'[u].does # "nothing"
        PROVE  hand'[u].item \in Entries /\ job'[hand'[u].item] # "new"
    <3>1. CASE u = t
      BY <1>2, <1>3, <2>4, <2>5, <3>1
    <3>2. CASE u # t
      BY <1>2, <1>3, <1>12, <2>5, <3>2 DEF HeldAccepted
    <3> QED
      BY <3>1, <3>2
  <2> QED
    BY <1>6, <1>7, <1>8, <2>1, <2>2, <2>3, <2>5 DEF HeldAccepted
<1>15. ScheduleKept'
  <2>1. ASSUME NEW x \in Runs PROVE job'[x] # "new" <=> x <= r.lastRun
    <3>1. x \in Entries /\ x \in Nat /\ (job[x] # "new" <=> x <= ctl.lastRun)
      BY <1>3, <1>10 DEF ScheduleKept
    <3> QED
      BY <1>7, <1>10, <1>12, <3>1
  <2> QED
    BY <1>3, <1>7, <1>8, <2>1 DEF ScheduleKept
<1> QED
  BY <1>13, <1>14, <1>15 DEF SharedIInv

LEMMA SharedInit == AutomationInit => SharedIInv
<1> SUFFICES ASSUME AutomationInit PROVE SharedIInv
  OBVIOUS
<1>1. ctl \in Ctls /\ ctl.queue = {} /\ ctl.active = NoItem /\ ctl.parked = NoItem /\ ctl.lastRun = 0
  BY ItemKinds DEF AutomationInit, Ctls, ItemOrNone
<1>2. hand = [t \in Tickers |-> Idle] /\ Idle \in Hands /\ Idle.does = "nothing"
  BY DEF AutomationInit, Idle, Hands, ItemOrNone
<1>3. 0 \in 0..MaxRuns /\ 0 \in 0..MaxMishaps /\ 0 \in 0..MaxAutoCrashes
  BY AutomationAssumption
<1>4. hand \in [Tickers -> Hands]
  BY <1>2
<1>5. AutomationTypeOK
  BY <1>1, <1>3, <1>4, Types DEF AutomationInit
<1>6. HeldAccepted
  BY <1>1, <1>2 DEF HeldAccepted
<1>7. ScheduleKept
  BY <1>1, ItemKinds DEF AutomationInit, ScheduleKept, Runs
<1> QED
  BY <1>5, <1>6, <1>7 DEF SharedIInv

LEMMA SharedStep == SharedIInv /\ [AutomationNext]_autoVars => SharedIInv'
<1> SUFFICES ASSUME SharedIInv, [AutomationNext]_autoVars PROVE SharedIInv'
  OBVIOUS
<1>1. ASSUME NEW t \in Tickers, Tick(t) \/ HandSteps(t) PROVE SharedIInv'
  BY <1>1, SharedTick, SharedHands
<1>2. ASSUME NEW i \in Entries, JobEnds(i) \/ Report(i) \/ RemoveQueueItem(i) PROVE SharedIInv'
  BY <1>2, SharedJobs
<1>3. ASSUME NEW i \in Requests, Enqueue(i) PROVE SharedIInv'
  BY <1>3, SharedJobs, ItemKinds
<1>4. CASE SetPolicy \/ Status \/ WindowPasses \/ BackoffPasses \/ RunFallsDue
  BY <1>4, SharedClock
<1>5. CASE RestartAutomation
  BY <1>5, SharedNewRun
<1>6. CASE UNCHANGED autoVars
  BY <1>6 DEF autoVars, SharedIInv, AutomationTypeOK, HeldAccepted, ScheduleKept
<1> QED
  BY <1>1, <1>2, <1>3, <1>4, <1>5, <1>6 DEF AutomationNext

\* However many supervisors tick it, the state of the automation keeps its type
\* (subscription_automation.go:360).
THEOREM AutoTypeCorrect == AutomationSpec => []AutomationTypeOK
<1>1. SharedIInv => AutomationTypeOK
  BY DEF SharedIInv
<1> QED
  BY <1>1, SharedInit, SharedStep, PTL DEF AutomationSpec

\* Nor do they skip a run of the schedule or accept one twice: the runs up to the
\* last one recorded, and no others, were accepted (subscription_automation.go:457).
THEOREM ScheduleIsKept == AutomationSpec => []ScheduleKept
<1>1. SharedIInv => ScheduleKept
  BY DEF SharedIInv
<1> QED
  BY <1>1, SharedInit, SharedStep, PTL DEF AutomationSpec

\* Only a restart loses an item.
LEMMA LostBefore ==
    ASSUME SharedIInv, [AutomationNext]_autoVars, ~RestartAutomation
    PROVE  Lost' \subseteq Lost /\ autoCrashes' = autoCrashes
<1> DEFINE NoneLost == /\ \A i \in Entries : job'[i] = "lost" => job[i] = "lost"
                       /\ autoCrashes' = autoCrashes
<1>1. job \in [Entries -> {"new", "waiting", "running", "ended", "stale", "settled", "lost"}]
  BY DEF SharedIInv, AutomationTypeOK
<1>2. ASSUME NEW t \in Tickers, Tick(t) PROVE NoneLost
  <2>1. PICK quota \in BOOLEAN, id \in BOOLEAN, spent \in 0..MaxSpend :
          LET handled == HandleActive(EnsureWindow(ctl), spent, quota, id)
              done == IF ActiveEnded(ctl) THEN {ctl.active} ELSE {}
          IN job' = [i \in Entries |->
                       IF i \in done THEN IF quota THEN "waiting" ELSE "settled"
                       ELSE IF i \in DueRuns(handled) THEN "waiting" ELSE job[i]]
    BY <1>2 DEF Tick
  <2>2. \A i \in Entries : job'[i] \in {"waiting", "settled", job[i]}
    BY <2>1
  <2>3. autoCrashes' = autoCrashes
    BY <1>2 DEF Tick
  <2> QED
    BY <2>2, <2>3
<1>3. ASSUME NEW t \in Tickers, HandSteps(t) PROVE NoneLost
  BY <1>1, <1>3 DEF HandSteps, LaunchJob, LaunchResearch, LaunchJobFails, Launching,
     ResumeParked, ResumeFails, ResumeSkipped
<1>4. ASSUME NEW k \in Entries, JobEnds(k) \/ Report(k) \/ RemoveQueueItem(k) \/ Enqueue(k)
      PROVE  NoneLost
  BY <1>1, <1>4 DEF JobEnds, Report, RemoveQueueItem, Enqueue
<1>5. ASSUME SetPolicy \/ Status \/ WindowPasses \/ BackoffPasses \/ RunFallsDue PROVE NoneLost
  BY <1>5 DEF SetPolicy, Status, WindowPasses, BackoffPasses, RunFallsDue
<1>6. ASSUME UNCHANGED autoVars PROVE NoneLost
  BY <1>6 DEF autoVars
<1>7. NoneLost
  BY <1>2, <1>3, <1>4, <1>5, <1>6, ItemKinds DEF AutomationNext
<1> QED
  BY <1>7 DEF Lost

\* A restart loses what the tickers were launching, one item each at most.
LEMMA LostInHand ==
    ASSUME SharedIInv, RestartAutomation, IsFiniteSet(Tickers), IsFiniteSet(Lost)
    PROVE  /\ IsFiniteSet(Lost')
           /\ Cardinality(Lost') <= Cardinality(Lost) + Cardinality(Tickers)
<1> DEFINE f == [t \in Tickers |-> hand[t].item]
           T == {f[t] : t \in Tickers}
<1>1. /\ autoCrashes' = autoCrashes + 1
      /\ \A i \in Entries : job'[i] = CASE \E t \in Tickers : hand[t] = [does |-> "launch", item |-> i] -> "lost"
                                        [] job[i] = "running" -> IF kind[i] = "session" THEN "ended" ELSE "stale"
                                        [] OTHER -> job[i]
  BY DEF RestartAutomation
<1>2. Lost' \subseteq Lost \cup T
  <2>1. ASSUME NEW i \in Entries, job'[i] = "lost" PROVE i \in Lost \cup T
    <3>1. CASE \E t \in Tickers : hand[t] = [does |-> "launch", item |-> i]
      BY <3>1
    <3>2. CASE ~\E t \in Tickers : hand[t] = [does |-> "launch", item |-> i]
      <4>1. job'[i] = job[i] \/ job'[i] \in {"ended", "stale"}
        BY <1>1, <3>2
      <4> QED
        BY <2>1, <4>1 DEF Lost
    <3> QED
      BY <3>1, <3>2
  <2> QED
    BY <2>1 DEF Lost
<1>3. f \in Surjection(Tickers, T)
  BY DEF Surjection
<1> HIDE DEF f
<1>4. IsFiniteSet(T) /\ Cardinality(T) <= Cardinality(Tickers)
  <2> HIDE DEF T
  <2> QED
    BY <1>3, FS_Surjection
<1> HIDE DEF T
<1>5. /\ IsFiniteSet(Lost \cup T) /\ IsFiniteSet(Lost \cap T)
      /\ Cardinality(Lost \cup T) = Cardinality(Lost) + Cardinality(T) - Cardinality(Lost \cap T)
  BY <1>4, FS_Union, FS_Intersection
<1>6. IsFiniteSet(Lost') /\ Cardinality(Lost') <= Cardinality(Lost \cup T)
  BY <1>2, <1>5, FS_Subset
<1>7. /\ Cardinality(Lost) \in Nat /\ Cardinality(T) \in Nat /\ Cardinality(Lost \cap T) \in Nat
      /\ Cardinality(Tickers) \in Nat /\ Cardinality(Lost') \in Nat
  BY <1>4, <1>5, <1>6, FS_CardinalityType
<1> QED
  BY <1>4, <1>5, <1>6, <1>7

\* However many supervisors tick it, a crash costs each of them one item at most
\* (subscription_automation.go:1155).
THEOREM LossesAreBounded ==
    ASSUME IsFiniteSet(Tickers) PROVE AutomationSpec => []LossesBounded
<1>1. AutomationInit => LossesBounded
  <2> SUFFICES ASSUME AutomationInit PROVE LossesBounded
    OBVIOUS
  <2>1. Lost = {} /\ autoCrashes = 0
    BY DEF AutomationInit, Lost
  <2>2. IsFiniteSet(Lost) /\ Cardinality(Lost) = 0 /\ Cardinality(Tickers) \in Nat
    BY <2>1, FS_EmptySet, FS_CardinalityType
  <2> QED
    BY <2>1, <2>2 DEF LossesBounded
<1>2. SharedIInv /\ LossesBounded /\ [AutomationNext]_autoVars => LossesBounded'
  <2> SUFFICES ASSUME SharedIInv, LossesBounded, [AutomationNext]_autoVars PROVE LossesBounded'
    OBVIOUS
  <2>1. /\ IsFiniteSet(Lost) /\ Cardinality(Lost) <= autoCrashes * Cardinality(Tickers)
        /\ Cardinality(Lost) \in Nat /\ Cardinality(Tickers) \in Nat /\ autoCrashes \in Nat
    BY FS_CardinalityType DEF LossesBounded, SharedIInv, AutomationTypeOK
  <2>2. CASE RestartAutomation
    <3>1. /\ IsFiniteSet(Lost') /\ Cardinality(Lost') <= Cardinality(Lost) + Cardinality(Tickers)
          /\ Cardinality(Lost') \in Nat
      BY <2>1, <2>2, LostInHand, FS_CardinalityType
    <3>2. autoCrashes' = autoCrashes + 1
      BY <2>2 DEF RestartAutomation
    <3>3. (autoCrashes + 1) * Cardinality(Tickers) = autoCrashes * Cardinality(Tickers) + Cardinality(Tickers)
          /\ autoCrashes * Cardinality(Tickers) \in Nat
      BY <2>1
    <3> QED
      BY <2>1, <3>1, <3>2, <3>3 DEF LossesBounded
  <2>3. CASE ~RestartAutomation
    <3>1. Lost' \subseteq Lost /\ autoCrashes' = autoCrashes
      BY <2>3, LostBefore
    <3>3. IsFiniteSet(Lost') /\ Cardinality(Lost') <= Cardinality(Lost) /\ Cardinality(Lost') \in Nat
      BY <2>1, <3>1, FS_Subset, FS_CardinalityType
    <3> HIDE DEF Lost
    <3>4. autoCrashes * Cardinality(Tickers) \in Nat
      BY <2>1
    <3> QED
      BY <2>1, <3>1, <3>3, <3>4 DEF LossesBounded
  <2> QED
    BY <2>2, <2>3
<1> QED
  BY <1>1, <1>2, SharedInit, SharedStep, PTL DEF AutomationSpec
=============================================================================
