------------------------- MODULE NotificationsProofs -------------------------
(***************************************************************************)
(* What the workers promise for every number of workers, requests, posts   *)
(* and watchers, and every limit: who runs the daemon, and whom an alert   *)
(* may reach how often.                                                    *)
(***************************************************************************)
EXTENDS Notifications, FiniteSetTheorems, TLAPS

-----------------------------------------------------------------------------
(* The leader.                                                             *)

\* A process that is down holds nothing; one that watches has not led yet; a
\* connection that is open holds the lock, and only with one a daemon starts.
Held ==
    /\ \A w \in Worker : life[w] = "down" =>
         w \notin watching /\ w \notin daemon /\ registered[w] = 0
    /\ \A w \in watching : life[w] = "up" /\ registered[w] = 0
    /\ \A w \in Worker : leader_conn[w] = "open" => lock = w
    /\ \A w \in daemon : leader_conn[w] # "none"

LeaderInv == LeadershipTypes /\ Held

LEMMA LeaderInit == LeadershipInit => LeaderInv
  BY LeadershipAssumption DEF LeadershipInit, LeaderInv, LeadershipTypes, Held

LEMMA BootPrimaryPreserves ==
    ASSUME LeaderInv, NEW w \in Worker, BootPrimary(w)
    PROVE  LeaderInv'
  BY LeadershipAssumption
  DEF LeaderInv, LeadershipTypes, Held, BootPrimary, Starts, Acquire, StartPrimary

LEMMA BootStandbyPreserves ==
    ASSUME LeaderInv, NEW w \in Worker, BootStandby(w)
    PROVE  LeaderInv'
  BY DEF LeaderInv, LeadershipTypes, Held, BootStandby, Starts

LEMMA PromotePreserves ==
    ASSUME LeaderInv, NEW w \in Worker, Promote(w)
    PROVE  LeaderInv'
  BY LeadershipAssumption
  DEF LeaderInv, LeadershipTypes, Held, Promote, Acquire, StartPrimary

LEMMA PromoteFailsPreserves ==
    ASSUME LeaderInv, NEW w \in Worker, PromoteFails(w)
    PROVE  LeaderInv'
  BY LeadershipAssumption
  DEF LeaderInv, LeadershipTypes, Held, PromoteFails, Fault

LEMMA LoseConnectionPreserves ==
    ASSUME LeaderInv, NEW w \in Worker, LoseConnection(w)
    PROVE  LeaderInv'
  BY LeadershipAssumption
  DEF LeaderInv, LeadershipTypes, Held, LoseConnection, Fault, Released

LEMMA StopPreserves ==
    ASSUME LeaderInv, NEW w \in Worker, Stop(w)
    PROVE  LeaderInv'
  BY LeadershipAssumption DEF LeaderInv, LeadershipTypes, Held, Stop, Fault

LEMMA ReleasePreserves ==
    ASSUME LeaderInv, NEW w \in Worker, Release(w)
    PROVE  LeaderInv'
  BY LeadershipAssumption DEF LeaderInv, LeadershipTypes, Held, Release, Ends

LEMMA CrashPreserves ==
    ASSUME LeaderInv, NEW w \in Worker, Crash(w)
    PROVE  LeaderInv'
  BY LeadershipAssumption
  DEF LeaderInv, LeadershipTypes, Held, Crash, Ends, Released, Fault

LEMMA ReapPreserves ==
    ASSUME LeaderInv, Reap
    PROVE  LeaderInv'
  BY LeadershipAssumption DEF LeaderInv, LeadershipTypes, Held, Reap

\* Requests, tasks and queues leave the leadership alone.
LEMMA NoticesKeepLeadership ==
    ASSUME \/ \E w \in Worker : Flush(w)
           \/ \E r \in Request, w \in Worker, p \in New :
                Commits(r, w, p) \/ Fails(r, w, p) \/ Replays(r, w, p)
           \/ \E r \in Request : RequestStep(r)
           \/ \E t \in Task : MatchIgnored(t) \/ MatchAlert(t) \/ MatchTold(t)
           \/ \E u \in Watcher : CounterExpires(u)
    PROVE  UNCHANGED leadership
  BY DEF Flush, Commits, Fails, Replays, Dispatch, RequestStep, Announce, Told, Reply,
         Report, LaneAlert, LaneAlertUnlimited, MatchIgnored, MatchAlert, MatchTold,
         CounterExpires

LEMMA LeaderNext == LeaderInv /\ [Next]_vars => LeaderInv'
<1> SUFFICES ASSUME LeaderInv, [Next]_vars PROVE LeaderInv'
  OBVIOUS
<1>1. ASSUME UNCHANGED leadership PROVE LeaderInv'
  BY <1>1 DEF leadership, LeaderInv, LeadershipTypes, Held
<1>2. ASSUME NEW w \in Worker, LeadershipNext(w) PROVE LeaderInv'
  BY <1>2, BootPrimaryPreserves, BootStandbyPreserves, PromotePreserves,
     PromoteFailsPreserves, LoseConnectionPreserves, StopPreserves, ReleasePreserves,
     CrashPreserves
  DEF LeadershipNext
<1>3. CASE UNCHANGED vars
  BY <1>1, <1>3 DEF vars
<1>4. CASE Next
  BY <1>1, <1>2, <1>4, ReapPreserves, NoticesKeepLeadership DEF Next
<1> QED BY <1>3, <1>4

LEMMA LeaderAlways == Spec => []LeaderInv
<1>1. Init => LeaderInv
  BY LeaderInit DEF Init
<1> QED BY <1>1, LeaderNext, PTL DEF Spec

\* The lock, the connections, the watchdogs and the daemons keep their types;
\* handlers are registered once at most in a process (_start_primary_services).
THEOREM LeadershipTypeCorrect == Spec => []LeadershipTypes
<1>1. LeaderInv => LeadershipTypes
  BY DEF LeaderInv
<1> QED BY <1>1, LeaderAlways, PTL

\* However workers start, are promoted, stop and die, two of them run a daemon
\* only when all of them but one have lost the connection that held the lock.
THEOREM AtMostOneDaemon == Spec => []OneDaemon
<1>1. LeaderInv => OneDaemon
  <2> SUFFICES ASSUME LeaderInv
               PROVE  Cardinality({w \in daemon : leader_conn[w] # "broken"}) <= 1
    BY DEF OneDaemon
  <2> DEFINE S == {w \in daemon : leader_conn[w] # "broken"}
  <2>1. \A w \in S : w = lock
    BY DEF LeaderInv, LeadershipTypes, Held
  <2>2. S = {} \/ S = {lock}
    BY <2>1
  <2> HIDE DEF S
  <2>3. Cardinality(S) = 0 \/ Cardinality(S) = 1
    BY <2>2, FS_EmptySet, FS_Singleton
  <2> QED BY <2>3 DEF S
<1> QED BY <1>1, LeaderAlways, PTL

-----------------------------------------------------------------------------
(* Lane alerts.                                                            *)

\* What LaneLimit and CountersExpire rest on: the history never runs ahead of
\* the counter by more than the calls that failed.
RateInv ==
    /\ outages \in Nat /\ faults \in Nat
    /\ rate \in [Watcher -> [count : Nat, expires : BOOLEAN]]
    /\ counted \in [Watcher -> Nat]
    /\ \A u \in Watcher : counted[u] <= rate[u].count + outages
    /\ LaneLimit /\ CountersExpire

LEMMA RateInit == Init => RateInv
  BY NotificationsAssumption
  DEF Init, LeadershipInit, RateInv, NoCounter, LaneLimit, CountersExpire

\* Faults and outages only add up.
LEMMA FaultsGrow ==
    ASSUME RateInv, UNCHANGED <<rate, counted>>,
           faults' = faults \/ faults' = faults + 1,
           outages' = outages \/ outages' = outages + 1
    PROVE  RateInv'
  BY NotificationsAssumption DEF RateInv, LaneLimit, CountersExpire

LEMMA SumGrows ==
    ASSUME NEW a \in Nat, NEW b \in Nat, NEW c \in Nat, NEW d \in Nat,
           c >= a, d >= b, a + b > 0
    PROVE  c + d > 0
  OBVIOUS

\* A step that touches one counter, and counts with it.
LEMMA OneCounter ==
    ASSUME RateInv, NEW u \in Watcher, NEW c \in Nat, NEW x \in BOOLEAN,
           rate' = [rate EXCEPT ![u] = [count |-> c, expires |-> x]],
           counted' \in [Watcher -> Nat],
           \A v \in Watcher : v # u => counted'[v] = counted[v],
           faults' \in Nat, outages' \in Nat, faults' >= faults, outages' >= outages,
           counted'[u] <= c + outages', counted'[u] <= Limit + outages',
           x \/ faults' + outages' > 0
    PROVE  RateInv'
<1>0. faults + outages > 0 => faults' + outages' > 0
  <2>1. faults \in Nat /\ outages \in Nat
    BY DEF RateInv
  <2> QED BY <2>1, SumGrows
<1> USE NotificationsAssumption DEF RateInv
<1>1. rate' \in [Watcher -> [count : Nat, expires : BOOLEAN]]
  OBVIOUS
<1>2. /\ rate'[u] = [count |-> c, expires |-> x]
      /\ \A v \in Watcher : v # u => rate'[v] = rate[v]
  OBVIOUS
<1>3. \A v \in Watcher : counted'[v] <= rate'[v].count + outages'
  <2> TAKE v \in Watcher
  <2>1. CASE v = u
    BY <1>2, <2>1
  <2>2. CASE v # u
    <3>1. counted'[v] = counted[v] /\ rate'[v] = rate[v] /\ rate[v].count \in Nat
      BY <1>2, <2>2
    <3> QED BY <3>1
  <2> QED BY <2>1, <2>2
<1>4. LaneLimit'
  <2> SUFFICES ASSUME NEW v \in Watcher PROVE counted'[v] <= Limit + outages'
    BY DEF LaneLimit
  <2> QED BY DEF LaneLimit
<1>5. CountersExpire'
  <2> SUFFICES ASSUME NEW v \in Watcher, rate'[v].count > 0
               PROVE  rate'[v].expires \/ faults' + outages' > 0
    BY DEF CountersExpire
  <2>1. CASE v = u
    BY <1>2, <2>1
  <2>2. CASE v # u
    <3>1. rate'[v] = rate[v]
      BY <1>2, <2>2
    <3>2. rate[v].expires \/ faults + outages > 0
      BY <3>1 DEF CountersExpire
    <3>3. CASE rate[v].expires
      BY <3>1, <3>3
    <3>4. CASE faults + outages > 0
      BY <1>0, <3>4, Zenon
    <3> QED BY <3>2, <3>3, <3>4
  <2> QED BY <2>1, <2>2
<1> QED BY <1>1, <1>3, <1>4, <1>5

LEMMA LaneAlertLimited ==
    ASSUME RateInv, NEW r \in Request, NEW u \in Watcher, LaneAlert(r, u)
    PROVE  RateInv'
<1> DEFINE c == rate[u].count + 1
           x == rate[u].expires \/ rate[u].count = 0
<1>1. rate' = [rate EXCEPT ![u] = [count |-> c, expires |-> x]]
  BY DEF LaneAlert, Counted
<1>2. c \in Nat /\ x \in BOOLEAN /\ rate'[u].count = c
  BY <1>1 DEF RateInv
<1>3. UNCHANGED <<outages, faults>>
  BY DEF LaneAlert, leadership
<1>4. x \/ faults' + outages' > 0
  <2>1. CASE rate[u].count = 0
    BY <2>1
  <2>2. CASE rate[u].count # 0
    <3>1. rate[u].count > 0
      BY <2>2 DEF RateInv
    <3> QED BY <1>3, <3>1 DEF RateInv, CountersExpire
  <2> QED BY <2>1, <2>2
<1>5. CASE OverLimit(c)
  <2>1. counted' = counted
    BY <1>2, <1>5 DEF LaneAlert
  <2>2. counted[u] <= c + outages /\ counted[u] <= Limit + outages
    BY <1>2, NotificationsAssumption DEF RateInv, LaneLimit
  <2>3. counted' \in [Watcher -> Nat]
    BY <2>1 DEF RateInv
  <2>4. /\ faults' \in Nat /\ outages' \in Nat
        /\ faults' >= faults /\ outages' >= outages
    BY <1>3 DEF RateInv
  <2>5. counted'[u] <= c + outages' /\ counted'[u] <= Limit + outages'
    BY <1>3, <2>1, <2>2
  <2>6. \A v \in Watcher : v # u => counted'[v] = counted[v]
    BY <2>1
  <2> HIDE DEF c, x
  <2> QED BY <1>1, <1>2, <1>4, <2>3, <2>4, <2>5, <2>6, OneCounter, Zenon
<1>6. CASE ~OverLimit(c)
  <2>1. counted' = [counted EXCEPT ![u] = counted[u] + 1]
    BY <1>2, <1>6 DEF LaneAlert, Tell
  <2>2. counted[u] + 1 <= c + outages /\ c <= Limit
    BY <1>2, <1>6, NotificationsAssumption DEF RateInv, OverLimit
  <2>3. /\ counted' \in [Watcher -> Nat] /\ counted'[u] = counted[u] + 1
        /\ \A v \in Watcher : v # u => counted'[v] = counted[v]
    BY <2>1 DEF RateInv
  <2>4. counted'[u] <= c + outages' /\ counted'[u] <= Limit + outages'
    BY <1>2, <1>3, <2>2, <2>3, NotificationsAssumption DEF RateInv
  <2>5. /\ faults' \in Nat /\ outages' \in Nat
        /\ faults' >= faults /\ outages' >= outages
    BY <1>3 DEF RateInv
  <2> HIDE DEF c, x
  <2> QED BY <1>1, <1>2, <1>4, <2>3, <2>4, <2>5, OneCounter, Zenon
<1> QED BY <1>5, <1>6

\* A counter that begins with a failure, or with the end of a worker.
LEMMA CounterStarted ==
    ASSUME RateInv, NEW u \in Watcher, rate[u] = NoCounter,
           rate' = [rate EXCEPT ![u] = Stuck]
    PROVE  rate' = [rate EXCEPT ![u] = [count |-> 1, expires |-> FALSE]]
  BY DEF Stuck

LEMMA LaneAlertUnlimitedLimited ==
    ASSUME RateInv, NEW r \in Request, NEW u \in Watcher, LaneAlertUnlimited(r, u)
    PROVE  RateInv'
<1> USE NotificationsAssumption
<1>1. /\ counted' = [counted EXCEPT ![u] = counted[u] + 1]
      /\ outages' = outages + 1 /\ UNCHANGED faults
  BY DEF LaneAlertUnlimited, Tell, Outage, leadership
<1>2. /\ counted' \in [Watcher -> Nat] /\ counted'[u] = counted[u] + 1
      /\ \A v \in Watcher : v # u => counted'[v] = counted[v]
  BY <1>1 DEF RateInv
<1>3. CASE UNCHANGED rate
  BY <1>1, <1>2, <1>3 DEF RateInv, LaneLimit, CountersExpire
<1>4. CASE rate[u] = NoCounter /\ rate' = [rate EXCEPT ![u] = Stuck]
  <2>1. rate' = [rate EXCEPT ![u] = [count |-> 1, expires |-> FALSE]]
    BY <1>4, CounterStarted
  <2>2. counted'[u] <= 1 + outages' /\ counted'[u] <= Limit + outages'
    <3>1. rate[u].count = 0
      BY <1>4 DEF NoCounter
    <3> QED BY <1>1, <1>2, <3>1 DEF RateInv, LaneLimit
  <2>3. /\ faults' \in Nat /\ outages' \in Nat
        /\ faults' >= faults /\ outages' >= outages
        /\ faults' + outages' > 0
    BY <1>1 DEF RateInv
  <2>4. 1 \in Nat /\ FALSE \in BOOLEAN
    OBVIOUS
  <2> QED BY <1>2, <2>1, <2>2, <2>3, <2>4, OneCounter, Zenon
<1> QED BY <1>3, <1>4 DEF LaneAlertUnlimited

LEMMA CounterExpiresLimited ==
    ASSUME RateInv, NEW u \in Watcher, CounterExpires(u)
    PROVE  RateInv'
  BY NotificationsAssumption
  DEF RateInv, CounterExpires, NoCounter, LaneLimit, CountersExpire, leadership

LEMMA LeadershipLimited ==
    ASSUME RateInv, NEW w \in Worker, LeadershipNext(w)
    PROVE  RateInv'
<1>1. CASE /\ \/ BootPrimary(w) \/ BootStandby(w) \/ Promote(w) \/ PromoteFails(w)
              \/ LoseConnection(w) \/ Stop(w)
           /\ UNCHANGED notices
  BY <1>1, FaultsGrow
  DEF notices, BootPrimary, BootStandby, Promote, PromoteFails, LoseConnection, Stop, Fault
<1>2. CASE Release(w) /\ Vanish(w) /\ UNCHANGED rate
  BY <1>2, FaultsGrow DEF Release, Vanish
<1>3. CASE Crash(w) /\ Vanish(w) /\ UNCHANGED rate
  BY <1>3, FaultsGrow DEF Crash, Fault, Vanish
<1>4. CASE Crash(w) /\ Vanish(w) /\ DiesCounting(w)
  <2>1. UNCHANGED <<counted, outages>> /\ faults' = faults + 1
    BY <1>4 DEF Crash, Fault, Vanish
  <2>2. PICK u \in Watcher : rate[u] = NoCounter /\ rate' = [rate EXCEPT ![u] = Stuck]
    BY <1>4 DEF DiesCounting
  <2>3. rate' = [rate EXCEPT ![u] = [count |-> 1, expires |-> FALSE]]
    BY <2>2, CounterStarted
  <2>4. counted[u] <= 1 + outages' /\ counted[u] <= Limit + outages'
    BY <2>1, NotificationsAssumption, <2>2 DEF RateInv, LaneLimit, NoCounter
  <2>5. /\ faults' \in Nat /\ outages' \in Nat
        /\ faults' >= faults /\ outages' >= outages
        /\ faults' + outages' > 0
    BY <2>1 DEF RateInv
  <2>6. counted' \in [Watcher -> Nat] /\ \A v \in Watcher : counted'[v] = counted[v]
    BY <2>1 DEF RateInv
  <2>7. counted'[u] <= 1 + outages' /\ counted'[u] <= Limit + outages'
    BY <2>4, <2>6
  <2>8. 1 \in Nat /\ FALSE \in BOOLEAN
    OBVIOUS
  <2> QED BY <2>3, <2>5, <2>6, <2>7, <2>8, OneCounter, Zenon
<1> QED BY <1>1, <1>2, <1>3, <1>4 DEF LeadershipNext

LEMMA RateNextStep == RateInv /\ [Next]_vars => RateInv'
<1> SUFFICES ASSUME RateInv, [Next]_vars PROVE RateInv'
  OBVIOUS
<1>1. CASE UNCHANGED vars
  BY <1>1, FaultsGrow DEF vars, notices, leadership
<1>2. CASE Reap /\ UNCHANGED notices
  BY <1>2, FaultsGrow DEF notices, Reap
<1>3. ASSUME NEW w \in Worker, Flush(w) PROVE RateInv'
  BY <1>3, FaultsGrow DEF Flush, leadership
<1>4. ASSUME NEW r \in Request, NEW w \in Worker, NEW p \in New,
             Commits(r, w, p) \/ Fails(r, w, p) \/ Replays(r, w, p)
      PROVE  RateInv'
  BY <1>4, FaultsGrow DEF Commits, Fails, Replays, Dispatch, leadership
<1>5. ASSUME NEW r \in Request, Announce(r) \/ Told(r) \/ Reply(r) \/ Report(r)
      PROVE  RateInv'
  BY <1>5, FaultsGrow DEF Announce, Told, Reply, Report, leadership
<1>6. ASSUME NEW t \in Task, MatchIgnored(t) \/ MatchAlert(t) \/ MatchTold(t)
      PROVE  RateInv'
  BY <1>6, FaultsGrow DEF MatchIgnored, MatchAlert, MatchTold, Outage, leadership
<1>7. CASE Next
  BY <1>2, <1>3, <1>4, <1>5, <1>6, <1>7, LeadershipLimited, LaneAlertLimited,
     LaneAlertUnlimitedLimited, CounterExpiresLimited
  DEF Next, RequestStep
<1> QED BY <1>1, <1>7

LEMMA RateAlways == Spec => []RateInv
  BY RateInit, RateNextStep, PTL DEF Spec

\* A watcher of a lane is told LANE_WATCH_RATE_LIMIT times while the counter
\* lasts, and once more for each call to Redis that failed, by any number of
\* workers and requests at once (_process_lane_watch_notifications).
THEOREM LaneAlwaysLimited == Spec => []LaneLimit
<1>1. RateInv => LaneLimit
  BY DEF RateInv
<1> QED BY <1>1, RateAlways, PTL

\* Only a worker that dies, or a call that fails, between INCR and EXPIRE leaves
\* a counter that mutes its watcher for good.
THEOREM CountersAlwaysExpire == Spec => []CountersExpire
<1>1. RateInv => CountersExpire
  BY DEF RateInv
<1> QED BY <1>1, RateAlways, PTL
-----------------------------------------------------------------------------
(* Whom an alert is about.                                                 *)

Phase == {"new", "announce", "alert", "report", "done"}

\* A request has nothing in hand before its post, and alerts of a post that is
\* committed; who alerts has handlers.  They vanish only with the process.
CommitInv ==
    /\ LeaderInv
    /\ at \in [Request -> Worker \cup {None}] /\ phase \in [Request -> Phase]
    /\ post \in [Request -> New \cup {None}]
    /\ matching \in [Task -> {"none", "spawned", "sending"}]
    /\ DOMAIN todo = Request /\ DOMAIN telling = Request
    /\ \A r \in Request : phase[r] # "new" => at[r] \in Worker
    /\ \A r \in Request : phase[r] = "new" =>
         /\ todo[r] = {} /\ telling[r] = None
         /\ \A t \in Task : t[1] = r => matching[t] = "none"
    /\ \A r \in Request : phase[r] \in {"announce", "alert"} => post[r] \in posts
    /\ \A r \in Request : todo[r] # {} \/ telling[r] # None =>
         phase[r] = "alert" /\ Handlers(at[r])
    /\ \A t \in Task : matching[t] = "sending" =>
         t[2].load \in posts /\ Handlers(at[t[1]])

LEMMA CommitInit == Init => CommitInv
  BY LeaderInit DEF Init, CommitInv, Phase

\* Leadership that takes no handlers away.
LEMMA HandlersStay ==
    ASSUME CommitInv, LeaderInv', UNCHANGED notices,
           \A w \in Worker : Handlers(w) => Handlers(w)'
    PROVE  CommitInv'
  BY DEF CommitInv, notices, Task, Handlers

LEMMA VanishCommitted ==
    ASSUME CommitInv, LeaderInv', NEW w \in Worker, Ends(w), Vanish(w)
    PROVE  CommitInv'
<1> USE DEF CommitInv
<1>1. \A v \in Worker : v # w => registered'[v] = registered[v]
  BY DEF Ends, LeaderInv, LeadershipTypes
<1>2. \A t \in Task : t[1] \in Request
  BY DEF Task
<1>3. /\ at' = at /\ post' = post /\ posts' = posts
      /\ phase' = [r \in Request |-> IF at[r] = w THEN "done" ELSE phase[r]]
      /\ matching' = [t \in Task |-> IF at[t[1]] = w THEN "none" ELSE matching[t]]
      /\ todo' = [r \in Request |-> IF at[r] = w THEN {} ELSE todo[r]]
      /\ telling' = [r \in Request |-> IF at[r] = w THEN None ELSE telling[r]]
  BY <1>2 DEF Vanish
<1>4. phase' \in [Request -> Phase] /\ matching' \in [Task -> {"none", "spawned", "sending"}]
  BY <1>3 DEF Phase
<1>5. ASSUME NEW r \in Request, phase'[r] = "new"
      PROVE  /\ todo'[r] = {} /\ telling'[r] = None
             /\ \A t \in Task : t[1] = r => matching'[t] = "none"
  BY <1>3, <1>5
<1>6. ASSUME NEW r \in Request, phase'[r] \in {"announce", "alert"}
      PROVE  post'[r] \in posts'
  BY <1>3, <1>6
<1>7. ASSUME NEW r \in Request, todo'[r] # {} \/ telling'[r] # None
      PROVE  phase'[r] = "alert" /\ Handlers(at[r])'
  <2>1. at[r] # w /\ (todo[r] # {} \/ telling[r] # None)
    BY <1>3, <1>7
  <2>2. phase[r] = "alert" /\ Handlers(at[r]) /\ at[r] \in Worker
    BY <2>1
  <2> QED BY <1>1, <1>3, <2>1, <2>2 DEF Handlers
<1>8. ASSUME NEW t \in Task, matching'[t] = "sending"
      PROVE  t[2].load \in posts' /\ Handlers(at[t[1]])'
  <2>1. at[t[1]] # w /\ matching[t] = "sending"
    BY <1>3, <1>8
  <2>2. at[t[1]] \in Worker
    BY <1>2, <2>1
  <2> QED BY <1>1, <1>3, <2>1, <2>2 DEF Handlers
<1> QED BY <1>3, <1>4, <1>5, <1>6, <1>7, <1>8

LEMMA LeadershipCommitted ==
    ASSUME CommitInv, LeaderInv', NEW w \in Worker, LeadershipNext(w)
    PROVE  CommitInv'
<1>1. CASE BootPrimary(w) /\ UNCHANGED notices
  <2>1. \A v \in Worker : Handlers(v) => Handlers(v)'
    BY <1>1 DEF CommitInv, LeaderInv, LeadershipTypes, BootPrimary, StartPrimary, Handlers
  <2> QED BY <1>1, <2>1, HandlersStay
<1>2. CASE Promote(w) /\ UNCHANGED notices
  <2>1. \A v \in Worker : Handlers(v) => Handlers(v)'
    BY <1>2 DEF CommitInv, LeaderInv, LeadershipTypes, Promote, StartPrimary, Handlers
  <2> QED BY <1>2, <2>1, HandlersStay
<1>3. CASE (BootStandby(w) \/ PromoteFails(w) \/ LoseConnection(w) \/ Stop(w))
             /\ UNCHANGED notices
  <2>1. registered' = registered
    BY <1>3 DEF BootStandby, PromoteFails, LoseConnection, Stop
  <2> QED BY <1>3, <2>1, HandlersStay DEF Handlers
<1>4. CASE Release(w) /\ Vanish(w)
  BY <1>4, VanishCommitted DEF Release
<1>5. CASE Crash(w) /\ Vanish(w)
  BY <1>5, VanishCommitted DEF Crash
<1> QED BY <1>1, <1>2, <1>3, <1>4, <1>5 DEF LeadershipNext

LEMMA DispatchCommitted ==
    ASSUME CommitInv, LeaderInv', NEW r \in Request, NEW w \in Worker, NEW p \in New,
           NEW committed \in BOOLEAN, NEW next \in {"announce", "done"},
           next = "announce" => committed, Dispatch(r, w, p, committed, next)
    PROVE  CommitInv'
<1> USE DEF CommitInv
<1>1. \A t \in Task : t[1] \in Request
  BY DEF Task
<1>2. /\ matching' \in [Task -> {"none", "spawned", "sending"}]
      /\ \A t \in Task : t[1] # r => matching'[t] = matching[t]
      /\ \A t \in Task : matching'[t] = "sending" => matching[t] = "sending"
  BY DEF Dispatch, Spawn
<1>3. \A t \in Task : t[1] = r => matching'[t] # "sending"
  BY <1>2 DEF Dispatch
<1>4. /\ at' = [at EXCEPT ![r] = w] /\ post' = [post EXCEPT ![r] = p]
      /\ phase' = [phase EXCEPT ![r] = next] /\ phase[r] = "new"
      /\ posts \subseteq posts' /\ (committed => p \in posts')
      /\ UNCHANGED <<registered, todo, telling>>
  BY DEF Dispatch, leadership
<1>5. \A q \in Request : q # r => at'[q] = at[q] /\ post'[q] = post[q] /\ phase'[q] = phase[q]
  BY <1>4
<1>6. at'[r] = w /\ post'[r] = p /\ phase'[r] = next
  BY <1>4
<1>7. /\ at' \in [Request -> Worker \cup {None}] /\ phase' \in [Request -> Phase]
      /\ post' \in [Request -> New \cup {None}]
  BY <1>4 DEF Phase
<1>8. ASSUME NEW q \in Request, phase'[q] = "new"
      PROVE  /\ todo'[q] = {} /\ telling'[q] = None
             /\ \A t \in Task : t[1] = q => matching'[t] = "none"
  BY <1>2, <1>4, <1>5, <1>6, <1>8
<1>9. ASSUME NEW q \in Request, phase'[q] \in {"announce", "alert"}
      PROVE  post'[q] \in posts'
  BY <1>4, <1>5, <1>6, <1>9
<1>10. ASSUME NEW q \in Request, todo'[q] # {} \/ telling'[q] # None
       PROVE  phase'[q] = "alert" /\ Handlers(at[q])'
  BY <1>4, <1>5, <1>10 DEF Handlers
<1>11. ASSUME NEW t \in Task, matching'[t] = "sending"
       PROVE  t[2].load \in posts' /\ Handlers(at[t[1]])'
  BY <1>1, <1>2, <1>3, <1>4, <1>5, <1>11 DEF Handlers
<1> QED BY <1>2, <1>4, <1>7, <1>8, <1>9, <1>10, <1>11

LEMMA RequestCommitted ==
    ASSUME CommitInv, LeaderInv', NEW r \in Request, RequestStep(r)
    PROVE  CommitInv'
<1> USE DEF CommitInv, leadership, Handlers, Phase
<1>1. CASE Announce(r)
  BY <1>1 DEF Announce
<1>2. CASE Told(r)
  BY <1>2 DEF Told
<1>3. CASE Reply(r)
  BY <1>3 DEF Reply
<1>4. CASE Report(r)
  BY <1>4 DEF Report
<1>5. ASSUME NEW u \in Watcher, LaneAlert(r, u) \/ LaneAlertUnlimited(r, u)
      PROVE  CommitInv'
  BY <1>5 DEF LaneAlert, LaneAlertUnlimited, Tell
<1> QED BY <1>1, <1>2, <1>3, <1>4, <1>5 DEF RequestStep

LEMMA TaskCommitted ==
    ASSUME CommitInv, LeaderInv', NEW t \in Task,
           MatchIgnored(t) \/ MatchAlert(t) \/ MatchTold(t)
    PROVE  CommitInv'
<1> USE DEF CommitInv, leadership, Handlers, Moves
<1>1. CASE MatchIgnored(t)
  BY <1>1 DEF MatchIgnored
<1>2. CASE MatchAlert(t)
  <2>1. /\ matching' = [matching EXCEPT ![t] = "sending"] /\ matching[t] = "spawned"
        /\ t[2].load \in posts /\ registered[at[t[1]]] > 0
        /\ UNCHANGED <<registered, posts, at, post, phase, todo, telling>>
    BY <1>2 DEF MatchAlert, Looks, Known
  <2>2. t[1] \in Request
    BY DEF Task
  <2>3. at[t[1]] \in Worker /\ phase[t[1]] # "new"
    BY <2>1, <2>2 DEF LeaderInv, LeadershipTypes
  <2>4. \A x \in Task : x # t => matching'[x] = matching[x]
    BY <2>1
  <2> QED BY <2>1, <2>2, <2>3, <2>4
<1>3. CASE MatchTold(t)
  BY <1>3 DEF MatchTold
<1> QED BY <1>1, <1>2, <1>3

LEMMA CommitNext == CommitInv /\ [Next]_vars => CommitInv'
<1> SUFFICES ASSUME CommitInv, [Next]_vars PROVE CommitInv'
  OBVIOUS
<1>1. LeaderInv'
  BY LeaderNext DEF CommitInv
<1>2. CASE UNCHANGED vars
  BY <1>1, <1>2, HandlersStay DEF vars, leadership, Handlers
<1>3. CASE Reap /\ UNCHANGED notices
  BY <1>1, <1>3, HandlersStay DEF Reap, Handlers
<1>4. ASSUME NEW w \in Worker, Flush(w) PROVE CommitInv'
  BY <1>1, <1>4 DEF Flush, leadership, CommitInv, Handlers
<1>5. ASSUME NEW r \in Request, NEW w \in Worker, NEW p \in New,
             Commits(r, w, p) \/ Fails(r, w, p) \/ Replays(r, w, p)
      PROVE  CommitInv'
  BY <1>1, <1>5, DispatchCommitted DEF Commits, Fails, Replays
<1>6. ASSUME NEW u \in Watcher, CounterExpires(u) PROVE CommitInv'
  BY <1>1, <1>6 DEF CounterExpires, leadership, CommitInv, Handlers
<1>7. CASE Next
  BY <1>1, <1>3, <1>4, <1>5, <1>6, <1>7, LeadershipCommitted, RequestCommitted, TaskCommitted
  DEF Next
<1> QED BY <1>2, <1>7

LEMMA CommitAlways == Spec => []CommitInv
  BY CommitInit, CommitNext, PTL DEF Spec

\* Tasks start before the transaction that found their match commits and run
\* although it is rolled back; still nobody is told of a load that is not in the
\* database, nor by a worker that never led (handle_match_found,
\* handle_load_created).
THEOREM AlertsOnlyCommitted == Spec => []OnlyCommitted
<1>1. CommitInv => OnlyCommitted
  BY DEF CommitInv, OnlyCommitted
<1> QED BY <1>1, CommitAlways, PTL
-----------------------------------------------------------------------------
(* How often.                                                              *)

\* An alert that was begun once is being sent, or has left its key, or is in
\* doubt; one begun twice is in doubt.
OnceInv ==
    /\ begun \in [Alert -> Nat]
    /\ \A a \in Alert : begun[a] > 0 =>
         \/ a \in doubtful \cup sent_key
         \/ \E t \in Task : t[2] = a /\ matching[t] = "sending"
    /\ MatchAlertOnce

LEMMA OnceInit == Init => OnceInv
  BY DEF Init, OnceInv, MatchAlertOnce

\* A step that begins no alert, and lets go of one only with its key or in doubt.
LEMMA NoneBegun ==
    ASSUME OnceInv, begun' = begun, doubtful \subseteq doubtful',
           sent_key \subseteq sent_key',
           \A t \in Task : matching[t] = "sending" =>
             matching'[t] = "sending" \/ t[2] \in doubtful' \cup sent_key'
    PROVE  OnceInv'
  BY DEF OnceInv, MatchAlertOnce

LEMMA DispatchOnce ==
    ASSUME CommitInv, OnceInv, NEW r \in Request, NEW w \in Worker, NEW p \in New,
           Commits(r, w, p) \/ Fails(r, w, p) \/ Replays(r, w, p)
    PROVE  OnceInv'
<1>1. /\ Spawn(r, p) /\ phase[r] = "new"
      /\ UNCHANGED <<begun, doubtful, sent_key>>
  BY DEF Commits, Fails, Replays, Dispatch
<1>2. \A t \in Task : matching[t] = "sending" => t[1] # r
  BY <1>1 DEF CommitInv
<1>3. \A t \in Task : matching[t] = "sending" => matching'[t] = "sending"
  BY <1>1, <1>2 DEF Spawn
<1> QED BY <1>1, <1>3, NoneBegun

LEMMA VanishOnce ==
    ASSUME OnceInv, NEW w \in Worker, Vanish(w)
    PROVE  OnceInv'
<1>1. ASSUME NEW t \in Task, matching[t] = "sending"
      PROVE  matching'[t] = "sending" \/ t[2] \in doubtful'
  BY <1>1 DEF Vanish
<1> QED BY <1>1, NoneBegun DEF Vanish

LEMMA MatchAlertPreserves ==
    ASSUME CommitInv, OnceInv, NEW t \in Task, MatchAlert(t)
    PROVE  OnceInv'
<1> DEFINE a == t[2]
<1>1. a \in Alert
  BY DEF Task
<1>2. /\ begun' = [begun EXCEPT ![a] = begun[a] + 1]
      /\ matching' = [matching EXCEPT ![t] = "sending"] /\ matching[t] = "spawned"
      /\ UNCHANGED sent_key /\ doubtful \subseteq doubtful'
  BY DEF MatchAlert, Moves, Looks
<1>3. \/ a \in doubtful'
      \/ a \notin sent_key /\ ~\E x \in Task : x[2] = a /\ matching[x] = "sending"
  BY DEF MatchAlert, Suppressed, KeyOf
<1>4. \A b \in Alert : b # a => begun'[b] = begun[b]
  BY <1>2 DEF OnceInv
<1>5. begun'[a] = begun[a] + 1 /\ begun[a] \in Nat /\ begun' \in [Alert -> Nat]
  BY <1>1, <1>2 DEF OnceInv
<1>6. matching'[t] = "sending" /\ \A x \in Task : x # t => matching'[x] = matching[x]
  BY <1>2 DEF CommitInv
<1>7. begun[a] > 0 => a \in doubtful'
  BY <1>1, <1>2, <1>3 DEF OnceInv
<1>8. MatchAlertOnce'
  <2> SUFFICES ASSUME NEW b \in Alert, begun'[b] > 1 PROVE b \in doubtful'
    BY DEF MatchAlertOnce
  <2>1. CASE b = a
    BY <1>5, <1>7, <2>1
  <2>2. CASE b # a
    BY <1>2, <1>4, <2>2 DEF OnceInv, MatchAlertOnce
  <2> QED BY <2>1, <2>2
<1>9. ASSUME NEW b \in Alert, begun'[b] > 0
      PROVE  \/ b \in doubtful' \cup sent_key'
             \/ \E x \in Task : x[2] = b /\ matching'[x] = "sending"
  <2>1. CASE b = a
    BY <1>6, <2>1
  <2>2. CASE b # a
    <3>1. \/ b \in doubtful \cup sent_key
          \/ \E x \in Task : x[2] = b /\ matching[x] = "sending"
      BY <1>4, <1>9, <2>2 DEF OnceInv
    <3> QED BY <1>2, <1>6, <2>2, <3>1
  <2> QED BY <2>1, <2>2
<1> QED BY <1>5, <1>8, <1>9 DEF OnceInv

LEMMA MatchToldOnce ==
    ASSUME CommitInv, OnceInv, NEW t \in Task, MatchTold(t)
    PROVE  OnceInv'
<1>1. /\ matching' = [matching EXCEPT ![t] = "none"] /\ UNCHANGED begun
      /\ t[2] \in doubtful' \cup sent_key'
      /\ doubtful \subseteq doubtful' /\ sent_key \subseteq sent_key'
  BY DEF MatchTold, Moves, KeyOf
<1>2. \A x \in Task : x # t => matching'[x] = matching[x]
  BY <1>1 DEF CommitInv
<1>3. ASSUME NEW x \in Task, matching[x] = "sending"
      PROVE  matching'[x] = "sending" \/ x[2] \in doubtful' \cup sent_key'
  BY <1>1, <1>2, <1>3
<1> QED BY <1>1, <1>3, NoneBegun

LEMMA OnceNext == CommitInv /\ OnceInv /\ [Next]_vars => OnceInv'
<1> SUFFICES ASSUME CommitInv, OnceInv, [Next]_vars PROVE OnceInv'
  OBVIOUS
<1>1. CASE UNCHANGED vars
  BY <1>1, NoneBegun DEF vars, notices
<1>2. CASE Reap /\ UNCHANGED notices
  BY <1>2, NoneBegun DEF notices
<1>3. ASSUME NEW w \in Worker, LeadershipNext(w) PROVE OnceInv'
  BY <1>3, NoneBegun, VanishOnce DEF LeadershipNext, notices
<1>4. ASSUME NEW w \in Worker, Flush(w) PROVE OnceInv'
  BY <1>4, NoneBegun DEF Flush
<1>5. ASSUME NEW r \in Request, RequestStep(r) PROVE OnceInv'
  BY <1>5, NoneBegun DEF RequestStep, Announce, Told, Reply, Report, LaneAlert,
                         LaneAlertUnlimited
<1>6. ASSUME NEW t \in Task, MatchIgnored(t) PROVE OnceInv'
  <2>1. \A x \in Task : matching[x] = "sending" => matching'[x] = "sending"
    BY <1>6 DEF MatchIgnored, Looks, Moves, CommitInv
  <2> QED BY <1>6, <2>1, NoneBegun DEF MatchIgnored
<1>7. ASSUME NEW u \in Watcher, CounterExpires(u) PROVE OnceInv'
  BY <1>7, NoneBegun DEF CounterExpires
<1>8. CASE Next
  BY <1>2, <1>3, <1>4, <1>5, <1>6, <1>7, <1>8, DispatchOnce, MatchAlertPreserves,
     MatchToldOnce
  DEF Next
<1> QED BY <1>1, <1>8

\* A match alert goes out twice only when two tasks had it in hand at once, or a
\* worker died, or Redis failed, before its key was written (handle_match_found).
THEOREM MatchAlertedOnce == Spec => []MatchAlertOnce
<1>1. OnceInv => MatchAlertOnce
  BY DEF OnceInv
<1> QED BY <1>1, OnceInit, OnceNext, CommitAlways, PTL DEF Spec
-----------------------------------------------------------------------------
(* Types.                                                                  *)

\* What TypeOK says beyond the invariants above: who is to be told watches the
\* lane, a queue holds at most Capacity, a counter that expires has counted.
NoticeTypes ==
    /\ posts \subseteq Post /\ sent_key \subseteq Alert /\ doubtful \subseteq Alert
    /\ queue \in [Worker -> 0..Capacity]
    /\ \A r \in Request : phase[r] = "new" => at[r] = None
    /\ todo \in [Request -> SUBSET Watcher]
    /\ telling \in [Request -> Watcher \cup {None}]
    /\ \A u \in Watcher : rate[u].count = 0 => ~rate[u].expires
    /\ outages \in 0..MaxOutages

LEMMA NoticeTypesInit == Init => NoticeTypes
  BY NotificationsAssumption DEF Init, NoticeTypes, NoCounter

LEMMA OutageTyped ==
    ASSUME outages \in 0..MaxOutages, Outage
    PROVE  outages' \in 0..MaxOutages
  BY NotificationsAssumption DEF Outage

LEMMA EnqueueTyped ==
    ASSUME queue \in [Worker -> 0..Capacity], NEW w \in Worker, Enqueue(w)
    PROVE  queue' \in [Worker -> 0..Capacity]
  BY NotificationsAssumption DEF Enqueue

LEMMA LeadershipNoticeTypes ==
    ASSUME CommitInv, RateInv, NoticeTypes, NEW w \in Worker, LeadershipNext(w)
    PROVE  NoticeTypes'
<1>1. CASE UNCHANGED notices
  BY <1>1 DEF NoticeTypes, notices
<1>2. CASE Vanish(w) /\ (DiesCounting(w) \/ UNCHANGED rate)
  <2> USE DEF NoticeTypes
  <2>1. doubtful' \subseteq Alert
    <3>1. \A t \in Task : t[2] \in Alert
      BY DEF Task
    <3> QED BY <1>2, <3>1 DEF Vanish
  <2>2. queue' \in [Worker -> 0..Capacity]
    BY <1>2, NotificationsAssumption DEF Vanish
  <2>3. /\ UNCHANGED <<posts, at, sent_key, outages>>
        /\ \A r \in Request : phase'[r] \in {phase[r], "done"}
        /\ todo' \in [Request -> SUBSET Watcher]
        /\ telling' \in [Request -> Watcher \cup {None}]
    BY <1>2 DEF Vanish
  <2>4. \A u \in Watcher : rate'[u].count = 0 => ~rate'[u].expires
    <3>1. CASE DiesCounting(w)
      <4>1. PICK u \in Watcher : rate' = [rate EXCEPT ![u] = Stuck]
        BY <3>1 DEF DiesCounting
      <4> QED BY <4>1 DEF Stuck, RateInv
    <3> QED BY <1>2, <3>1
  <2> QED BY <2>1, <2>2, <2>3, <2>4
<1> QED BY <1>1, <1>2 DEF LeadershipNext

LEMMA DispatchNoticeTypes ==
    ASSUME CommitInv, NoticeTypes, NEW r \in Request, NEW w \in Worker, NEW p \in New,
           NEW committed, NEW next \in {"announce", "done"},
           Dispatch(r, w, p, committed, next)
    PROVE  NoticeTypes'
<1>1. /\ UNCHANGED <<queue, todo, telling, sent_key, rate, outages, doubtful>>
      /\ at' = [at EXCEPT ![r] = w] /\ phase' = [phase EXCEPT ![r] = next]
      /\ posts' \subseteq posts \cup {p}
  BY DEF Dispatch
<1>2. p \in Post
  BY NotificationsAssumption
<1>3. \A q \in Request : phase'[q] = "new" => q # r /\ phase[q] = "new" /\ at'[q] = at[q]
  BY <1>1 DEF CommitInv
<1> QED BY <1>1, <1>2, <1>3 DEF NoticeTypes

LEMMA RequestNoticeTypes ==
    ASSUME CommitInv, RateInv, NoticeTypes, NEW r \in Request, RequestStep(r)
    PROVE  NoticeTypes'
<1> USE DEF NoticeTypes
<1>1. ASSUME phase[r] # "new" PROVE at[r] \in Worker
  BY <1>1 DEF CommitInv
<1>2. ASSUME NEW next \in Phase \ {"new"}, phase' = [phase EXCEPT ![r] = next]
      PROVE  \A q \in Request : phase'[q] = "new" => phase[q] = "new"
  BY <1>2 DEF CommitInv, Phase
<1>3. CASE Announce(r)
  <2>1. queue' \in [Worker -> 0..Capacity]
    BY <1>1, <1>3, EnqueueTyped DEF Announce
  <2>2. \A q \in Request : phase'[q] = "new" => phase[q] = "new"
    BY <1>2, <1>3 DEF Announce, Phase
  <2>3. todo' \in [Request -> SUBSET Watcher]
    BY <1>3 DEF Announce
  <2> QED BY <1>3, <2>1, <2>2, <2>3 DEF Announce
<1>4. CASE Told(r)
  BY <1>4 DEF Told
<1>5. CASE Reply(r)
  <2>1. \A q \in Request : phase'[q] = "new" => phase[q] = "new"
    BY <1>2, <1>5 DEF Reply, Phase
  <2> QED BY <1>5, <2>1 DEF Reply
<1>6. CASE Report(r)
  <2>1. queue' \in [Worker -> 0..Capacity]
    BY <1>1, <1>6, EnqueueTyped DEF Report
  <2>2. \A q \in Request : phase'[q] = "new" => phase[q] = "new"
    BY <1>2, <1>6 DEF Report, Phase
  <2> QED BY <1>6, <2>1, <2>2 DEF Report
<1>7. ASSUME NEW u \in Watcher, todo' = [todo EXCEPT ![r] = todo[r] \ {u}],
             telling' = telling \/ telling' = [telling EXCEPT ![r] = u]
      PROVE  /\ todo' \in [Request -> SUBSET Watcher]
             /\ telling' \in [Request -> Watcher \cup {None}]
  BY <1>7
<1>8. ASSUME NEW u \in Watcher, LaneAlert(r, u) PROVE NoticeTypes'
  <2>1. todo' = [todo EXCEPT ![r] = todo[r] \ {u}]
    BY <1>8 DEF LaneAlert
  <2>2. telling' = telling \/ telling' = [telling EXCEPT ![r] = u]
    BY <1>8 DEF LaneAlert, Tell
  <2>3. /\ todo' \in [Request -> SUBSET Watcher]
        /\ telling' \in [Request -> Watcher \cup {None}]
    BY <1>7, <2>1, <2>2
  <2>4. \A v \in Watcher : rate'[v].count = 0 => ~rate'[v].expires
    BY <1>8 DEF LaneAlert, Counted, RateInv
  <2> QED BY <1>8, <2>3, <2>4 DEF LaneAlert
<1>9. ASSUME NEW u \in Watcher, LaneAlertUnlimited(r, u) PROVE NoticeTypes'
  <2>1. /\ todo' \in [Request -> SUBSET Watcher]
        /\ telling' \in [Request -> Watcher \cup {None}]
    BY <1>7, <1>9 DEF LaneAlertUnlimited, Tell
  <2>2. \A v \in Watcher : rate'[v].count = 0 => ~rate'[v].expires
    <3> TAKE v \in Watcher
    <3>1. CASE rate' = rate
      BY <3>1
    <3>2. CASE rate' = [rate EXCEPT ![u] = Stuck]
      BY <3>2 DEF Stuck, RateInv
    <3> QED BY <1>9, <3>1, <3>2 DEF LaneAlertUnlimited
  <2>3. outages' \in 0..MaxOutages
    BY <1>9, OutageTyped DEF LaneAlertUnlimited
  <2> QED BY <1>9, <2>1, <2>2, <2>3 DEF LaneAlertUnlimited
<1> QED BY <1>3, <1>4, <1>5, <1>6, <1>8, <1>9 DEF RequestStep

LEMMA TaskNoticeTypes ==
    ASSUME CommitInv, NoticeTypes, NEW t \in Task,
           MatchIgnored(t) \/ MatchAlert(t) \/ MatchTold(t)
    PROVE  NoticeTypes'
<1> USE DEF NoticeTypes
<1>1. t[1] \in Request /\ t[2] \in Alert
  BY DEF Task
<1>2. ASSUME Looks(t) PROVE queue' \in [Worker -> 0..Capacity]
  <2>1. at[t[1]] \in Worker
    BY <1>1, <1>2 DEF Looks, CommitInv
  <2> QED BY <1>2, <2>1, EnqueueTyped DEF Looks
<1>3. CASE MatchIgnored(t)
  BY <1>2, <1>3 DEF MatchIgnored
<1>4. CASE MatchAlert(t)
  <2>1. doubtful' \subseteq Alert /\ outages' \in 0..MaxOutages
    BY <1>1, <1>4, OutageTyped DEF MatchAlert
  <2> QED BY <1>2, <1>4, <2>1 DEF MatchAlert
<1>5. CASE MatchTold(t)
  <2>1. /\ doubtful' \subseteq Alert /\ sent_key' \subseteq Alert
        /\ outages' \in 0..MaxOutages
    BY <1>1, <1>5, OutageTyped DEF MatchTold, KeyOf
  <2> QED BY <1>5, <2>1 DEF MatchTold
<1> QED BY <1>3, <1>4, <1>5

LEMMA NoticeTypesNext ==
    CommitInv /\ RateInv /\ NoticeTypes /\ [Next]_vars => NoticeTypes'
<1> SUFFICES ASSUME CommitInv, RateInv, NoticeTypes, [Next]_vars PROVE NoticeTypes'
  OBVIOUS
<1>1. CASE UNCHANGED notices
  BY <1>1 DEF NoticeTypes, notices
<1>2. ASSUME NEW w \in Worker, Flush(w) PROVE NoticeTypes'
  <2>1. queue' \in [Worker -> 0..Capacity]
    BY <1>2, NotificationsAssumption DEF Flush, NoticeTypes
  <2> QED BY <1>2, <2>1 DEF Flush, NoticeTypes
<1>3. ASSUME NEW r \in Request, NEW w \in Worker, NEW p \in New,
             Commits(r, w, p) \/ Fails(r, w, p) \/ Replays(r, w, p)
      PROVE  NoticeTypes'
  BY <1>3, DispatchNoticeTypes DEF Commits, Fails, Replays
<1>4. ASSUME NEW u \in Watcher, CounterExpires(u) PROVE NoticeTypes'
  BY <1>4 DEF CounterExpires, NoticeTypes, NoCounter
<1>5. CASE Next
  BY <1>1, <1>2, <1>3, <1>4, <1>5, LeadershipNoticeTypes, RequestNoticeTypes,
     TaskNoticeTypes
  DEF Next
<1> QED BY <1>1, <1>5 DEF vars

LEMMA NoticeTypesAlways == Spec => []NoticeTypes
<1>1. Init => NoticeTypes
  BY NoticeTypesInit
<1> QED BY <1>1, NoticeTypesNext, CommitAlways, RateAlways, PTL DEF Spec

\* Whatever workers, requests and outages do together: no queue is ever longer
\* than its limit, a request has a worker from its first step on, only watchers
\* of the lane are told, and every key and counter in Redis is one the handlers
\* write (emit, handle_load_created, handle_match_found).
THEOREM NotificationTypes == Spec => []TypeOK
<1>1. CommitInv /\ NoticeTypes => TypeOK
  <2> SUFFICES ASSUME CommitInv, NoticeTypes PROVE TypeOK
    OBVIOUS
  <2>1. \A r \in Request : (phase[r] = "new") = (at[r] = None)
    BY NotificationsAssumption DEF CommitInv, NoticeTypes
  <2>2. post \in [Request -> Post \cup {None}]
    BY NotificationsAssumption DEF CommitInv
  <2>3. /\ LeadershipTypes
        /\ at \in [Request -> Worker \cup {None}] /\ phase \in [Request -> Phase]
        /\ matching \in [Task -> {"none", "spawned", "sending"}]
    BY DEF CommitInv, LeaderInv
  <2>4. /\ posts \subseteq Post /\ sent_key \subseteq Alert /\ doubtful \subseteq Alert
        /\ queue \in [Worker -> 0..Capacity] /\ outages \in 0..MaxOutages
        /\ todo \in [Request -> SUBSET Watcher]
        /\ telling \in [Request -> Watcher \cup {None}]
        /\ \A u \in Watcher : rate[u].count = 0 => ~rate[u].expires
    BY DEF NoticeTypes
  <2> QED BY <2>1, <2>2, <2>3, <2>4, Zenon DEF TypeOK, Phase
<1> QED BY <1>1, CommitAlways, NoticeTypesAlways, PTL
=============================================================================
