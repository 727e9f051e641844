--------------------------- MODULE Notifications ----------------------------
(***************************************************************************)
(* Telemetry and alerts.  A request that posts a load or a truck starts a  *)
(* task for every match it finds, commits, announces the post, answers the *)
(* sender and reports itself.  Every announcement first goes into the      *)
(* worker's telemetry queue, and waits when that is full; then it runs the *)
(* handlers of the worker, and only a worker that has led has any.  A      *)
(* worker runs one thing at a time and switches only where one waits, so   *)
(* that an action is what runs between two waits.                          *)
(*                                                                         *)
(* What limits alerts is kept in Redis, shared by all workers: a key for   *)
(* every match alert that has gone out, which lasts longer than the model, *)
(* and a counter for every watcher of the lane.  When a call fails the     *)
(* alert is sent.                                                          *)
(***************************************************************************)
EXTENDS Leadership

CONSTANTS
    Request,
    Post, New,     \* loads and trucks, of one lane; those the requests post
    Found,         \* what a post may find: pairs of posts and whom to tell
    Watcher,       \* who has subscribed to the lane
    Limit,         \* LANE_WATCH_RATE_LIMIT, 3 in the code
    Capacity,      \* of the telemetry queue, 100 in the code
    Before,        \* the posts there are already
    MaxOutages,    \* bound: calls to Redis that fail
    None

ASSUME NotificationsAssumption ==
    /\ \A p \in Post : \A a \in Found[p] : a.load \in Post /\ a.listing \in Post
    /\ Before \subseteq Post /\ New \subseteq Post
    /\ Capacity \in Nat \ {0} /\ Limit \in Nat /\ MaxOutages \in Nat
    /\ None \notin Worker

VARIABLES
    posts,       \* loads and trucks committed
    queue,       \* telemetry events waiting in each worker
    at, post,    \* of each request: its worker, and what it posts
    phase,       \* where a request is
    matching,    \* tasks for matches: of each request and alert, where it is
    todo,        \* the watchers a request has still to alert
    telling,     \* and the one it is alerting
    sent_key,    \* match_notify: alerts that are not to be sent again
    rate,        \* notification_rate: a counter for each watcher
    outages,     \* calls to Redis that failed, so far
    counted,     \* history: lane alerts begun since the counter began
    begun,       \* history: times a match alert was begun
    doubtful     \* history: alerts whose key was read or written too late, or not

notices == <<posts, queue, at, post, phase, matching, todo, telling, sent_key, rate,
             outages, counted, begun, doubtful>>
vars == <<leadership, notices>>

Alert == UNION {Found[p] : p \in Post}
Task == Request \X Alert
NoCounter == [count |-> 0, expires |-> FALSE]
Stuck == [count |-> 1, expires |-> FALSE]     \* INCR without EXPIRE

Init ==
    /\ LeadershipInit
    /\ posts = Before
    /\ queue = [w \in Worker |-> 0]
    /\ at = [r \in Request |-> None] /\ post = [r \in Request |-> None]
    /\ phase = [r \in Request |-> "new"]
    /\ matching = [t \in Task |-> "none"]
    /\ todo = [r \in Request |-> {}] /\ telling = [r \in Request |-> None]
    /\ sent_key = {} /\ outages = 0
    /\ rate = [u \in Watcher |-> NoCounter]
    /\ counted = [u \in Watcher |-> 0]
    /\ begun = [a \in Alert |-> 0]
    /\ doubtful = {}

-----------------------------------------------------------------------------
(* Requests.                                                               *)

\* For matches above MATCH_THRESHOLD with posts that are committed; the tasks
\* run when the request first waits.
Spawn(r, p) ==
    \E new \in SUBSET {a \in Found[p] : {a.load, a.listing} \ {p} \subseteq posts} :
        matching' = [t \in Task |-> IF t[1] = r /\ t[2] \in new THEN "spawned"
                                    ELSE matching[t]]

\* The search and the end of the transaction: nothing between them waits.
Dispatch(r, w, p, committed, next) ==
    /\ phase[r] = "new" /\ life[w] = "up"
    /\ at' = [at EXCEPT ![r] = w]
    /\ post' = [post EXCEPT ![r] = p]
    /\ Spawn(r, p)
    /\ posts' = IF committed THEN posts \cup {p} ELSE posts
    /\ phase' = [phase EXCEPT ![r] = next]
    /\ UNCHANGED <<leadership, queue, todo, telling, sent_key, rate, outages, counted,
                   begun, doubtful>>

Commits(r, w, p) == Dispatch(r, w, p, TRUE, "announce")
\* The rollback comes too late for the tasks; the sender gets the fallback.
Fails(r, w, p) == Dispatch(r, w, p, FALSE, "done")
\* The daemon executes a row of the ledger; it announces nothing.
Replays(r, w, p) == w \in daemon /\ Dispatch(r, w, p, TRUE, "done")

Handlers(w) == registered[w] > 0

Enqueue(w) ==
    /\ queue[w] < Capacity
    /\ queue' = [queue EXCEPT ![w] = @ + 1]

\* LOAD_CREATED or TRUCK_POSTED; the request waits for the handlers.
Announce(r) ==
    /\ phase[r] = "announce" /\ Enqueue(at[r])
    /\ todo' = [todo EXCEPT ![r] = IF Handlers(at[r]) THEN Watcher ELSE {}]
    /\ phase' = [phase EXCEPT ![r] = "alert"]
    /\ UNCHANGED <<leadership, posts, at, post, matching, telling, sent_key, rate,
                   outages, counted, begun, doubtful>>

\* Mutant: one alert more than the limit.
OverLimitMore(n) == n > Limit + 1

OverLimit(n) == n > Limit

\* Mutant: the counter is to expire once it is over the limit.
CountedLate(c) == [count |-> c.count + 1, expires |-> c.expires \/ OverLimit(c.count + 1)]

\* INCR, and EXPIRE when the counter is new
Counted(c) == [count |-> c.count + 1, expires |-> c.expires \/ c.count = 0]

Tell(r, u) ==
    /\ telling' = [telling EXCEPT ![r] = u]
    /\ counted' = [counted EXCEPT ![u] = @ + 1]

\* The next subscription, up to the send.
LaneAlert(r, u) ==
    /\ phase[r] = "alert" /\ telling[r] = None /\ u \in todo[r]
    /\ todo' = [todo EXCEPT ![r] = @ \ {u}]
    /\ rate' = [rate EXCEPT ![u] = Counted(@)]
    /\ IF OverLimit(rate'[u].count) THEN UNCHANGED <<telling, counted>> ELSE Tell(r, u)
    /\ UNCHANGED <<leadership, posts, queue, at, post, phase, matching, sent_key,
                   outages, begun, doubtful>>

Outage == outages < MaxOutages /\ outages' = outages + 1

\* INCR or EXPIRE fails, and the alert is sent whatever the count.
LaneAlertUnlimited(r, u) ==
    /\ phase[r] = "alert" /\ telling[r] = None /\ u \in todo[r] /\ Outage
    /\ todo' = [todo EXCEPT ![r] = @ \ {u}]
    /\ Tell(r, u)
    /\ \/ UNCHANGED rate
       \/ rate[u] = NoCounter /\ rate' = [rate EXCEPT ![u] = Stuck]
    /\ UNCHANGED <<leadership, posts, queue, at, post, phase, matching, sent_key,
                   begun, doubtful>>

\* Delivered or given up after the retries.
Told(r) ==
    /\ telling[r] # None
    /\ telling' = [telling EXCEPT ![r] = None]
    /\ UNCHANGED <<leadership, posts, queue, at, post, phase, matching, todo, sent_key,
                   rate, outages, counted, begun, doubtful>>

\* The answer is sent once every watcher has been told.
Reply(r) ==
    /\ phase[r] = "alert" /\ todo[r] = {} /\ telling[r] = None
    /\ phase' = [phase EXCEPT ![r] = "report"]
    /\ UNCHANGED <<leadership, posts, queue, at, post, matching, todo, telling, sent_key,
                   rate, outages, counted, begun, doubtful>>

Report(r) ==
    /\ phase[r] = "report" /\ Enqueue(at[r])
    /\ phase' = [phase EXCEPT ![r] = "done"]
    /\ UNCHANGED <<leadership, posts, at, post, matching, todo, telling, sent_key, rate,
                   outages, counted, begun, doubtful>>

-----------------------------------------------------------------------------
(* Tasks: MATCH_FOUND, and the worker that drains the queue.               *)

\* Mutant: the key names the request, which a repeated post does not share.
KeyOfRequest(t) == [t[2] EXCEPT !.user = t[1]]

KeyOf(t) == t[2]
Suppressed(t) == KeyOf(t) \in sent_key

Looks(t) == matching[t] = "spawned" /\ Enqueue(at[t[1]])
Moves(t, to) == matching' = [matching EXCEPT ![t] = to]

\* Mutant: the load is not looked up.
KnownAny(a) == TRUE

\* The listing is not looked up.
Known(a) == a.load \in posts

\* No handlers, no such load, or told before.
MatchIgnored(t) ==
    /\ Looks(t) /\ (~Handlers(at[t[1]]) \/ ~Known(t[2]) \/ Suppressed(t))
    /\ Moves(t, "none")
    /\ UNCHANGED <<leadership, posts, at, post, phase, todo, telling, sent_key, rate,
                   outages, counted, begun, doubtful>>

\* The key is written only after the send: a task that looks meanwhile sends too.
MatchAlert(t) ==
    /\ Looks(t) /\ Handlers(at[t[1]]) /\ Known(t[2])
    /\ Moves(t, "sending")
    /\ begun' = [begun EXCEPT ![t[2]] = @ + 1]
    /\ \/ /\ ~Suppressed(t) /\ UNCHANGED outages
          /\ doubtful' = IF \E x \in Task : x[2] = t[2] /\ matching[x] = "sending"
                         THEN doubtful \cup {t[2]} ELSE doubtful
       \/ Outage /\ doubtful' = doubtful \cup {t[2]}          \* the look fails
    /\ UNCHANGED <<leadership, posts, at, post, phase, todo, telling, sent_key, rate,
                   counted>>

\* Whether it was delivered or not: every result of send_with_backoff is true.
MatchTold(t) ==
    /\ matching[t] = "sending" /\ Moves(t, "none")
    /\ \/ sent_key' = sent_key \cup {KeyOf(t)} /\ UNCHANGED <<outages, doubtful>>
       \/ Outage /\ doubtful' = doubtful \cup {t[2]} /\ UNCHANGED sent_key
    /\ UNCHANGED <<leadership, posts, queue, at, post, phase, todo, telling, rate,
                   counted, begun>>

\* Mutant: only the primary drains its queue.
FlushPrimary(w) ==
    /\ life[w] = "up" /\ w \in daemon /\ queue[w] > 0
    /\ queue' = [queue EXCEPT ![w] = @ - 1]
    /\ UNCHANGED <<leadership, posts, at, post, phase, matching, todo, telling, sent_key,
                   rate, outages, counted, begun, doubtful>>

\* An event that cannot be written is dropped; the loop goes on.
Flush(w) ==
    /\ life[w] = "up" /\ queue[w] > 0
    /\ queue' = [queue EXCEPT ![w] = @ - 1]
    /\ UNCHANGED <<leadership, posts, at, post, phase, matching, todo, telling, sent_key,
                   rate, outages, counted, begun, doubtful>>

CounterExpires(u) ==
    /\ rate[u].expires
    /\ rate' = [rate EXCEPT ![u] = NoCounter]
    /\ counted' = [counted EXCEPT ![u] = 0]
    /\ UNCHANGED <<leadership, posts, queue, at, post, phase, matching, todo, telling,
                   sent_key, outages, begun, doubtful>>

-----------------------------------------------------------------------------
(* The end of a process.                                                   *)

InFlight(r) == phase[r] \notin {"new", "done"}

\* Between INCR and EXPIRE: the counter never expires.
DiesCounting(w) == \E r \in Request, u \in Watcher :
    /\ at[r] = w /\ phase[r] = "alert" /\ telling[r] = None /\ u \in todo[r]
    /\ rate[u] = NoCounter /\ rate' = [rate EXCEPT ![u] = Stuck]

\* Requests and tasks end with their process.  What a request had committed is
\* answered by the daemon, and announced by nobody.
Vanish(w) ==
    LET mine == {r \in Request : at[r] = w}
        cut == {t \in Task : t[1] \in mine /\ matching[t] = "sending"}
    IN  /\ queue' = [queue EXCEPT ![w] = 0]
        /\ phase' = [r \in Request |-> IF r \in mine THEN "done" ELSE phase[r]]
        /\ matching' = [t \in Task |-> IF t[1] \in mine THEN "none" ELSE matching[t]]
        /\ todo' = [r \in Request |-> IF r \in mine THEN {} ELSE todo[r]]
        /\ telling' = [r \in Request |-> IF r \in mine THEN None ELSE telling[r]]
        /\ doubtful' = doubtful \cup {t[2] : t \in cut}
        /\ UNCHANGED <<posts, at, post, sent_key, outages, counted, begun>>

LeadershipNext(w) ==
    \/ /\ \/ BootPrimary(w) \/ BootStandby(w) \/ Promote(w) \/ PromoteFails(w)
          \/ LoseConnection(w)
          \/ Stop(w) /\ \A r \in Request : at[r] = w => ~InFlight(r)
       /\ UNCHANGED notices
    \/ Release(w) /\ Vanish(w) /\ UNCHANGED rate
    \/ Crash(w) /\ Vanish(w) /\ (DiesCounting(w) \/ UNCHANGED rate)

RequestStep(r) ==
    \/ Announce(r) \/ Told(r) \/ Reply(r) \/ Report(r)
    \/ \E u \in Watcher : LaneAlert(r, u) \/ LaneAlertUnlimited(r, u)

Next ==
    \/ Reap /\ UNCHANGED notices
    \/ \E w \in Worker : LeadershipNext(w) \/ Flush(w)
    \/ \E r \in Request, w \in Worker, p \in New :
         Commits(r, w, p) \/ Fails(r, w, p) \/ Replays(r, w, p)
    \/ \E r \in Request : RequestStep(r)
    \/ \E t \in Task : MatchIgnored(t) \/ MatchAlert(t) \/ MatchTold(t)
    \/ \E u \in Watcher : CounterExpires(u)

\* A send ends, within its retries; those who wait for room in a queue are
\* served in order.
Fairness ==
    /\ WF_leadership(LeadershipProgress)
    /\ WF_vars(\E w \in Worker : Flush(w))
    /\ \A r \in Request : SF_vars(RequestStep(r))
    /\ WF_vars(\E t \in Task : MatchTold(t))

Spec == Init /\ [][Next]_vars /\ Fairness

-----------------------------------------------------------------------------
(* Properties.                                                             *)

\* Types of leadership and of everything an alert rests on.
TypeOK ==
    /\ LeadershipTypes
    /\ posts \subseteq Post /\ sent_key \subseteq Alert /\ doubtful \subseteq Alert
    /\ queue \in [Worker -> 0..Capacity]
    /\ \A r \in Request : (phase[r] = "new") = (at[r] = None)
    /\ at \in [Request -> Worker \cup {None}] /\ post \in [Request -> Post \cup {None}]
    /\ phase \in [Request -> {"new", "announce", "alert", "report", "done"}]
    /\ matching \in [Task -> {"none", "spawned", "sending"}]
    /\ todo \in [Request -> SUBSET Watcher]
    /\ telling \in [Request -> Watcher \cup {None}]
    /\ \A u \in Watcher : rate[u].count = 0 => ~rate[u].expires
    /\ outages \in 0..MaxOutages

\* Tasks are started before the transaction that found the match commits, and
\* run also when it is rolled back; still nobody is told of a load that is not
\* in the database, and a worker that never led tells nobody anything.
OnlyCommitted ==
    /\ \A t \in Task : matching[t] = "sending" =>
         t[2].load \in posts /\ Handlers(at[t[1]])
    /\ \A r \in Request : telling[r] # None => post[r] \in posts /\ Handlers(at[r])

\* A watcher is told of the lane LANE_WATCH_RATE_LIMIT times while the counter
\* lasts, by all workers together, and once more for each call to Redis that
\* has failed.
LaneLimit == \A u \in Watcher : counted[u] <= Limit + outages

\* No watcher is muted for good: a counter expires, unless a worker died or a
\* call failed between INCR and EXPIRE.
CountersExpire ==
    \A u \in Watcher : rate[u].count > 0 => rate[u].expires \/ faults + outages > 0

\* A match alert is begun again only if two tasks had it in hand at once, or the
\* worker died, or Redis failed, before the key was written.
MatchAlertOnce == \A a \in Alert : begun[a] > 1 => a \in doubtful

\* A request that has committed answers its sender and ends, however full the
\* queue is and whoever is told first: the telemetry queue never holds up a
\* worker for good.
Answered == \A r \in Request : InFlight(r) ~> phase[r] = "done"
=============================================================================
