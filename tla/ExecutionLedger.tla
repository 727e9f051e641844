--------------------------- MODULE ExecutionLedger ---------------------------
(***************************************************************************)
(* The execution ledger (table processed_messages) and every actor that    *)
(* writes it: webhook requests, which run as coroutines of the gunicorn    *)
(* worker processes, and the RecoveryDaemon of the leading worker.         *)
(*                                                                         *)
(* Database calls are synchronous (psycopg2) inside coroutines, so between *)
(* two awaits a task owns the event loop of its process, also while it     *)
(* waits in the database for a lock.  SyncPC names those points.  Locks    *)
(* are PostgreSQL's: a row lock, or the claim an uncommitted INSERT has on *)
(* a unique key.  A transaction's own changes are in "draft" until commit. *)
(***************************************************************************)
EXTENDS Naturals, FiniteSets

CONSTANTS
    Msg,            \* wamids
    Media,          \* those that are an image or a document,
    NoMediaId,      \* and of these, those without the id to fetch it by
    User, UserOf,   \* senders, and the sender of each message
    Handler,        \* webhook requests in flight
    Daemon,         \* running RecoveryDaemon tasks (two after a split brain)
    Process, Host,  \* worker processes, and the process each task runs in
    Backlog,        \* rows an earlier release may have left in the ledger
    RedisUp,        \* whether the send guard's Redis answers
    MaxRetries,     \* RecoveryDaemon.max_retries
    MaxDeliveries,  \* bound: times WhatsApp posts one message
    MaxCrashes,     \* bound: crashes of worker processes
    SendCap,        \* bound: the history of sends counts up to this
    None

Task == Handler \cup Daemon

VARIABLES
    row,        \* processed_messages, committed
    rowLock,    \* holder of the lock on a row, or of a pending insert of it
    known,      \* committed rows of table users
    userLock,   \* holder of the lock on a user's row, or of its pending insert
    userShare,  \* holders of FOR KEY SHARE on a user's row (foreign key checks)
    guard,      \* Redis keys loadmatch:send_lock:<wamid> that are set
    pc,         \* where each task is
    cur,        \* the message a task works on
    draft,      \* a task's own copy of the ledger row of cur
    resp,       \* what a request will answer in phase 3
    batch,      \* records a daemon scan has claimed and not yet handled
    deliveries, \* times WhatsApp posted a message
    crashes,
    effects,    \* history: committed executions of a message
    sends,      \* history: times the executed response reached the user
    undone      \* history: messages an execution of which was rolled back

ledger == <<row, rowLock>>
users == <<known, userLock, userShare>>
local == <<cur, draft, resp>>
history == <<effects, sends, undone>>
world == <<guard, deliveries, crashes>>
vars == <<ledger, users, pc, local, batch, world, history>>

-----------------------------------------------------------------------------
(* Rows.                                                                   *)

Status == {"ABSENT", "IN_PROGRESS", "EXECUTING", "SUCCESS", "FAILED",
           "REPLAYING", "DLQ"}
DeliveryState == {"PENDING", "READY", "EXECUTING", "DELIVERED", "FAILED",
                  "SKIPPED_SANDBOX"}
\* age of updated_at: under the 30 s TTL of start(), under the 300 s of
\* is_zombie, or older; attempted: recovery_attempted_at in the last 30 s
Age == {"fresh", "stale", "zombie"}

Row == [status: Status, retry: Nat, delivery: DeliveryState,
        delivered: BOOLEAN, attempted: BOOLEAN, age: Age]

NewRow == [status |-> "IN_PROGRESS", retry |-> 0, delivery |-> "PENDING",
           delivered |-> FALSE, attempted |-> FALSE, age |-> "fresh"]
Absent == [NewRow EXCEPT !.status = "ABSENT"]

Exists(m) == row[m].status # "ABSENT"

ASSUME ConstantAssumption ==
    /\ Media \subseteq Msg /\ NoMediaId \subseteq Media
    /\ UserOf \in [Msg -> User]
    /\ Handler \cap Daemon = {}
    /\ Host \in [Task -> Process]
    /\ Backlog \subseteq {r \in Row : r.status # "ABSENT"}
    /\ RedisUp \in BOOLEAN
    /\ MaxRetries \in Nat \ {0}
    /\ MaxDeliveries \in Nat /\ MaxCrashes \in Nat /\ SendCap \in Nat
    /\ None \notin Task /\ None \notin Msg

-----------------------------------------------------------------------------
(* Scheduling.  At a SyncPC a task runs or waits for a lock; at any other  *)
(* point it is suspended at an await and its process runs other tasks.     *)

SyncPC == {"user", "lock", "select", "insert", "dispatch", "suppressed",
           "markFailed", "mark", "kycStore", "kycFile", "reclaim", "scan",
           "replay", "failing", "record", "bury", "deliverScan", "deliverMark"}
HandlerPC == {"idle", "user", "extract", "lock", "select", "insert",
              "dispatch", "suppressed", "markFailed", "fallback", "send",
              "mark", "kyc", "kycStore", "kycFile", "kycConfirm", "apology"}
DaemonPC == {"sleep", "reclaim", "scan", "replay", "failing", "record",
             "bury", "deliverScan", "sending", "deliverMark"}

EventLoopFree(t) ==
    \A u \in Task \ {t} : Host[u] = Host[t] => pc[u] \notin SyncPC

\* The statement at pc[t] needs the sender's row: FOR UPDATE conflicts with
\* every other lock, an UPDATE or INSERT of it with one of its kind and with
\* FOR UPDATE, a foreign key check with FOR UPDATE only, which texts take.
WaitsForUser(t, u) ==
    LET s == UserOf[cur[t]]
    IN  \/ /\ \/ pc[t] \in {"lock", "kycStore"}
              \/ pc[t] = "user" /\ s \notin known
           /\ userLock[s] = u
        \/ pc[t] = "lock" /\ u \in userShare[s]
        \/ /\ \/ pc[t] \in {"kycFile", "suppressed"}
              \/ pc[t] = "insert" /\ ~Exists(cur[t])
           /\ userLock[s] = u /\ cur[u] \notin Media

\* ... locks, updates or inserts the ledger row
WaitsForRow(t, u) ==
    /\ \/ pc[t] \in {"insert", "mark", "record", "bury", "deliverMark"}
       \/ pc[t] \in {"select", "suppressed", "markFailed"} /\ Exists(cur[t])
    /\ rowLock[cur[t]] = u

WaitsFor(t, u) == t # u /\ (WaitsForUser(t, u) \/ WaitsForRow(t, u))

At(t, p) ==
    /\ pc[t] = p
    /\ EventLoopFree(t)
    /\ \A u \in Task : ~WaitsFor(t, u)
Goto(t, p) == pc' = [pc EXCEPT ![t] = p]

\* a commit or a rollback releases everything the task holds
Released(lock, t) == [x \in DOMAIN lock |-> IF lock[x] = t THEN None ELSE lock[x]]

\* an INSERT of the sender that this task has not committed yet
CommitUser(h) == known' = known \cup {u \in User : userLock[u] = h}

EndTx(t) ==
    /\ rowLock' = Released(rowLock, t)
    /\ userLock' = Released(userLock, t)
    /\ userShare' = [u \in User |-> userShare[u] \ {t}]

Forget(t) ==
    /\ cur' = [cur EXCEPT ![t] = None]
    /\ draft' = [draft EXCEPT ![t] = Absent]

\* _check_and_set_response_sent: SET NX, before the HTTP call is made
SendGuardSet(m) == IF RedisUp THEN guard \cup {m} ELSE guard
GuardBlocks(m) == m \in guard /\ RedisUp

Sent(m) == sends' = [sends EXCEPT ![m] = IF @ < SendCap THEN @ + 1 ELSE @]

-----------------------------------------------------------------------------
Init ==
    /\ row \in [Msg -> {Absent} \cup Backlog]
    /\ rowLock = [m \in Msg |-> None]
    /\ known \in SUBSET User
    /\ userLock = [u \in User |-> None]
    /\ userShare = [u \in User |-> {}]
    /\ guard = {}
    /\ pc = [t \in Task |-> IF t \in Handler THEN "idle" ELSE "sleep"]
    /\ cur = [t \in Task |-> None]
    /\ draft = [t \in Task |-> Absent]
    /\ resp = [h \in Handler |-> "none"]
    /\ batch = [d \in Daemon |-> {}]
    /\ deliveries = [m \in Msg |-> 0]
    /\ crashes = 0
    /\ effects = [m \in Msg |-> 0]
    /\ sends = [m \in Msg |-> 0]
    /\ undone = {}

-----------------------------------------------------------------------------
(* The webhook request, up to phase 2.                                     *)

\* Mutant: the guard forgets dead letters.
ReceiveDeadLetter(h, m) ==
    /\ At(h, "idle") /\ row[m].status \in {"ABSENT", "DLQ"}
    /\ deliveries[m] < MaxDeliveries
    /\ deliveries' = [deliveries EXCEPT ![m] = @ + 1]
    /\ Goto(h, "user") /\ cur' = [cur EXCEPT ![h] = m]
    /\ UNCHANGED <<ledger, users, draft, resp, batch, guard, crashes, history>>

\* A POST of m arrives: a message with any ledger row is dropped at once.
Receive(h, m) ==
    /\ At(h, "idle")
    /\ deliveries[m] < MaxDeliveries
    /\ deliveries' = [deliveries EXCEPT ![m] = @ + 1]
    /\ IF Exists(m)
       THEN UNCHANGED <<pc, cur>>
       ELSE Goto(h, "user") /\ cur' = [cur EXCEPT ![h] = m]
    /\ UNCHANGED <<ledger, users, draft, resp, batch, guard, crashes, history>>

\* _get_or_create_user inserts an unknown sender without committing; the
\* cached intent of phase 1 makes a completed duplicate skip the extraction.
\* A media message without an id is answered and left at that.
GetOrCreateUser(h) ==
    LET m == cur[h]
        u == UserOf[m]
    IN  /\ At(h, "user")
        /\ IF u \in known
           THEN UNCHANGED userLock
           ELSE userLock' = [userLock EXCEPT ![u] = h]
        /\ guard' = IF m \in NoMediaId THEN SendGuardSet(m) ELSE guard
        /\ Goto(h, CASE m \in NoMediaId -> "apology"
                     [] m \in Media \ NoMediaId -> "select"
                     [] m \notin Media ->
                          IF row[m].status = "SUCCESS" THEN "lock" ELSE "extract")
        /\ UNCHANGED <<ledger, known, userShare, local, batch, deliveries, crashes,
                       history>>

\* The answer is out, or sending it raised; closing the session rolls back.
Apologised(h) ==
    /\ At(h, "apology")
    /\ EndTx(h) /\ Forget(h)
    /\ Goto(h, "idle")
    /\ UNCHANGED <<row, known, resp, batch, world, history>>

\* The rate limiter rejects a text: commit, one notice, no ledger row.
RateLimited(h) ==
    /\ At(h, "user") /\ cur[h] \notin Media
    /\ known' = known \cup {UserOf[cur[h]]}
    /\ guard' = SendGuardSet(cur[h])
    /\ Goto(h, "idle") /\ Forget(h)
    /\ UNCHANGED <<ledger, userLock, userShare, resp, batch, deliveries, crashes,
                   history>>

\* The extraction (an HTTP call to the model) returns.
Extracted(h) ==
    /\ At(h, "extract")
    /\ Goto(h, "lock")
    /\ UNCHANGED <<ledger, users, local, batch, world, history>>

\* Phase 1 raises: the outer handler rolls back and has no key to mark.
Phase1Fails(h) ==
    /\ At(h, "extract")
    /\ EndTx(h)
    /\ Goto(h, "fallback")
    /\ UNCHANGED <<row, known, local, batch, world, history>>

\* Mutant: a plain SELECT of the sender, as on sqlite.
LockUserForDispatchPlain(h) ==
    /\ At(h, "lock")
    /\ \/ Goto(h, "select") /\ UNCHANGED <<known, userLock, resp>>
       \/ /\ CommitUser(h) /\ userLock' = Released(userLock, h)
          /\ resp' = [resp EXCEPT ![h] = "denied"]
          /\ Goto(h, "send")
    /\ UNCHANGED <<ledger, userShare, cur, draft, batch, world, history>>

\* SELECT ... FOR UPDATE on the sender, then the transition is judged: a
\* denied one writes no ledger row, commits the session and answers.
LockUserForDispatch(h) ==
    LET u == UserOf[cur[h]]
    IN  /\ At(h, "lock")
        /\ \/ /\ userLock' = [userLock EXCEPT ![u] = h]
              /\ Goto(h, "select")
              /\ UNCHANGED <<known, resp>>
           \/ /\ CommitUser(h) /\ userLock' = Released(userLock, h)
              /\ resp' = [resp EXCEPT ![h] = "denied"]
              /\ Goto(h, "send")
        /\ UNCHANGED <<ledger, userShare, cur, draft, batch, world, history>>

-----------------------------------------------------------------------------
(* IdempotencyService.start.                                               *)

StartRefuses(r) ==
    \/ r.delivery = "EXECUTING"
    \/ r.status = "SUCCESS"
    \/ r.status \in {"IN_PROGRESS", "EXECUTING"} /\ r.age = "fresh"
StartRestarts(r) == r.status \in {"IN_PROGRESS", "EXECUTING", "FAILED", "REPLAYING"}
Restarted(r) ==
    [r EXCEPT !.status = "IN_PROGRESS", !.retry = @ + 1,
              !.delivery = "PENDING", !.age = "fresh"]

Worker(m) == IF m \in Media THEN "kyc" ELSE "dispatch"

\* The locking SELECT.  A refused text answers with the cached response and
\* commits its session data; a refused upload just returns.
StartSelect(h) ==
    LET m == cur[h]
        r == row[m]
    IN  /\ At(h, "select")
        /\ \/ /\ ~Exists(m)
              /\ Goto(h, "insert")
              /\ UNCHANGED <<ledger, users, local>>
           \/ /\ Exists(m) /\ StartRefuses(r)
              /\ IF m \in Media
                 THEN known' = known /\ Goto(h, "idle") /\ Forget(h) /\ resp' = resp
                 ELSE /\ CommitUser(h)
                      /\ IF r.status = "SUCCESS"
                         THEN /\ Goto(h, "send")
                              /\ resp' = [resp EXCEPT ![h] = "cached"]
                              /\ UNCHANGED <<cur, draft>>
                         ELSE Goto(h, "idle") /\ Forget(h) /\ resp' = resp
              /\ EndTx(h) /\ row' = row
           \/ /\ Exists(m) /\ ~StartRefuses(r)
              /\ rowLock' = [rowLock EXCEPT ![m] = h]
              /\ IF StartRestarts(r)
                 THEN /\ draft' = [draft EXCEPT ![h] = Restarted(r)]
                      /\ Goto(h, Worker(m))
                 ELSE draft' = draft /\ Goto(h, "insert")
              /\ UNCHANGED <<row, users, cur, resp>>
        /\ UNCHANGED <<batch, world, history>>

\* Mutant: no flush, so that the INSERT goes out with the commit.
StartInsertUnflushed(h) ==
    LET m == cur[h]
    IN  /\ At(h, "insert")
        /\ draft' = [draft EXCEPT ![h] = IF Exists(m) THEN row[m] ELSE NewRow]
        /\ Goto(h, Worker(m))
        /\ UNCHANGED <<ledger, users, cur, resp, batch, world, history>>

\* The INSERT checks its foreign key to the sender and waits for a pending
\* insert of the same key.  When it loses, the IntegrityError branch returns
\* the winner's row as if started.
StartInsert(h) ==
    LET m == cur[h]
    IN  /\ At(h, "insert")
        /\ rowLock' = [rowLock EXCEPT ![m] = h]
        /\ draft' = [draft EXCEPT ![h] = IF Exists(m) THEN row[m] ELSE NewRow]
        /\ userShare' = IF Exists(m) THEN userShare
                        ELSE [userShare EXCEPT ![UserOf[m]] = @ \cup {h}]
        /\ Goto(h, Worker(m))
        /\ UNCHANGED <<row, known, userLock, cur, resp, batch, world, history>>

-----------------------------------------------------------------------------
(* Execution: the dispatcher inside phase 2, or the KYC upload.            *)

Completed(r) ==
    [r EXCEPT !.status = "SUCCESS", !.delivery = "READY", !.age = "fresh"]
Delivered(r) ==
    [r EXCEPT !.delivered = TRUE, !.delivery = "DELIVERED", !.age = "fresh"]
\* Mutant: the status goes into the wrong column.
FailedMisplaced(r) == [r EXCEPT !.delivery = "DLQ"]
Failed(r) == [r EXCEPT !.status = "FAILED", !.delivery = "FAILED",
                       !.retry = @ + 1, !.age = "fresh"]

\* Mutants: the commit comes after the answer; the record is not in it.
CommitExecutionLate(h, r) ==
    /\ row' = [row EXCEPT ![cur[h]] = r]
    /\ effects' = [effects EXCEPT ![cur[h]] = @ + 1]
    /\ CommitUser(h)
    /\ UNCHANGED <<rowLock, userLock, userShare>>
CommitExecutionUnrecorded(h, r) ==
    /\ row' = row
    /\ effects' = [effects EXCEPT ![cur[h]] = @ + 1]
    /\ CommitUser(h)
    /\ EndTx(h)

\* The transaction that executed cur[h] commits, with ledger row r.
CommitExecution(h, r) ==
    /\ row' = [row EXCEPT ![cur[h]] = r]
    /\ effects' = [effects EXCEPT ![cur[h]] = @ + 1]
    /\ CommitUser(h)
    /\ EndTx(h)

\* complete, mark_failed and mark_delivered look a row up by its key, which
\* names the intent and the next state of the delivery that inserted it: the
\* row of a text may be another's.
FoundByKey(m) ==
    IF ~Exists(m) THEN {FALSE} ELSE IF m \in Media THEN {TRUE} ELSE BOOLEAN

\* dispatcher.execute, complete and the session writes, in one transaction.
\* A row that was restarted under another key stays as start left it.
Dispatch(h) ==
    /\ At(h, "dispatch")
    /\ \E found \in IF Exists(cur[h]) THEN FoundByKey(cur[h]) ELSE {TRUE} :
        /\ CommitExecution(h, IF found THEN Completed(draft[h]) ELSE draft[h])
        /\ resp' = [resp EXCEPT ![h] = IF found THEN "own" ELSE "unmarked"]
    /\ Goto(h, "send")
    /\ UNCHANGED <<cur, draft, batch, world, sends, undone>>

\* A rollback takes the ledger row and the sender's lock with it.
Rollback(h, p) ==
    /\ EndTx(h)
    /\ undone' = undone \cup {cur[h]}
    /\ Goto(h, p)
    /\ UNCHANGED <<row, known, cur, draft, batch, world, effects, sends>>

DispatchFails(h) == At(h, "dispatch") /\ Rollback(h, "markFailed") /\ resp' = resp

\* A truck confirmed for a lane on which its owner, no new sender, has a
\* listing older than the freshness window: the INSERT of the listing violates
\* a unique index, and the dispatcher rolls the session back by itself ...
LaneTaken(h) ==
    /\ At(h, "dispatch") /\ UserOf[cur[h]] \in known
    /\ Rollback(h, "suppressed")
    /\ \E found \in FoundByKey(cur[h]) :
        resp' = [resp EXCEPT ![h] = IF found THEN "own" ELSE "unmarked"]

\* ... then goes on: complete finds a row only if somebody committed one, and
\* the commit has the events and the session of an execution nobody recorded.
DispatchSuppressed(h) ==
    LET m == cur[h]
    IN  /\ At(h, "suppressed")
        /\ \E found \in IF resp[h] = "own" THEN {TRUE} ELSE FoundByKey(m) :
            row' = IF found THEN [row EXCEPT ![m] = Completed(@)] ELSE row
        /\ effects' = [effects EXCEPT ![m] = @ + 1]
        /\ Goto(h, "send")
        /\ UNCHANGED <<rowLock, users, local, batch, world, sends, undone>>

\* The media is downloaded.  A document is inserted and flushed, and the
\* sender's row with it unless it is under review already (the choice) ...
KycDownloaded(h) ==
    /\ At(h, "kyc")
    /\ Goto(h, "kycStore") \/ Goto(h, "kycFile")
    /\ UNCHANGED <<ledger, users, local, batch, world, history>>

\* ... so both stay locked during the confirmation's HTTP call.
KycStore(h) ==
    LET u == UserOf[cur[h]]
    IN  /\ \/ At(h, "kycStore") /\ userLock' = [userLock EXCEPT ![u] = h]
           \/ At(h, "kycFile") /\ userLock' = userLock
        /\ userShare' = [userShare EXCEPT ![u] = @ \cup {h}]
        /\ Goto(h, "kycConfirm")
        /\ UNCHANGED <<ledger, known, local, batch, world, history>>

\* complete, mark_delivered and the commit; the answer went out before them.
KycCommit(h) ==
    /\ At(h, "kycConfirm")
    /\ CommitExecution(h, Delivered(Completed(draft[h])))
    /\ Sent(cur[h])
    /\ Goto(h, "idle") /\ Forget(h)
    /\ UNCHANGED <<resp, batch, world, undone>>

\* The locks are held until the apology it sends first has gone out.
KycFails(h) ==
    /\ At(h, "kyc") \/ At(h, "kycConfirm")
    /\ Rollback(h, "markFailed") /\ resp' = resp

\* mark_failed after the rollback: it finds only a row somebody committed.
MarkFailed(h) ==
    LET m == cur[h]
    IN  /\ At(h, "markFailed")
        /\ \E found \in FoundByKey(m) :
            row' = IF found THEN [row EXCEPT ![m] = Failed(@)] ELSE row
        /\ Goto(h, "fallback")
        /\ UNCHANGED <<rowLock, users, local, batch, world, history>>

SafeFallback(h) ==
    /\ At(h, "fallback")
    /\ Goto(h, "idle") /\ Forget(h)
    /\ UNCHANGED <<ledger, users, resp, batch, world, history>>

-----------------------------------------------------------------------------
(* Phase 3.  send_with_backoff(retries=1) returns a DeliveryResult; every  *)
(* member of that str Enum is true, so "if success" always holds.  A       *)
(* denial has no ledger row to mark.                                       *)

SendResponse(h) ==
    LET m == cur[h]
    IN  /\ At(h, "send")
        /\ \/ GuardBlocks(m) /\ UNCHANGED <<guard, sends>>
           \/ /\ ~GuardBlocks(m)
              /\ guard' = SendGuardSet(m)
              /\ IF resp[h] = "denied" THEN UNCHANGED sends ELSE Sent(m)
           \/ /\ ~GuardBlocks(m)            \* HTTP error, after the guard is set
              /\ guard' = SendGuardSet(m)
              /\ UNCHANGED sends
           \/ /\ resp[h] = "cached"     \* buttons rehydrated as dicts raise first
              /\ UNCHANGED <<guard, sends>>
        /\ IF resp[h] = "denied"
           THEN Goto(h, "idle") /\ Forget(h)
           ELSE Goto(h, "mark") /\ UNCHANGED <<cur, draft>>
        /\ UNCHANGED <<ledger, users, resp, batch, deliveries, crashes, effects,
                       undone>>

\* Mutant: the stale copy of the row is written back as a whole.
MarkDeliveredStale(h) ==
    /\ At(h, "mark")
    /\ row' = [row EXCEPT ![cur[h]] = Delivered(draft[h])]
    /\ Goto(h, "idle") /\ Forget(h)
    /\ UNCHANGED <<rowLock, users, resp, batch, world, history>>

\* mark_delivered; only a request that executed, and found the row, commits
\* it.  A duplicate's (msg_id None) is rolled back when its session closes, and
\* the commit after LaneTaken fails, its WorkflowEvent having no row to refer to.
MarkDelivered(h) ==
    LET m == cur[h]
    IN  /\ At(h, "mark")
        /\ row' = IF resp[h] = "own" THEN [row EXCEPT ![m] = Delivered(@)] ELSE row
        /\ Goto(h, "idle") /\ Forget(h)
        /\ UNCHANGED <<rowLock, users, resp, batch, world, history>>

-----------------------------------------------------------------------------
(* RecoveryDaemon.run_forever: reclaim, replay, deliver, sleep 30 s.       *)

WakeUp(d) ==
    /\ At(d, "sleep")
    /\ Goto(d, "reclaim")
    /\ UNCHANGED <<ledger, users, local, batch, world, history>>

Stuck(m) ==
    row[m].status = "EXECUTING" /\ row[m].age = "zombie" /\ rowLock[m] = None
Reclaimed(r) ==
    [r EXCEPT !.status = "IN_PROGRESS", !.age = "fresh",
              !.delivery = IF @ = "EXECUTING" THEN "PENDING" ELSE @]

ScanAndReclaim(d) ==
    /\ At(d, "reclaim")
    /\ row' = [m \in Msg |-> IF Stuck(m) THEN Reclaimed(row[m]) ELSE row[m]]
    /\ Goto(d, "scan")
    /\ UNCHANGED <<rowLock, users, local, batch, world, history>>

\* FOR UPDATE SKIP LOCKED
Claim(d, ms) ==
    /\ rowLock' = [m \in Msg |-> IF m \in ms THEN d ELSE rowLock[m]]
    /\ batch' = [batch EXCEPT ![d] = ms]

ReplayCandidates ==
    {m \in Msg : /\ row[m].status \in {"IN_PROGRESS", "FAILED"}
                 /\ ~row[m].attempted
                 /\ rowLock[m] = None}

ScanAndReplay(d) ==
    /\ At(d, "scan")
    /\ Claim(d, ReplayCandidates)
    /\ Goto(d, "replay")
    /\ UNCHANGED <<row, users, local, world, history>>

Take(d, m) == cur' = [cur EXCEPT ![d] = m] /\ batch' = [batch EXCEPT ![d] = @ \ {m}]

\* Mutant: one retry too many.
ExhaustedLate(r) == r.retry > MaxRetries
Exhausted(r) == r.retry + 1 > MaxRetries

NotYetZombie(r) == r.status = "IN_PROGRESS" /\ r.age # "zombie"

\* The next record of the scan, as it is now: a commit or rollback since the
\* scan gave up its lock and expired the object, and the filter is not redone.
\* A claimed record is rolled back at once: factory.build raises TypeError.
ReplayNext(d) ==
    /\ At(d, "replay")
    /\ \E m \in batch[d] :
        LET r == row[m]
        IN  /\ Take(d, m)
            /\ \/ /\ Exhausted(r)
                  /\ draft' = [draft EXCEPT ![d] = r]
                  /\ Goto(d, "bury")
                  /\ UNCHANGED <<rowLock, userLock, userShare>>
               \/ /\ ~Exhausted(r) /\ NotYetZombie(r)
                  /\ UNCHANGED <<pc, draft, rowLock, userLock, userShare>>
               \/ /\ ~Exhausted(r) /\ ~NotYetZombie(r)
                  /\ Goto(d, "failing") /\ EndTx(d)
                  /\ UNCHANGED draft
    /\ UNCHANGED <<row, known, resp, world, history>>

\* db.close releases what the scan still holds
ReplayDone(d) ==
    /\ At(d, "replay") /\ batch[d] = {}
    /\ EndTx(d) /\ Forget(d)
    /\ Goto(d, "deliverScan")
    /\ UNCHANGED <<row, known, resp, batch, world, history>>

\* The ORM writes the columns that differ from the copy it loaded.
Flushed(now, loaded, new) ==
    [f \in DOMAIN now |-> IF new[f] # loaded[f] THEN new[f] ELSE now[f]]

\* _record_replay_failure loads the record without a lock ...
LoadFailedReplay(d) ==
    /\ At(d, "failing")
    /\ draft' = [draft EXCEPT ![d] = row[cur[d]]]
    /\ Goto(d, "record")
    /\ UNCHANGED <<ledger, users, cur, resp, batch, world, history>>

\* Mutant: the failed attempt is not counted.
ReplayFailedUncounted(r) ==
    [r EXCEPT !.status = IF r.retry + 1 >= MaxRetries THEN "DLQ" ELSE "FAILED",
              !.delivery = "FAILED"]
ReplayFailed(r) ==
    [r EXCEPT !.status = IF r.retry + 1 >= MaxRetries THEN "DLQ" ELSE "FAILED",
              !.retry = @ + 1, !.delivery = "FAILED"]
Buried(r) == [r EXCEPT !.status = "DLQ", !.delivery = "FAILED"]

\* ... and commits what follows from that copy.
RecordReplayFailure(d) ==
    LET m == cur[d]
    IN  /\ At(d, "record")
        /\ row' = [row EXCEPT ![m] =
                     [Flushed(@, draft[d], ReplayFailed(draft[d]))
                         EXCEPT !.attempted = TRUE, !.age = "fresh"]]
        /\ Goto(d, "replay")
        /\ UNCHANGED <<rowLock, users, local, batch, world, history>>

MoveToDeadLetter(d) ==
    LET m == cur[d]
    IN  /\ At(d, "bury")
        /\ row' = [row EXCEPT ![m] =
                     [Flushed(@, draft[d], Buried(draft[d]))
                         EXCEPT !.age = "fresh"]]
        /\ EndTx(d)
        /\ Goto(d, "replay")
        /\ UNCHANGED <<known, local, batch, world, history>>

Skipped(r) == [r EXCEPT !.delivery = "SKIPPED_SANDBOX", !.age = "fresh"]

\* Mutant: a filter on the state start gives a row, not complete.
UndeliveredPending ==
    {m \in Msg : /\ row[m].status = "SUCCESS" /\ ~row[m].delivered
                 /\ row[m].delivery = "PENDING"
                 /\ rowLock[m] = None}

Undelivered ==
    {m \in Msg : /\ row[m].status = "SUCCESS" /\ ~row[m].delivered
                 /\ row[m].delivery # "SKIPPED_SANDBOX"
                 /\ rowLock[m] = None}

ScanAndDeliver(d) ==
    /\ At(d, "deliverScan")
    /\ Claim(d, Undelivered)
    /\ Goto(d, "sending")
    /\ UNCHANGED <<row, users, local, world, history>>

\* send_with_backoff(ignore_guard=True) returns for the next record.
DeliverSent(d, m) ==
    /\ At(d, "sending") /\ m \in batch[d]
    /\ Take(d, m) /\ Sent(m)
    /\ draft' = [draft EXCEPT ![d] = Delivered(row[m])]
    /\ Goto(d, "deliverMark")
    /\ UNCHANGED <<ledger, users, resp, world, effects, undone>>

\* the sandbox refuses the recipient: terminal
DeliverSkipped(d, m) ==
    /\ At(d, "sending") /\ m \in batch[d]
    /\ Take(d, m)
    /\ draft' = [draft EXCEPT ![d] = Skipped(row[m])]
    /\ Goto(d, "deliverMark")
    /\ UNCHANGED <<ledger, users, resp, world, history>>

\* five attempts failed: left to the next scan, locked until this one ends
DeliverGivenUp(d, m) ==
    /\ At(d, "sending") /\ m \in batch[d]
    /\ Take(d, m)
    /\ UNCHANGED <<ledger, users, pc, draft, resp, world, history>>

\* The UPDATE and its commit, which also gives up the locks on the rest.
DeliverMark(d) ==
    LET m == cur[d]
    IN  /\ At(d, "deliverMark")
        /\ row' = [row EXCEPT ![m] =
                     IF draft[d].delivered THEN Delivered(@) ELSE Skipped(@)]
        /\ EndTx(d)
        /\ Goto(d, "sending")
        /\ UNCHANGED <<known, local, batch, world, history>>

DeliverDone(d) ==
    /\ At(d, "sending") /\ batch[d] = {}
    /\ EndTx(d) /\ Forget(d)
    /\ Goto(d, "sleep")
    /\ UNCHANGED <<row, known, resp, batch, world, history>>

-----------------------------------------------------------------------------
(* Time, crashes, and gunicorn's --timeout 150.                            *)

Aged(r) ==
    [r EXCEPT !.age = IF @ = "fresh" THEN "stale" ELSE "zombie",
              !.attempted = FALSE]

Elapse(m) ==
    /\ row[m].status \in {"IN_PROGRESS", "EXECUTING", "FAILED"}
    /\ row[m].age # "zombie" \/ row[m].attempted
    /\ row' = [row EXCEPT ![m] = Aged(@)]
    /\ UNCHANGED <<rowLock, users, pc, local, batch, world, history>>

GuardExpires(m) ==
    /\ m \in guard
    /\ guard' = guard \ {m}
    /\ UNCHANGED <<ledger, users, pc, local, batch, deliveries, crashes, history>>

\* A task of p waits in the database, so the event loop of p stands still;
\* for ever, when the holder is a suspended task of p, or of a process that
\* waits for p in turn.  No lock_timeout or statement_timeout is set.
Standstill(p) == \E t, u \in Task : Host[t] = p /\ WaitsFor(t, u)

\* The process dies: its transactions roll back; its tasks start afresh.
Dies(p) ==
    LET dead == {t \in Task : Host[t] = p}
    IN  /\ rowLock' = [m \in Msg |->
                           IF rowLock[m] \in dead THEN None ELSE rowLock[m]]
        /\ userLock' = [u \in User |->
                            IF userLock[u] \in dead THEN None ELSE userLock[u]]
        /\ userShare' = [u \in User |-> userShare[u] \ dead]
        /\ pc' = [t \in Task |-> IF t \notin dead THEN pc[t]
                                 ELSE IF t \in Handler THEN "idle" ELSE "sleep"]
        /\ cur' = [t \in Task |-> IF t \in dead THEN None ELSE cur[t]]
        /\ draft' = [t \in Task |-> IF t \in dead THEN Absent ELSE draft[t]]
        /\ batch' = [d \in Daemon |-> IF d \in dead THEN {} ELSE batch[d]]
        /\ UNCHANGED <<row, known, resp, guard, deliveries, history>>

Crash(p) ==
    /\ crashes < MaxCrashes
    /\ crashes' = crashes + 1
    /\ Dies(p)

\* Mutant: --timeout 0.
WorkerTimeoutNever(p) == FALSE /\ UNCHANGED vars /\ p \in Process

\* The arbiter kills a worker whose event loop stands still for 150 s.
WorkerTimeout(p) ==
    /\ Standstill(p)
    /\ Dies(p)
    /\ UNCHANGED crashes

-----------------------------------------------------------------------------
HandlerStep(h) ==
    \/ GetOrCreateUser(h) \/ Apologised(h)
    \/ RateLimited(h) \/ Extracted(h) \/ Phase1Fails(h)
    \/ LockUserForDispatch(h) \/ StartSelect(h) \/ StartInsert(h)
    \/ Dispatch(h) \/ DispatchFails(h) \/ LaneTaken(h) \/ DispatchSuppressed(h)
    \/ MarkFailed(h) \/ SafeFallback(h)
    \/ KycDownloaded(h) \/ KycStore(h) \/ KycCommit(h) \/ KycFails(h)
    \/ SendResponse(h) \/ MarkDelivered(h)

DaemonStep(d) ==
    \/ WakeUp(d) \/ ScanAndReclaim(d) \/ ScanAndReplay(d) \/ ReplayNext(d)
    \/ ReplayDone(d) \/ LoadFailedReplay(d) \/ RecordReplayFailure(d)
    \/ MoveToDeadLetter(d) \/ ScanAndDeliver(d) \/ DeliverMark(d) \/ DeliverDone(d)
    \/ \E m \in Msg :
        DeliverSent(d, m) \/ DeliverSkipped(d, m) \/ DeliverGivenUp(d, m)

Next ==
    \/ \E h \in Handler : HandlerStep(h) \/ \E m \in Msg : Receive(h, m)
    \/ \E d \in Daemon : DaemonStep(d)
    \/ \E m \in Msg : Elapse(m) \/ GuardExpires(m)
    \/ \E p \in Process : Crash(p) \/ WorkerTimeout(p)

Spec == Init /\ [][Next]_vars

\* Strong fairness of tasks: asyncio runs its ready tasks in turn and HTTP
\* calls time out, PostgreSQL queues the waiters for a lock.  The clock runs,
\* the arbiter watches.  WhatsApp accepts a message that is tried for ever.
Fairness ==
    /\ \A h \in Handler : SF_vars(HandlerStep(h))
    /\ \A d \in Daemon : SF_vars(DaemonStep(d))
    /\ WF_vars(\E m \in Msg : Elapse(m))
    /\ \A p \in Process : WF_vars(WorkerTimeout(p))
    /\ SF_vars(\E d \in Daemon, m \in Msg : DeliverSent(d, m))

FairSpec == Spec /\ Fairness

-----------------------------------------------------------------------------
(* Properties.                                                             *)

\* The type invariant.
TypeOK ==
    /\ row \in [Msg -> Row]
    /\ rowLock \in [Msg -> Task \cup {None}]
    /\ known \subseteq User
    /\ userLock \in [User -> Task \cup {None}]
    /\ userShare \in [User -> SUBSET Task]
    /\ guard \subseteq Msg
    /\ pc \in [Task -> HandlerPC \cup DaemonPC]
    /\ \A t \in Task : pc[t] \in IF t \in Handler THEN HandlerPC ELSE DaemonPC
    /\ cur \in [Task -> Msg \cup {None}]
    /\ \A h \in Handler : pc[h] # "idle" => cur[h] \in Msg
    /\ \A d \in Daemon :
        pc[d] \in {"failing", "record", "bury", "deliverMark"} => cur[d] \in Msg
    /\ draft \in [Task -> Row]
    /\ resp \in [Handler -> {"none", "own", "unmarked", "cached", "denied"}]
    /\ batch \in [Daemon -> SUBSET Msg]
    /\ deliveries \in [Msg -> Nat]
    /\ crashes \in Nat
    /\ effects \in [Msg -> Nat]
    /\ sends \in [Msg -> Nat]
    /\ undone \subseteq Msg

Text == Msg \ Media

\* However often WhatsApp posts a text, and whatever crashes, times out or is
\* replayed meanwhile, its effects are committed once, unless an execution of
\* it was rolled back (see TextsExecuteOnce and AnsweredIsRecorded).
ExecutedAtMostOnce == \A m \in Text \ undone : effects[m] <= 1

\* The ledger says SUCCESS of a text whose effects are committed: nothing that
\* runs beside the request or after it withdraws the record.
ExecutedIsRecorded ==
    \A m \in Text \ undone : effects[m] > 0 => row[m].status = "SUCCESS"

Executing(h) == cur[h] \in Text /\ pc[h] \in {"select", "insert", "dispatch"}

\* Two texts of one sender are never executed side by side, in one worker or
\* in two: what the lock on the sender's row is for.  (It ends where LaneTaken
\* rolls back: what follows, DispatchSuppressed, runs without the lock.)
OneDispatchPerSender ==
    \A h, k \in Handler :
        Executing(h) /\ Executing(k) /\ UserOf[cur[h]] = UserOf[cur[k]] => h = k

Holds(t) ==
    \/ \E m \in Msg : rowLock[m] = t
    \/ \E u \in User : userLock[u] = t \/ t \in userShare[u]

\* A lock is kept across an await only by a new sender's first request, by an
\* upload and by the delivery scan; no other await can freeze its worker.
LocksAcrossAwaits ==
    \A t \in Task : Holds(t) /\ pc[t] \notin SyncPC =>
        \/ pc[t] \in {"extract", "apology"} /\ userLock[UserOf[cur[t]]] = t
        \/ pc[t] \in {"kyc", "kycConfirm", "sending"}

\* Two requests never carry the upload of one message out at the same time.
OneUploadAtATime ==
    \A h, k \in Handler :
        /\ {pc[h], pc[k]} \subseteq {"kyc", "kycStore", "kycFile", "kycConfirm"}
        /\ cur[h] = cur[k]
        => h = k

\* The replay counter stays within the cap of the daemon.
RetryWithinCap == \A m \in Msg \ undone : row[m].retry <= MaxRetries

\* A dead letter stays one, whoever holds an older copy of the row.
DeadLetterIsFinal ==
    [][\A m \in Text \ undone' :
        row[m].status = "DLQ" => row'[m].status = "DLQ"]_vars

\* Every request comes to its end: the order in which requests, uploads and
\* the daemon take locks has no cycle, and a frozen worker is killed.
RequestsFinish == \A h \in Handler : pc[h] # "idle" ~> pc[h] = "idle"

\* A row that nobody finished ends as a success or as a dead letter.
ZombiesSettle ==
    \A m \in Msg : row[m].status \in {"IN_PROGRESS", "EXECUTING", "FAILED"}
                       ~> row[m].status \in {"SUCCESS", "DLQ"}

\* An executed message is in the end marked delivered, or refused for good.
UndeliveredSettles ==
    \A m \in Msg : (row[m].status = "SUCCESS" /\ m \notin undone)
        ~> (row[m].delivered \/ row[m].delivery = "SKIPPED_SANDBOX" \/ m \in undone)

\* For texts the ledger implements ExactlyOnce.
Once == INSTANCE ExactlyOnce WITH
    Msg <- Text,
    recorded <- {m \in Text : row[m].status = "SUCCESS"},
    applied <- [m \in Text |-> effects[m]],
    settled <- {m \in Text : row[m].delivered},
    undone <- undone \cap Text

\* Effects and record of a text change together and once; a record is
\* withdrawn only after an execution was rolled back; delivered_at is set only
\* of what was executed, and never unset.
ImplementsExactlyOnce == Once!Spec

-----------------------------------------------------------------------------
(* What the repository says of the program and the program does not do.    *)

\* exists is an "exactly-once guard keyed by wamid"; but the answer of a
\* suppressed listing leaves no row for the next delivery to find, and
\* mark_failed, after a rollback, withdraws a success that a concurrent
\* delivery has committed: the text is executed again.
TextsExecuteOnce == \A m \in Text : effects[m] <= 1

\* The same guard, for uploads: the loser of the insert takes the winner's row
\* for its own and stores the document again.
UploadsExecuteOnce == \A m \in Media : effects[m] <= 1

\* send_with_backoff "ensures no message is lost after execution commit" and
\* the daemon retries what has no delivered_at: a request marks its message
\* delivered though the send failed, since every DeliveryResult is true.
DeliveredMeansSent == \A m \in Msg : row[m].delivered => sends[m] > 0

\* The commit of phase 2 is the single source of truth: what the user gets as
\* the answer of an execution has a ledger row.
AnsweredIsRecorded ==
    \A h \in Handler :
        pc[h] = "send" /\ resp[h] \in {"own", "unmarked"} => Exists(cur[h])

\* The daemon replays a failed message to SUCCESS.
ReplaySucceeds ==
    \A m \in Msg : row[m].status = "FAILED" ~> row[m].status = "SUCCESS"

=============================================================================
