----------------------------- MODULE Leadership ------------------------------
(***************************************************************************)
(* Which of the worker processes runs the recovery daemon.  The lock is an *)
(* advisory lock of the database, held by a session: a worker keeps it     *)
(* with a connection of its own, and loses it, without being told, when    *)
(* that connection breaks.  A worker without the lock watches for it.      *)
(*                                                                         *)
(* The supervisor starts a worker again that has ended.                    *)
(***************************************************************************)
EXTENDS Naturals, FiniteSets

CONSTANTS
    Worker,
    Eligible,     \* workers with IS_PRIMARY_RECOVERY_NODE = 1
    MaxFaults,    \* bound: crashes, shutdowns and lost connections
    Free,         \* nobody holds the lock
    Ghost         \* a session whose client is gone holds it still

ASSUME LeadershipAssumption ==
    /\ Eligible \subseteq Worker
    /\ MaxFaults \in Nat
    /\ Free # Ghost /\ {Free, Ghost} \cap Worker = {}

VARIABLES
    life,          \* of each process: down, up, or stopping
    lock,          \* who holds the advisory lock
    leader_conn,   \* app.state.leader_conn: none, open or broken
    watching,      \* workers whose watchdog task runs
    daemon,        \* workers whose recovery task runs
    registered,    \* how often a process has registered its handlers
    faults         \* faults so far

leadership == <<life, lock, leader_conn, watching, daemon, registered, faults>>

\* An earlier instance may have left a session behind.
LeadershipInit ==
    /\ life = [w \in Worker |-> "down"]
    /\ lock \in {Free, Ghost}
    /\ leader_conn = [w \in Worker |-> "none"]
    /\ watching = {} /\ daemon = {}
    /\ registered = [w \in Worker |-> 0]
    /\ faults = 0

\* _acquire_leader_lock, on a connection that is kept
Acquire(w) ==
    /\ w \in Eligible /\ lock = Free
    /\ lock' = w
    /\ leader_conn' = [leader_conn EXCEPT ![w] = "open"]

\* Mutant: the watchdog goes on after the promotion.
StartPrimaryWatching(w) ==
    /\ daemon' = daemon \cup {w}
    /\ UNCHANGED watching
    /\ registered' = [registered EXCEPT ![w] = @ + 1]

\* _start_primary_services, to its end: nothing in it waits
StartPrimary(w) ==
    /\ daemon' = daemon \cup {w}
    /\ watching' = watching \ {w}
    /\ registered' = [registered EXCEPT ![w] = @ + 1]

Starts(w) == life[w] = "down" /\ life' = [life EXCEPT ![w] = "up"]

BootPrimary(w) ==
    /\ Starts(w) /\ Acquire(w) /\ StartPrimary(w)
    /\ UNCHANGED faults

BootStandby(w) ==
    /\ Starts(w) /\ (w \notin Eligible \/ lock # Free)
    /\ watching' = watching \cup {w}
    /\ UNCHANGED <<lock, leader_conn, daemon, registered, faults>>

Promote(w) ==
    /\ w \in watching /\ Acquire(w) /\ StartPrimary(w)
    /\ UNCHANGED <<life, faults>>

Fault == faults < MaxFaults /\ faults' = faults + 1

\* The server may notice that the client is gone at once, or later.
Released(w) == IF lock = w THEN lock' \in {Free, Ghost} ELSE UNCHANGED lock

\* Mutant: the start fails on a connection that stays open, with the lock.
PromoteFailsKept(w) ==
    /\ Fault /\ w \in watching /\ Acquire(w)
    /\ watching' = watching \ {w}
    /\ UNCHANGED <<life, daemon, registered>>

\* The connection breaks between the lock and the question for its pid: the
\* error ends the watchdog, and nothing starts it again.
PromoteFails(w) ==
    /\ Fault /\ w \in watching /\ w \in Eligible /\ lock = Free
    /\ lock' \in {Free, Ghost}
    /\ leader_conn' = [leader_conn EXCEPT ![w] = "broken"]
    /\ watching' = watching \ {w}
    /\ UNCHANGED <<life, daemon, registered>>

\* The heartbeat finds out and ends; the daemon runs on, and nobody asks for the
\* lock again.
LoseConnection(w) ==
    /\ Fault /\ leader_conn[w] = "open"
    /\ leader_conn' = [leader_conn EXCEPT ![w] = "broken"]
    /\ Released(w)
    /\ UNCHANGED <<life, watching, daemon, registered>>

Ends(w) ==
    /\ life' = [life EXCEPT ![w] = "down"]
    /\ leader_conn' = [leader_conn EXCEPT ![w] = "none"]
    /\ registered' = [registered EXCEPT ![w] = 0]
    /\ watching' = watching \ {w}
    /\ daemon' = daemon \ {w}

Crash(w) ==
    /\ Fault /\ life[w] # "down" /\ Ends(w) /\ Released(w)

\* Mutant: the lock is given back before the tasks are cancelled.
StopReleased(w) ==
    /\ Fault /\ life[w] = "up"
    /\ life' = [life EXCEPT ![w] = "stopping"]
    /\ lock' = IF lock = w THEN Free ELSE lock
    /\ UNCHANGED <<leader_conn, watching, daemon, registered>>

\* The end of the lifespan: every task is cancelled and awaited, ...
Stop(w) ==
    /\ Fault /\ life[w] = "up"
    /\ life' = [life EXCEPT ![w] = "stopping"]
    /\ watching' = watching \ {w}
    /\ daemon' = daemon \ {w}
    /\ UNCHANGED <<lock, leader_conn, registered>>

\* ... and then the lock is given back.
Release(w) ==
    /\ life[w] = "stopping" /\ Ends(w)
    /\ lock' = IF lock = w THEN Free ELSE lock
    /\ UNCHANGED faults

Reap ==
    /\ lock = Ghost /\ lock' = Free
    /\ UNCHANGED <<life, leader_conn, watching, daemon, registered, faults>>

\* What happens unasked: the server notices that a client is gone, supervisors
\* start workers, watchdogs ask every 4 to 6 seconds, shutdowns end.
LeadershipProgress ==
    \/ Reap
    \/ \E w \in Worker : BootPrimary(w) \/ BootStandby(w) \/ Promote(w) \/ Release(w)

-----------------------------------------------------------------------------
(* Properties.                                                             *)

LeadershipTypes ==
    /\ life \in [Worker -> {"down", "up", "stopping"}]
    /\ lock \in Worker \cup {Free, Ghost}
    /\ leader_conn \in [Worker -> {"none", "open", "broken"}]
    /\ watching \subseteq Worker /\ daemon \subseteq Worker
    /\ registered \in [Worker -> 0..1]
    /\ faults \in 0..MaxFaults

\* Two workers run a daemon only when all of them but one have lost the
\* connection that held the lock: neither a promotion, nor a restart, nor an
\* orderly shutdown lets two of them overlap.
OneDaemon ==
    Cardinality({w \in daemon : leader_conn[w] # "broken"}) <= 1

\* While an eligible worker watches, a daemon runs sooner or later, unless
\* every watchdog ends in an attempt that failed.
Failover ==
    watching \cap Eligible # {} ~> (daemon # {} \/ watching \cap Eligible = {})
=============================================================================
