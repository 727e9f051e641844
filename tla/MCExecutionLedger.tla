-------------------------- MODULE MCExecutionLedger --------------------------
(* Instances of ExecutionLedger for TLC.                                   *)
EXTENDS ExecutionLedger

CONSTANTS m1, m2, m3, h1, h2, h3, d1, d2, p1, p2, u1

OneSender == [m \in Msg |-> u1]

NoRows == {}

\* Rows an earlier release, whose daemon still claimed and committed, leaves
\* behind: one in progress, one claimed for replay, one with a retry left, one
\* with none, and one that was executed and never answered.
Old(status, delivery, retry) ==
    [Absent EXCEPT !.status = status, !.delivery = delivery, !.retry = retry,
                   !.age = "zombie"]
OldRows ==
    {Old("IN_PROGRESS", "PENDING", 0), Old("EXECUTING", "EXECUTING", 1),
     Old("FAILED", "FAILED", MaxRetries - 1), Old("FAILED", "FAILED", MaxRetries),
     Old("SUCCESS", "READY", 0)}

\* h1 shares its worker with the first daemon, the other requests share one
TwoWorkers == [t \in Task |-> IF t \in {h1, d1} THEN p1 ELSE p2]

=============================================================================
