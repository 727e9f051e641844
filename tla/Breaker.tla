------------------------------- MODULE Breaker -------------------------------
(***************************************************************************)
(* The circuit breaker of the language model, shared by the workers through *)
(* two keys of Redis.  A call fails when what comes out of it cannot be     *)
(* used: extract_with_context itself answers every error of the service.    *)
(***************************************************************************)
EXTENDS Integers

CONSTANTS
    Call,          \* calls at the same time
    Threshold,     \* 3 failures
    MaxFailed, MaxLost   \* bounds: failed calls, calls to Redis that failed

ASSUME BreakerAssumption ==
    Threshold \in Nat \ {0} /\ MaxFailed \in Nat /\ MaxLost \in Nat

VARIABLES
    breaker,      \* closed, that is without key; open; or open for ever
    failures,     \* count, and whether it expires
    call,         \* where each call stands
    failed, lost

breakerVars == <<breaker, failures, call, failed, lost>>

NoFailures == [count |-> 0, expires |-> FALSE]

BreakerInit ==
    /\ breaker = "closed" /\ failures = NoFailures
    /\ call = [c \in Call |-> "idle"] /\ failed = 0 /\ lost = 0

At(c, from, to) == call[c] = from /\ call' = [call EXCEPT ![c] = to]

Lost == lost < MaxLost /\ lost' = lost + 1

\* Without Redis the model is asked.  While the breaker is open it is not, and
\* nothing changes.
Asks(c) ==
    /\ At(c, "idle", "asking")
    /\ (breaker = "closed" /\ UNCHANGED lost) \/ (breaker # "closed" /\ Lost)
    /\ UNCHANGED <<breaker, failures, failed>>

\* A success looks at the breaker, and forgets the failures if it is closed.
Succeeds(c) ==
    /\ call[c] = "asking"
    /\ \/ breaker = "closed" /\ At(c, "asking", "succeeded") /\ UNCHANGED lost
       \/ breaker # "closed" /\ At(c, "asking", "idle") /\ UNCHANGED lost
       \/ At(c, "asking", "idle") /\ Lost
    /\ UNCHANGED <<breaker, failures, failed>>

Forgets(c) ==
    /\ At(c, "succeeded", "idle")
    /\ \/ failures' = NoFailures /\ UNCHANGED lost
       \/ UNCHANGED failures /\ Lost
    /\ UNCHANGED <<breaker, failed>>

Fails(c) ==
    /\ failed < MaxFailed /\ failed' = failed + 1
    /\ LET counted == [failures EXCEPT !.count = @ + 1] IN
       \/ /\ At(c, "asking", IF counted.count >= Threshold THEN "failed" ELSE "idle")
          /\ failures' = [counted EXCEPT !.expires = @ \/ failures.count = 0]
          /\ UNCHANGED lost
       \/ /\ At(c, "asking", "idle") /\ Lost
          /\ failures' \in {failures, counted}
    /\ UNCHANGED breaker

\* Mutant: the key is set without a time to live.
OpensForEver(c) ==
    /\ At(c, "failed", "idle")
    /\ \/ breaker' = "ever" /\ UNCHANGED lost
       \/ UNCHANGED breaker /\ Lost
    /\ UNCHANGED <<failures, failed>>

Opens(c) ==
    /\ At(c, "failed", "idle")
    /\ \/ breaker' = "open" /\ UNCHANGED lost
       \/ UNCHANGED breaker /\ Lost
    /\ UNCHANGED <<failures, failed>>

\* After 60 seconds.  The failures stay for 300 from the first on: until a call
\* succeeds one more opens the breaker again.
OpenExpires ==
    /\ breaker = "open" /\ breaker' = "closed"
    /\ UNCHANGED <<failures, call, failed, lost>>

FailuresExpire ==
    /\ failures.expires /\ failures' = NoFailures
    /\ UNCHANGED <<breaker, call, failed, lost>>

BreakerNext ==
    \/ \E c \in Call : Asks(c) \/ Succeeds(c) \/ Forgets(c) \/ Fails(c) \/ Opens(c)
    \/ OpenExpires \/ FailuresExpire

-----------------------------------------------------------------------------
(* Properties.                                                             *)

BreakerTypeOK ==
    /\ breaker \in {"closed", "open", "ever"}
    /\ failures \in [count : 0..MaxFailed, expires : BOOLEAN]
    /\ failures.expires => failures.count > 0
    /\ call \in [Call -> {"idle", "asking", "succeeded", "failed"}]
    /\ failed \in 0..MaxFailed /\ lost \in 0..MaxLost

\* The breaker recovers by itself: when the calls no longer fail it closes in
\* the end and stays closed, even if the count of the failures lost its expiry
\* (_record_failure).
Recovers == <>[](breaker = "closed")
=============================================================================
