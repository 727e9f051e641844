------------------------------ MODULE MCIntake ------------------------------
(* What meets a message on its way in.  The parts share no variable; each is *)
(* explored by itself, from the initial state of the others.                 *)
EXTENDS RateLimiter, KycReview, Breaker

vars == <<rate, kycVars, breakerVars>>

Init == RateInit /\ KycInit /\ BreakerInit

Next ==
    \/ KycInit /\ BreakerInit /\ RateNext /\ UNCHANGED <<kycVars, breakerVars>>
    \/ RateInit /\ BreakerInit /\ KycNext /\ UNCHANGED <<rate, breakerVars>>
    \/ RateInit /\ KycInit /\ BreakerNext /\ UNCHANGED <<rate, kycVars>>

\* A key of Redis expires in the end.
Fairness == WF_vars(RateInit /\ KycInit /\ OpenExpires /\ UNCHANGED <<rate, kycVars>>)

Spec == Init /\ [][Next]_vars /\ Fairness

\* Types of all parts.
IntakeTypeOK == RateTypeOK /\ KycTypeOK /\ BreakerTypeOK
=============================================================================
