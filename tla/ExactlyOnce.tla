----------------------------- MODULE ExactlyOnce -----------------------------
(***************************************************************************)
(* What the execution ledger promises for a set of messages: the effects   *)
(* of a message and the record of them appear in one step, nobody applies  *)
(* what is recorded, and no record is withdrawn.  Only when an execution   *)
(* of the message has been rolled back may it be applied unrecorded or     *)
(* again, or lose its record.  A message is settled (marked as answered)   *)
(* only after it was recorded, and for good.                               *)
(***************************************************************************)
EXTENDS Naturals

CONSTANT Msg

VARIABLES recorded, applied, settled, undone
vars == <<recorded, applied, settled, undone>>

\* an earlier release may have recorded and settled anything
Init ==
    /\ recorded \in SUBSET Msg /\ settled \in SUBSET Msg
    /\ applied = [m \in Msg |-> 0]
    /\ undone = {}

Apply(m) ==
    /\ m \notin recorded
    /\ recorded' = recorded \cup {m}
    /\ applied' = [applied EXCEPT ![m] = @ + 1]
    /\ UNCHANGED <<settled, undone>>

\* with or without a record
ApplyAnyhow(m) ==
    /\ m \in undone
    /\ applied' = [applied EXCEPT ![m] = @ + 1]
    /\ recorded' \in {recorded, recorded \cup {m}}
    /\ UNCHANGED <<settled, undone>>

Undo(m) ==
    /\ undone' = undone \cup {m}
    /\ UNCHANGED <<recorded, applied, settled>>

Withdraw(m) ==
    /\ m \in recorded \cap undone
    /\ recorded' = recorded \ {m}
    /\ UNCHANGED <<applied, settled, undone>>

Settle(m) ==
    /\ m \in recorded \cup undone
    /\ settled' = settled \cup {m}
    /\ UNCHANGED <<recorded, applied, undone>>

Next ==
    \E m \in Msg :
        Apply(m) \/ Undo(m) \/ ApplyAnyhow(m) \/ Withdraw(m) \/ Settle(m)

Spec == Init /\ [][Next]_vars

=============================================================================
