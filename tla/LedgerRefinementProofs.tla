------------------------ MODULE LedgerRefinementProofs ------------------------
(* ExecutionLedger implements ExactlyOnce, for every value of its constants.  *)
EXTENDS LedgerLocksProofs

-----------------------------------------------------------------------------
(* The abstract steps, in terms of the rows.                               *)

\* Rows that ExactlyOnce does not tell apart.
Alike(a, b) ==
    /\ a.delivered = b.delivered
    /\ a.status = "SUCCESS" <=> b.status = "SUCCESS"

\* Nothing but the row of m, and its effects, is seen to change.
OnlyRow(m) ==
    /\ \A n \in Text \ {m} : Alike(row[n], row'[n]) /\ effects'[n] = effects[n]
    /\ undone' = undone

LEMMA OnceStutters ==
    ASSUME \A n \in Text : Alike(row[n], row'[n]) /\ effects'[n] = effects[n],
           undone' \cap Text = undone \cap Text
    PROVE  UNCHANGED Once!vars
<1>1. {n \in Text : row'[n].status = "SUCCESS"} = {n \in Text : row[n].status = "SUCCESS"}
  BY DEF Alike
<1>2. {n \in Text : row'[n].delivered} = {n \in Text : row[n].delivered}
  BY Zenon DEF Alike
<1>3. [n \in Text |-> effects'[n]] = [n \in Text |-> effects[n]]
  OBVIOUS
<1> QED
  BY <1>1, <1>2, <1>3 DEF Once!vars

LEMMA OnceApplies ==
    ASSUME TypeOK, NEW m \in Text \ undone, OnlyRow(m),
           effects'[m] = effects[m] + 1, row'[m].delivered = row[m].delivered,
           row[m].status # "SUCCESS", row'[m].status = "SUCCESS"
    PROVE  Once!Next
<1>1. {n \in Text : row'[n].status = "SUCCESS"}
        = {n \in Text : row[n].status = "SUCCESS"} \cup {m}
  BY DEF OnlyRow, Alike
<1>2. {n \in Text : row'[n].delivered} = {n \in Text : row[n].delivered}
  BY Zenon DEF OnlyRow, Alike
<1>3. [n \in Text |-> effects'[n]] = [[n \in Text |-> effects[n]] EXCEPT ![m] = @ + 1]
  BY DEF OnlyRow
<1>4. Once!Apply(m)
  BY <1>1, <1>2, <1>3 DEF Once!Apply, OnlyRow
<1> QED
  BY <1>4 DEF Once!Next

LEMMA OnceAppliesAnyhow ==
    ASSUME TypeOK, NEW m \in Text \cap undone, OnlyRow(m),
           effects'[m] = effects[m] + 1, row'[m].delivered = row[m].delivered,
           row[m].status = "SUCCESS" => row'[m].status = "SUCCESS"
    PROVE  Once!Next
<1>1. {n \in Text : row'[n].status = "SUCCESS"}
        \in {{n \in Text : row[n].status = "SUCCESS"},
             {n \in Text : row[n].status = "SUCCESS"} \cup {m}}
  <2>1. CASE row'[m].status = "SUCCESS"
    <3>1. {n \in Text : row'[n].status = "SUCCESS"}
            = {n \in Text : row[n].status = "SUCCESS"} \cup {m}
      BY <2>1 DEF OnlyRow, Alike
    <3> QED BY <3>1
  <2>2. CASE row'[m].status # "SUCCESS"
    <3>1. {n \in Text : row'[n].status = "SUCCESS"}
            = {n \in Text : row[n].status = "SUCCESS"}
      BY <2>2 DEF OnlyRow, Alike
    <3> QED BY <3>1
  <2> QED BY <2>1, <2>2
<1>2. {n \in Text : row'[n].delivered} = {n \in Text : row[n].delivered}
  BY Zenon DEF OnlyRow, Alike
<1>3. [n \in Text |-> effects'[n]] = [[n \in Text |-> effects[n]] EXCEPT ![m] = @ + 1]
  BY DEF OnlyRow
<1>4. Once!ApplyAnyhow(m)
  BY <1>1, <1>2, <1>3 DEF Once!ApplyAnyhow, OnlyRow
<1> QED
  BY <1>4 DEF Once!Next

LEMMA OnceUndoes ==
    ASSUME NEW m \in Msg, UNCHANGED <<row, effects>>, undone' = undone \cup {m}
    PROVE  [Once!Next]_(Once!vars)
<1>1. CASE m \in Text
  <2>1. Once!Undo(m)
    BY <1>1 DEF Once!Undo
  <2> QED
    BY <1>1, <2>1 DEF Once!Next
<1>2. CASE m \notin Text
  <2>1. undone' \cap Text = undone \cap Text
    BY <1>2
  <2> QED
    BY <2>1, OnceStutters DEF Alike
<1> QED
  BY <1>1, <1>2

LEMMA OnceWithdraws ==
    ASSUME NEW m \in Text \cap undone, OnlyRow(m), effects'[m] = effects[m],
           row'[m].delivered = row[m].delivered, row'[m].status # "SUCCESS"
    PROVE  [Once!Next]_(Once!vars)
<1>1. CASE row[m].status = "SUCCESS"
  <2>1. {n \in Text : row'[n].status = "SUCCESS"}
          = {n \in Text : row[n].status = "SUCCESS"} \ {m}
    BY DEF OnlyRow, Alike
  <2>2. {n \in Text : row'[n].delivered} = {n \in Text : row[n].delivered}
    BY Zenon DEF OnlyRow, Alike
  <2>3. [n \in Text |-> effects'[n]] = [n \in Text |-> effects[n]]
    BY DEF OnlyRow
  <2>4. Once!Withdraw(m)
    BY <1>1, <2>1, <2>2, <2>3 DEF Once!Withdraw, OnlyRow
  <2> QED
    BY <2>4 DEF Once!Next
<1>2. CASE row[m].status # "SUCCESS"
  BY <1>2, OnceStutters DEF OnlyRow, Alike
<1> QED
  BY <1>1, <1>2

LEMMA OnceSettles ==
    ASSUME NEW m \in Text, OnlyRow(m), effects'[m] = effects[m],
           row'[m].status = row[m].status, row'[m].delivered = TRUE,
           m \in undone \/ row[m].status = "SUCCESS"
    PROVE  Once!Next
<1>1. {n \in Text : row'[n].status = "SUCCESS"} = {n \in Text : row[n].status = "SUCCESS"}
  BY DEF OnlyRow, Alike
<1>2. {n \in Text : row'[n].delivered} = {n \in Text : row[n].delivered} \cup {m}
  BY Zenon DEF OnlyRow, Alike
<1>3. [n \in Text |-> effects'[n]] = [n \in Text |-> effects[n]]
  BY DEF OnlyRow
<1>4. Once!Settle(m)
  BY <1>1, <1>2, <1>3 DEF Once!Settle, OnlyRow
<1> QED
  BY <1>4 DEF Once!Next

-----------------------------------------------------------------------------
(* The strengthening: what a task knows of rows it has read before.        *)

\* A row that is not there is not delivered.
AbsentBlank == \A m \in Msg : ~Exists(m) => ~row[m].delivered

Delivering(t, m) ==
    \/ pc[t] \in {"sending", "deliverMark"} /\ m \in batch[t]
    \/ pc[t] = "deliverMark" /\ m = cur[t]

\* The copy a request dispatches with is as good as the row, which it holds;
\* the row a request answers for, or a daemon delivers, is a success for good;
\* and what a daemon works on is there.
RefAt(t) ==
    /\ pc[t] = "dispatch" =>
         draft[t].status # "ABSENT" /\ Alike(draft[t], row[cur[t]])
    /\ t \in Handler /\ pc[t] \in {"suppressed", "send", "mark"} /\ resp[t] = "own" =>
         /\ Exists(cur[t])
         /\ cur[t] \in Text \ undone => row[cur[t]].status = "SUCCESS"
    /\ t \in Daemon => \A m \in Msg :
         /\ Delivering(t, m) \/ Replaying(t, m) => Exists(m)
         /\ Delivering(t, m) /\ m \in Text \ undone => row[m].status = "SUCCESS"

RefInv == AbsentBlank /\ \A t \in Task : RefAt(t)

\* What any step does to the rows: none goes away, none is delivered before it
\* exists, no success is withdrawn, and none that another task holds is changed.
Lawful(t) ==
    /\ undone \subseteq undone'
    /\ \A m \in Msg :
         /\ Exists(m) => Exists(m)'
         /\ Exists(m)' \/ row'[m].delivered = row[m].delivered
         /\ m \in Text \ undone' /\ row[m].status = "SUCCESS"
              => row'[m].status = "SUCCESS"
         /\ rowLock[m] \in Task \ {t} => Alike(row[m], row'[m])

Alone(t) ==
    \A s \in Task \ {t} :
        /\ pc'[s] = pc[s] /\ cur'[s] = cur[s] /\ draft'[s] = draft[s]
        /\ s \in Handler => resp'[s] = resp[s]
        /\ s \in Daemon => batch'[s] = batch[s]

LEMMA RefFrame ==
    ASSUME TypeOK, LockInv, RefInv, NEW t \in Task, Lawful(t), Alone(t), RefAt(t)'
    PROVE  RefInv'
<1>1. AbsentBlank'
  BY DEF RefInv, AbsentBlank, Lawful
<1>2. ASSUME NEW s \in Task \ {t} PROVE RefAt(s)'
  <2>1. RefAt(s) /\ LockAt(s)
    BY DEF RefInv, LockInv
  <2>2. /\ pc'[s] = pc[s] /\ cur'[s] = cur[s] /\ draft'[s] = draft[s]
        /\ s \in Handler => resp'[s] = resp[s]
        /\ s \in Daemon => batch'[s] = batch[s]
    BY DEF Alone
  <2>3. /\ pc[s] \in {"dispatch", "suppressed", "send", "mark"} => cur[s] \in Msg
        /\ pc[s] = "deliverMark" => cur[s] \in Msg
    BY ConstantAssumption DEF TypeOK, DaemonPC, HandlerPC, Task
  <2>4. pc[s] = "dispatch" => Alike(row[cur[s]], row'[cur[s]])
    BY <2>1, <2>3 DEF LockAt, RowPC, Lawful
  <2>5. pc'[s] = "dispatch" =>
            draft'[s].status # "ABSENT" /\ Alike(draft'[s], row'[cur'[s]])
    BY <2>1, <2>2, <2>4 DEF RefAt, Alike
  <2>6. s \in Handler /\ pc'[s] \in {"suppressed", "send", "mark"} /\ resp'[s] = "own" =>
         /\ Exists(cur[s])'
         /\ cur'[s] \in Text \ undone' => row'[cur'[s]].status = "SUCCESS"
    BY <2>1, <2>2, <2>3 DEF RefAt, Lawful, Exists, Text
  <2>7. ASSUME s \in Daemon, NEW m \in Msg
        PROVE  /\ Delivering(s, m)' \/ Replaying(s, m)' => Exists(m)'
               /\ Delivering(s, m)' /\ m \in Text \ undone' => row'[m].status = "SUCCESS"
    <3>1. Delivering(s, m)' = Delivering(s, m) /\ Replaying(s, m)' = Replaying(s, m)
      BY <2>2, <2>7 DEF Delivering, Replaying
    <3> QED
      BY <2>1, <2>7, <3>1 DEF RefAt, Lawful
  <2> QED
    BY <2>5, <2>6, <2>7 DEF RefAt
<1> QED
  BY <1>1, <1>2 DEF RefInv

\* A step that writes no row: only what it knows of its own is left to show.
LEMMA LawfulUnwritten ==
    ASSUME UNCHANGED row, undone \subseteq undone', NEW t
    PROVE  Lawful(t)
  BY DEF Lawful, Exists, Alike

LEMMA LawfulAlike ==
    ASSUME NEW t, undone \subseteq undone',
           \A m \in Msg : /\ Alike(row[m], row'[m])
                          /\ Exists(m) <=> Exists(m)'
    PROVE  Lawful(t)
  BY DEF Lawful, Alike

\* One that writes the row of m, on which nobody else has a lock.
LEMMA LawfulWrite ==
    ASSUME TypeOK, NEW t \in Task, NEW m \in Msg, NEW r, row' = [row EXCEPT ![m] = r],
           undone' = undone, rowLock[m] \notin Task \ {t},
           r.status # "ABSENT",
           m \in Text \ undone /\ row[m].status = "SUCCESS" => r.status = "SUCCESS"
    PROVE  Lawful(t)
  BY DEF Lawful, Exists, Alike, TypeOK

LEMMA RefGetOrCreateUser ==
    ASSUME TypeOK, LockInv, RefInv, NEW h \in Handler, GetOrCreateUser(h) PROVE RefInv'
<1>1. h \in Task
  BY DEF Task
<1>2. Lawful(h)
  BY LawfulUnwritten DEF GetOrCreateUser, ledger, history
<1>3. Alone(h)
  BY ConstantAssumption, <1>1
     DEF Alone, GetOrCreateUser, Goto, TypeOK, Task, local
<1>4. RefAt(h)'
  BY ConstantAssumption, <1>1
     DEF RefInv, RefAt, Delivering, Replaying, Exists, GetOrCreateUser, At,
         Goto, TypeOK, Task, HandlerPC, DaemonPC, local
<1> QED
  BY <1>1, <1>2, <1>3, <1>4, RefFrame

LEMMA RefApologised ==
    ASSUME TypeOK, LockInv, RefInv, NEW h \in Handler, Apologised(h) PROVE RefInv'
<1>1. h \in Task
  BY DEF Task
<1>2. Lawful(h)
  BY LawfulUnwritten DEF Apologised, ledger, history
<1>3. Alone(h)
  BY ConstantAssumption, <1>1
     DEF Alone, Apologised, Goto, TypeOK, Task, Forget
<1>4. RefAt(h)'
  BY ConstantAssumption, <1>1
     DEF RefInv, RefAt, Delivering, Replaying, Exists, Apologised, At, Goto,
         TypeOK, Task, HandlerPC, DaemonPC, Forget
<1> QED
  BY <1>1, <1>2, <1>3, <1>4, RefFrame

LEMMA RefRateLimited ==
    ASSUME TypeOK, LockInv, RefInv, NEW h \in Handler, RateLimited(h) PROVE RefInv'
<1>1. h \in Task
  BY DEF Task
<1>2. Lawful(h)
  BY LawfulUnwritten DEF RateLimited, ledger, history
<1>3. Alone(h)
  BY ConstantAssumption, <1>1
     DEF Alone, RateLimited, Goto, TypeOK, Task, Forget
<1>4. RefAt(h)'
  BY ConstantAssumption, <1>1
     DEF RefInv, RefAt, Delivering, Replaying, Exists, RateLimited, At, Goto,
         TypeOK, Task, HandlerPC, DaemonPC, Forget
<1> QED
  BY <1>1, <1>2, <1>3, <1>4, RefFrame

LEMMA RefExtracted ==
    ASSUME TypeOK, LockInv, RefInv, NEW h \in Handler, Extracted(h) PROVE RefInv'
<1>1. h \in Task
  BY DEF Task
<1>2. Lawful(h)
  BY LawfulUnwritten DEF Extracted, ledger, history
<1>3. Alone(h)
  BY ConstantAssumption, <1>1
     DEF Alone, Extracted, Goto, TypeOK, Task, local
<1>4. RefAt(h)'
  BY ConstantAssumption, <1>1
     DEF RefInv, RefAt, Delivering, Replaying, Exists, Extracted, At, Goto,
         TypeOK, Task, HandlerPC, DaemonPC, local
<1> QED
  BY <1>1, <1>2, <1>3, <1>4, RefFrame

LEMMA RefPhase1Fails ==
    ASSUME TypeOK, LockInv, RefInv, NEW h \in Handler, Phase1Fails(h) PROVE RefInv'
<1>1. h \in Task
  BY DEF Task
<1>2. Lawful(h)
  BY LawfulUnwritten DEF Phase1Fails, ledger, history
<1>3. Alone(h)
  BY ConstantAssumption, <1>1
     DEF Alone, Phase1Fails, Goto, TypeOK, Task, local
<1>4. RefAt(h)'
  BY ConstantAssumption, <1>1
     DEF RefInv, RefAt, Delivering, Replaying, Exists, Phase1Fails, At, Goto,
         TypeOK, Task, HandlerPC, DaemonPC, local
<1> QED
  BY <1>1, <1>2, <1>3, <1>4, RefFrame

LEMMA RefLockUserForDispatch ==
    ASSUME TypeOK, LockInv, RefInv, NEW h \in Handler, LockUserForDispatch(h) PROVE RefInv'
<1>1. h \in Task
  BY DEF Task
<1>2. Lawful(h)
  BY LawfulUnwritten DEF LockUserForDispatch, ledger, history
<1>3. Alone(h)
  BY ConstantAssumption, <1>1
     DEF Alone, LockUserForDispatch, Goto, TypeOK, Task, ledger
<1>4. RefAt(h)'
  BY ConstantAssumption, <1>1
     DEF RefInv, RefAt, Delivering, Replaying, Exists, LockUserForDispatch,
         At, Goto, TypeOK, Task, HandlerPC, DaemonPC, ledger
<1> QED
  BY <1>1, <1>2, <1>3, <1>4, RefFrame

LEMMA RefKycDownloaded ==
    ASSUME TypeOK, LockInv, RefInv, NEW h \in Handler, KycDownloaded(h) PROVE RefInv'
<1>1. h \in Task
  BY DEF Task
<1>2. Lawful(h)
  BY LawfulUnwritten DEF KycDownloaded, ledger, history
<1>3. Alone(h)
  BY ConstantAssumption, <1>1
     DEF Alone, KycDownloaded, Goto, TypeOK, Task, local, ledger
<1>4. RefAt(h)'
  BY ConstantAssumption, <1>1
     DEF RefInv, RefAt, Delivering, Replaying, Exists, KycDownloaded, At,
         Goto, TypeOK, Task, HandlerPC, DaemonPC, local, ledger
<1> QED
  BY <1>1, <1>2, <1>3, <1>4, RefFrame

LEMMA RefKycStore ==
    ASSUME TypeOK, LockInv, RefInv, NEW h \in Handler, KycStore(h) PROVE RefInv'
<1>1. h \in Task
  BY DEF Task
<1>2. Lawful(h)
  BY LawfulUnwritten DEF KycStore, ledger, history
<1>3. Alone(h)
  BY ConstantAssumption, <1>1
     DEF Alone, KycStore, Goto, TypeOK, Task, local, ledger
<1>4. RefAt(h)'
  BY ConstantAssumption, <1>1
     DEF RefInv, RefAt, Delivering, Replaying, Exists, KycStore, At, Goto,
         TypeOK, Task, HandlerPC, DaemonPC, local, ledger
<1> QED
  BY <1>1, <1>2, <1>3, <1>4, RefFrame

LEMMA RefSafeFallback ==
    ASSUME TypeOK, LockInv, RefInv, NEW h \in Handler, SafeFallback(h) PROVE RefInv'
<1>1. h \in Task
  BY DEF Task
<1>2. Lawful(h)
  BY LawfulUnwritten DEF SafeFallback, ledger, history
<1>3. Alone(h)
  BY ConstantAssumption, <1>1
     DEF Alone, SafeFallback, Goto, TypeOK, Task, Forget, ledger
<1>4. RefAt(h)'
  BY ConstantAssumption, <1>1
     DEF RefInv, RefAt, Delivering, Replaying, Exists, SafeFallback, At, Goto,
         TypeOK, Task, HandlerPC, DaemonPC, Forget, ledger
<1> QED
  BY <1>1, <1>2, <1>3, <1>4, RefFrame

LEMMA RefSendResponse ==
    ASSUME TypeOK, LockInv, RefInv, NEW h \in Handler, SendResponse(h) PROVE RefInv'
<1>1. h \in Task
  BY DEF Task
<1>2. Lawful(h)
  BY LawfulUnwritten DEF SendResponse, ledger, history
<1>3. Alone(h)
  BY ConstantAssumption, <1>1
     DEF Alone, SendResponse, Goto, TypeOK, Task, Forget, ledger
<1>4. RefAt(h)'
  BY ConstantAssumption, <1>1
     DEF RefInv, RefAt, Delivering, Replaying, Exists, SendResponse, At, Goto,
         TypeOK, Task, HandlerPC, DaemonPC, Forget, ledger
<1> QED
  BY <1>1, <1>2, <1>3, <1>4, RefFrame

LEMMA RefWakeUp ==
    ASSUME TypeOK, LockInv, RefInv, NEW d \in Daemon, WakeUp(d) PROVE RefInv'
<1>1. d \in Task
  BY DEF Task
<1>2. Lawful(d)
  BY LawfulUnwritten DEF WakeUp, ledger, history
<1>3. Alone(d)
  BY ConstantAssumption, <1>1
     DEF Alone, WakeUp, Goto, TypeOK, Task, ledger, local
<1>4. RefAt(d)'
  BY ConstantAssumption, <1>1
     DEF RefInv, RefAt, Delivering, Replaying, Exists, WakeUp, At, Goto,
         TypeOK, Task, HandlerPC, DaemonPC, ledger, local
<1> QED
  BY <1>1, <1>2, <1>3, <1>4, RefFrame

LEMMA RefScanAndReplay ==
    ASSUME TypeOK, LockInv, RefInv, NEW d \in Daemon, ScanAndReplay(d) PROVE RefInv'
<1>1. d \in Task
  BY DEF Task
<1>2. Lawful(d)
  BY LawfulUnwritten DEF ScanAndReplay, ledger, history
<1>3. Alone(d)
  BY ConstantAssumption, <1>1
     DEF Alone, ScanAndReplay, Goto, TypeOK, Task, local, Claim,
         ReplayCandidates
<1>4. RefAt(d)'
  BY ConstantAssumption, <1>1
     DEF RefInv, RefAt, Delivering, Replaying, Exists, ScanAndReplay, At,
         Goto, TypeOK, Task, HandlerPC, DaemonPC, local, Claim,
         ReplayCandidates
<1> QED
  BY <1>1, <1>2, <1>3, <1>4, RefFrame

LEMMA RefReplayNext ==
    ASSUME TypeOK, LockInv, RefInv, NEW d \in Daemon, ReplayNext(d) PROVE RefInv'
<1>1. d \in Task
  BY DEF Task
<1>2. Lawful(d)
  BY LawfulUnwritten DEF ReplayNext, ledger, history
<1>3. Alone(d)
  BY ConstantAssumption, <1>1
     DEF Alone, ReplayNext, Goto, TypeOK, Task, Take
<1>4. RefAt(d)'
  BY ConstantAssumption, <1>1
     DEF RefInv, RefAt, Delivering, Replaying, Exists, ReplayNext, At, Goto,
         TypeOK, Task, HandlerPC, DaemonPC, Take
<1> QED
  BY <1>1, <1>2, <1>3, <1>4, RefFrame

LEMMA RefReplayDone ==
    ASSUME TypeOK, LockInv, RefInv, NEW d \in Daemon, ReplayDone(d) PROVE RefInv'
<1>1. d \in Task
  BY DEF Task
<1>2. Lawful(d)
  BY LawfulUnwritten DEF ReplayDone, ledger, history
<1>3. Alone(d)
  BY ConstantAssumption, <1>1
     DEF Alone, ReplayDone, Goto, TypeOK, Task, Forget
<1>4. RefAt(d)'
  BY ConstantAssumption, <1>1
     DEF RefInv, RefAt, Delivering, Replaying, Exists, ReplayDone, At, Goto,
         TypeOK, Task, HandlerPC, DaemonPC, Forget
<1> QED
  BY <1>1, <1>2, <1>3, <1>4, RefFrame

LEMMA RefLoadFailedReplay ==
    ASSUME TypeOK, LockInv, RefInv, NEW d \in Daemon, LoadFailedReplay(d) PROVE RefInv'
<1>1. d \in Task
  BY DEF Task
<1>2. Lawful(d)
  BY LawfulUnwritten DEF LoadFailedReplay, ledger, history
<1>3. Alone(d)
  BY ConstantAssumption, <1>1
     DEF Alone, LoadFailedReplay, Goto, TypeOK, Task, ledger
<1>4. RefAt(d)'
  BY ConstantAssumption, <1>1
     DEF RefInv, RefAt, Delivering, Replaying, Exists, LoadFailedReplay, At,
         Goto, TypeOK, Task, HandlerPC, DaemonPC, ledger
<1> QED
  BY <1>1, <1>2, <1>3, <1>4, RefFrame

LEMMA RefScanAndDeliver ==
    ASSUME TypeOK, LockInv, RefInv, NEW d \in Daemon, ScanAndDeliver(d) PROVE RefInv'
<1>1. d \in Task
  BY DEF Task
<1>2. Lawful(d)
  BY LawfulUnwritten DEF ScanAndDeliver, ledger, history
<1>3. Alone(d)
  BY ConstantAssumption, <1>1
     DEF Alone, ScanAndDeliver, Goto, TypeOK, Task, local, Claim, Undelivered
<1>4. RefAt(d)'
  BY ConstantAssumption, <1>1
     DEF RefInv, RefAt, Delivering, Replaying, Exists, ScanAndDeliver, At,
         Goto, TypeOK, Task, HandlerPC, DaemonPC, local, Claim, Undelivered
<1> QED
  BY <1>1, <1>2, <1>3, <1>4, RefFrame

LEMMA RefDeliverDone ==
    ASSUME TypeOK, LockInv, RefInv, NEW d \in Daemon, DeliverDone(d) PROVE RefInv'
<1>1. d \in Task
  BY DEF Task
<1>2. Lawful(d)
  BY LawfulUnwritten DEF DeliverDone, ledger, history
<1>3. Alone(d)
  BY ConstantAssumption, <1>1
     DEF Alone, DeliverDone, Goto, TypeOK, Task, Forget
<1>4. RefAt(d)'
  BY ConstantAssumption, <1>1
     DEF RefInv, RefAt, Delivering, Replaying, Exists, DeliverDone, At, Goto,
         TypeOK, Task, HandlerPC, DaemonPC, Forget
<1> QED
  BY <1>1, <1>2, <1>3, <1>4, RefFrame

\* A daemon takes the next record of what it delivers.
LEMMA RefTake ==
    ASSUME TypeOK, RefInv, NEW d \in Daemon, NEW m \in Msg, pc[d] = "sending",
           m \in batch[d], Take(d, m), pc'[d] \in {"sending", "deliverMark"},
           UNCHANGED <<row, undone>>
    PROVE  RefAt(d)'
<1>1. d \in Task /\ d \notin Handler
  BY ConstantAssumption DEF Task
<1>2. cur'[d] = m /\ batch'[d] = batch[d] \ {m}
  BY <1>1 DEF Take, TypeOK
<1>3. \A n \in Msg : Delivering(d, n)' => Delivering(d, n)
  BY <1>2 DEF Delivering
<1>4. \A n \in Msg : ~Replaying(d, n)'
  BY DEF Replaying
<1> QED
  BY <1>1, <1>3, <1>4 DEF RefInv, RefAt, Exists

LEMMA RefDeliverSent ==
    ASSUME TypeOK, LockInv, RefInv, NEW d \in Daemon, NEW m \in Msg, DeliverSent(d, m) PROVE RefInv'
<1>1. d \in Task
  BY DEF Task
<1>2. Lawful(d)
  BY LawfulUnwritten DEF DeliverSent, ledger, history
<1>3. Alone(d)
  BY ConstantAssumption, <1>1
     DEF Alone, DeliverSent, Goto, TypeOK, Task, Take, ledger
<1>4. /\ pc[d] = "sending" /\ m \in batch[d] /\ Take(d, m)
      /\ pc'[d] \in {"sending", "deliverMark"} /\ UNCHANGED <<row, undone>>
  BY <1>1 DEF DeliverSent, At, Goto, TypeOK, ledger, history
<1>5. RefAt(d)'
  BY <1>4, RefTake
<1> QED
  BY <1>1, <1>2, <1>3, <1>5, RefFrame

LEMMA RefDeliverSkipped ==
    ASSUME TypeOK, LockInv, RefInv, NEW d \in Daemon, NEW m \in Msg, DeliverSkipped(d, m) PROVE RefInv'
<1>1. d \in Task
  BY DEF Task
<1>2. Lawful(d)
  BY LawfulUnwritten DEF DeliverSkipped, ledger, history
<1>3. Alone(d)
  BY ConstantAssumption, <1>1
     DEF Alone, DeliverSkipped, Goto, TypeOK, Task, Take, ledger
<1>4. /\ pc[d] = "sending" /\ m \in batch[d] /\ Take(d, m)
      /\ pc'[d] \in {"sending", "deliverMark"} /\ UNCHANGED <<row, undone>>
  BY <1>1 DEF DeliverSkipped, At, Goto, TypeOK, ledger, history
<1>5. RefAt(d)'
  BY <1>4, RefTake
<1> QED
  BY <1>1, <1>2, <1>3, <1>5, RefFrame

LEMMA RefDeliverGivenUp ==
    ASSUME TypeOK, LockInv, RefInv, NEW d \in Daemon, NEW m \in Msg, DeliverGivenUp(d, m) PROVE RefInv'
<1>1. d \in Task
  BY DEF Task
<1>2. Lawful(d)
  BY LawfulUnwritten DEF DeliverGivenUp, ledger, history
<1>3. Alone(d)
  BY ConstantAssumption, <1>1
     DEF Alone, DeliverGivenUp, Goto, TypeOK, Task, Take, ledger
<1>4. /\ pc[d] = "sending" /\ m \in batch[d] /\ Take(d, m)
      /\ pc'[d] \in {"sending", "deliverMark"} /\ UNCHANGED <<row, undone>>
  BY <1>1 DEF DeliverGivenUp, At, Goto, TypeOK, ledger, history
<1>5. RefAt(d)'
  BY <1>4, RefTake
<1> QED
  BY <1>1, <1>2, <1>3, <1>5, RefFrame

LEMMA RefReceive ==
    ASSUME TypeOK, LockInv, RefInv, NEW h \in Handler, NEW m \in Msg, Receive(h, m) PROVE RefInv'
<1>1. h \in Task
  BY DEF Task
<1>2. Lawful(h)
  BY LawfulUnwritten DEF Receive, ledger, history
<1>3. Alone(h)
  BY ConstantAssumption, <1>1
     DEF Alone, Receive, Goto, TypeOK, Task, ledger
<1>4. RefAt(h)'
  BY ConstantAssumption, <1>1
     DEF RefInv, RefAt, Delivering, Replaying, Exists, Receive, At, Goto,
         TypeOK, Task, HandlerPC, DaemonPC, ledger
<1> QED
  BY <1>1, <1>2, <1>3, <1>4, RefFrame

-----------------------------------------------------------------------------
(* The steps that write a row, or begin or end the execution of one.       *)

LEMMA RowChanges ==
    ASSUME NEW r \in Row
    PROVE  /\ Restarted(r).status = "IN_PROGRESS" /\ Restarted(r).delivered = r.delivered
           /\ Reclaimed(r).status = "IN_PROGRESS" /\ Reclaimed(r).delivered = r.delivered
           /\ Completed(r).status = "SUCCESS" /\ Completed(r).delivered = r.delivered
           /\ Failed(r).status = "FAILED" /\ Failed(r).delivered = r.delivered
           /\ Aged(r).status = r.status /\ Aged(r).delivered = r.delivered
           /\ Skipped(r).status = r.status /\ Skipped(r).delivered = r.delivered
           /\ Delivered(r).status = r.status /\ Delivered(r).delivered = TRUE
  BY DEF Row, Restarted, Reclaimed, Completed, Failed, Aged, Skipped, Delivered

LEMMA FlushedDelivered ==
    ASSUME NEW now \in Row, NEW loaded \in Row
    PROVE  /\ [Flushed(now, loaded, Buried(loaded)) EXCEPT !.age = "fresh"].delivered
                = now.delivered
           /\ [Flushed(now, loaded, ReplayFailed(loaded))
                 EXCEPT !.attempted = TRUE, !.age = "fresh"].delivered = now.delivered
  BY DEF Row, Flushed, Buried, ReplayFailed

LEMMA RefStartSelect ==
    ASSUME TypeOK, LockInv, RefInv, NEW h \in Handler, StartSelect(h) PROVE RefInv'
<1>1. h \in Task /\ h \notin Daemon
  BY ConstantAssumption DEF Task
<1>2. Lawful(h)
  BY LawfulUnwritten DEF StartSelect, ledger, history
<1>3. Alone(h)
  BY ConstantAssumption, <1>1
     DEF Alone, StartSelect, Goto, TypeOK, Task, Forget, local
<1>4. cur[h] \in Msg /\ row[cur[h]] \in Row /\ undone' = undone /\ row' = row
  BY <1>1 DEF StartSelect, At, TypeOK, ledger, history
<1>5. ASSUME pc'[h] = "dispatch" PROVE RefAt(h)'
  <2>1. /\ cur'[h] = cur[h] /\ draft'[h] = Restarted(row[cur[h]])
        /\ StartRestarts(row[cur[h]])
    BY <1>1, <1>5 DEF StartSelect, Goto, Forget, TypeOK, local
  <2> QED
    <3>1. draft'[h].status = "IN_PROGRESS" /\ draft'[h].delivered = row[cur[h]].delivered
      <4>1. /\ Restarted(row[cur[h]]).status = "IN_PROGRESS"
            /\ Restarted(row[cur[h]]).delivered = row[cur[h]].delivered
        BY <1>4, RowChanges, Zenon
      <4> QED
        BY <2>1, <4>1, Zenon
    <3>2. row[cur[h]].status # "SUCCESS"
      BY <2>1 DEF StartRestarts
    <3>3. Alike(draft'[h], row[cur[h]])
      BY <3>1, <3>2, Zenon DEF Alike
    <3> QED
      BY <1>1, <1>4, <1>5, <2>1, <3>1, <3>3 DEF RefAt
<1>6. ASSUME pc'[h] # "dispatch" PROVE RefAt(h)'
  <2>1. pc'[h] \in {"insert", "idle", "kyc"} \/ (pc'[h] = "send" /\ resp'[h] = "cached")
    BY <1>1, <1>6 DEF StartSelect, Goto, Worker, TypeOK
  <2> QED
    BY <1>1, <1>6, <2>1 DEF RefAt
<1> QED
  BY <1>1, <1>2, <1>3, <1>5, <1>6, RefFrame

LEMMA RefStartInsert ==
    ASSUME TypeOK, LockInv, RefInv, NEW h \in Handler, StartInsert(h) PROVE RefInv'
<1>1. h \in Task /\ h \notin Daemon
  BY ConstantAssumption DEF Task
<1>2. Lawful(h)
  BY LawfulUnwritten DEF StartInsert, history
<1>3. Alone(h)
  BY ConstantAssumption, <1>1 DEF Alone, StartInsert, Goto, TypeOK, Task
<1>4. /\ cur[h] \in Msg /\ cur'[h] = cur[h] /\ row' = row
      /\ draft'[h] = IF Exists(cur[h]) THEN row[cur[h]] ELSE NewRow
  BY <1>1 DEF StartInsert, At, TypeOK
<1>5. Alike(draft'[h], row[cur[h]]) /\ draft'[h].status # "ABSENT"
  <2>1. CASE Exists(cur[h])
    BY <1>4, <2>1 DEF Alike, Exists
  <2>2. CASE ~Exists(cur[h])
    <3>1. draft'[h] = NewRow /\ row[cur[h]].delivered = FALSE
      BY <1>1, <1>4, <2>2 DEF RefInv, AbsentBlank, TypeOK, Row
    <3> QED
      <4>1. NewRow.delivered = FALSE /\ NewRow.status = "IN_PROGRESS"
        BY DEF NewRow
      <4>2. row[cur[h]].status = "ABSENT"
        BY <2>2 DEF Exists
      <4>3. Alike(NewRow, row[cur[h]])
        BY <3>1, <4>1, <4>2, Zenon DEF Alike
      <4> QED
        BY <3>1, <4>1, <4>3
  <2> QED BY <2>1, <2>2
<1>6. pc'[h] \in {"kyc", "dispatch"}
  BY <1>1 DEF StartInsert, Goto, Worker, TypeOK
<1>7. RefAt(h)'
  BY <1>1, <1>4, <1>5, <1>6 DEF RefAt
<1> QED
  BY <1>1, <1>2, <1>3, <1>7, RefFrame

\* The row an execution commits, and what it was before.
LEMMA DispatchRow ==
    ASSUME TypeOK, SafeInv, LockInv, RefInv, NEW h \in Handler, Dispatch(h)
    PROVE  /\ cur[h] \in Text /\ rowLock[cur[h]] = h /\ UNCHANGED <<cur, undone>>
           /\ effects' = [effects EXCEPT ![cur[h]] = @ + 1]
           /\ pc'[h] = "send"
           /\ \E r \in Row : /\ row' = [row EXCEPT ![cur[h]] = r]
                             /\ r.delivered = row[cur[h]].delivered
                             /\ r.status = "SUCCESS" \/ Exists(cur[h])
                             /\ r.status # "ABSENT"
                             /\ row[cur[h]].status = "SUCCESS" => r.status = "SUCCESS"
                             /\ resp'[h] = "own" => r.status = "SUCCESS"
           /\ cur[h] \notin undone => row[cur[h]].status # "SUCCESS" /\ ~Exists(cur[h])
<1>1. h \in Task /\ pc[h] = "dispatch" /\ cur[h] \in Text /\ draft[h] \in Row
  BY DEF Dispatch, At, SafeInv, Routes, TypeOK, Task
<1>2. /\ rowLock[cur[h]] = h
      /\ draft[h].status # "ABSENT" /\ Alike(draft[h], row[cur[h]])
  BY <1>1 DEF LockInv, LockAt, RowPC, RefInv, RefAt
<1>3. Completed(draft[h]) \in Row
  BY <1>1, RowOps
<1>4. PICK found \in BOOLEAN :
        /\ CommitExecution(h, IF found THEN Completed(draft[h]) ELSE draft[h])
        /\ resp' = [resp EXCEPT ![h] = IF found THEN "own" ELSE "unmarked"]
        /\ ~Exists(cur[h]) => found
  BY DEF Dispatch, FoundByKey
<1>5. cur[h] \notin undone => row[cur[h]].status # "SUCCESS" /\ ~Exists(cur[h])
  BY <1>1 DEF SafeInv, FirstDelivery, Unrecorded, InFlight, Executing, Exists, Text
<1>6. /\ UNCHANGED <<cur, undone>> /\ pc'[h] = "send"
      /\ effects' = [effects EXCEPT ![cur[h]] = @ + 1]
  BY <1>1, <1>4 DEF Dispatch, CommitExecution, Goto, TypeOK
<1>7. CASE found
  <2>1. row' = [row EXCEPT ![cur[h]] = Completed(draft[h])]
    BY <1>4, <1>7 DEF CommitExecution
  <2>2. /\ Completed(draft[h]).status = "SUCCESS"
        /\ Completed(draft[h]).delivered = draft[h].delivered
    BY <1>1, RowChanges, Zenon
  <2>3. Completed(draft[h]).delivered = row[cur[h]].delivered
    BY <1>2, <2>2, Zenon DEF Alike
  <2> QED
    BY <1>1, <1>2, <1>3, <1>5, <1>6, <2>1, <2>2, <2>3
<1>8. CASE ~found
  <2>1. row' = [row EXCEPT ![cur[h]] = draft[h]] /\ resp'[h] = "unmarked"
    BY <1>1, <1>4, <1>8 DEF CommitExecution, TypeOK
  <2> QED
    BY <1>1, <1>2, <1>4, <1>5, <1>6, <1>8, <2>1 DEF Alike
<1> QED
  BY <1>7, <1>8

LEMMA RefDispatch ==
    ASSUME TypeOK, SafeInv, LockInv, RefInv, NEW h \in Handler, Dispatch(h) PROVE RefInv'
<1>1. h \in Task /\ h \notin Daemon /\ cur[h] \in Msg
  BY DispatchRow, ConstantAssumption DEF Task, Text
<1>2. PICK r \in Row : /\ row' = [row EXCEPT ![cur[h]] = r]
                       /\ r.delivered = row[cur[h]].delivered
                       /\ r.status # "ABSENT"
                       /\ row[cur[h]].status = "SUCCESS" => r.status = "SUCCESS"
                       /\ resp'[h] = "own" => r.status = "SUCCESS"
  BY DispatchRow
<1>3. /\ rowLock[cur[h]] = h /\ UNCHANGED <<cur, undone>> /\ pc'[h] = "send"
  BY DispatchRow
<1>4. Lawful(h)
  BY <1>1, <1>2, <1>3, LawfulWrite
<1>5. Alone(h)
  BY ConstantAssumption, <1>1 DEF Alone, Dispatch, Goto, TypeOK, Task
<1>6. row'[cur[h]] = r
  BY <1>1, <1>2 DEF TypeOK
<1>7. RefAt(h)'
  BY <1>1, <1>2, <1>3, <1>6 DEF RefAt, Exists
<1> QED
  BY <1>1, <1>4, <1>5, <1>7, RefFrame

LEMMA RefDispatchFails ==
    ASSUME TypeOK, LockInv, RefInv, NEW h \in Handler, DispatchFails(h) PROVE RefInv'
<1>1. h \in Task /\ h \notin Daemon
  BY ConstantAssumption DEF Task
<1>2. Lawful(h)
  BY LawfulUnwritten DEF DispatchFails, Rollback
<1>3. Alone(h)
  BY ConstantAssumption, <1>1 DEF Alone, DispatchFails, Rollback, Goto, TypeOK, Task
<1>4. RefAt(h)'
  BY <1>1 DEF RefAt, DispatchFails, Rollback, Goto, TypeOK
<1> QED
  BY <1>1, <1>2, <1>3, <1>4, RefFrame

LEMMA RefLaneTaken ==
    ASSUME TypeOK, LockInv, RefInv, NEW h \in Handler, LaneTaken(h) PROVE RefInv'
<1>1. h \in Task /\ h \notin Daemon /\ cur[h] \in Msg
  BY ConstantAssumption DEF Task, LaneTaken, At, TypeOK
<1>2. Lawful(h)
  BY LawfulUnwritten DEF LaneTaken, Rollback
<1>3. Alone(h)
  BY ConstantAssumption, <1>1 DEF Alone, LaneTaken, Rollback, Goto, TypeOK, Task
<1>4. /\ pc'[h] = "suppressed" /\ cur'[h] = cur[h] /\ cur[h] \in undone' /\ row' = row
      /\ resp'[h] = "own" => Exists(cur[h])
  BY <1>1 DEF LaneTaken, Rollback, Goto, FoundByKey, TypeOK
<1>5. RefAt(h)'
  BY <1>1, <1>4 DEF RefAt, Exists
<1> QED
  BY <1>1, <1>2, <1>3, <1>5, RefFrame

\* The row that is committed after the dispatcher's own rollback, if any.
LEMMA SuppressedRow ==
    ASSUME TypeOK, SafeInv, LockInv, RefInv, NEW h \in Handler, DispatchSuppressed(h)
    PROVE  /\ cur[h] \in Text \cap undone /\ pc'[h] = "send"
           /\ UNCHANGED <<cur, undone, resp>>
           /\ effects' = [effects EXCEPT ![cur[h]] = @ + 1]
           /\ \/ row' = row /\ resp[h] # "own"
              \/ /\ row' = [row EXCEPT ![cur[h]] = Completed(@)]
                 /\ Exists(cur[h]) /\ rowLock[cur[h]] \notin Task \ {h}
<1>1. h \in Task /\ pc[h] = "suppressed" /\ cur[h] \in Text \cap undone
  BY DEF DispatchSuppressed, At, SafeInv, Routes, Task
<1>2. Exists(cur[h]) => rowLock[cur[h]] \notin Task \ {h}
  BY <1>1 DEF DispatchSuppressed, At, WaitsFor, WaitsForRow
<1>3. resp[h] = "own" => Exists(cur[h])
  BY <1>1 DEF RefInv, RefAt
<1>4. PICK found \in IF resp[h] = "own" THEN {TRUE} ELSE FoundByKey(cur[h]) :
        row' = IF found THEN [row EXCEPT ![cur[h]] = Completed(@)] ELSE row
  BY DEF DispatchSuppressed
<1>5. found \in BOOLEAN /\ (found => Exists(cur[h])) /\ (resp[h] = "own" => found)
  BY <1>3, <1>4 DEF FoundByKey
<1>6. /\ UNCHANGED <<cur, undone, resp>> /\ pc'[h] = "send"
      /\ effects' = [effects EXCEPT ![cur[h]] = @ + 1]
  BY <1>1 DEF DispatchSuppressed, Goto, TypeOK, local
<1> QED
  BY <1>1, <1>2, <1>4, <1>5, <1>6

LEMMA RefDispatchSuppressed ==
    ASSUME TypeOK, SafeInv, LockInv, RefInv, NEW h \in Handler, DispatchSuppressed(h)
    PROVE  RefInv'
<1>1. h \in Task /\ h \notin Daemon /\ cur[h] \in Msg /\ row[cur[h]] \in Row
  BY SuppressedRow, ConstantAssumption DEF Task, Text, TypeOK
<1>2. Lawful(h)
  <2>1. CASE row' = row
    BY <2>1, SuppressedRow, LawfulUnwritten
  <2>2. CASE row' = [row EXCEPT ![cur[h]] = Completed(@)]
             /\ rowLock[cur[h]] \notin Task \ {h}
    <3>1. row' = [row EXCEPT ![cur[h]] = Completed(row[cur[h]])]
      BY <2>2
    <3>2. Completed(row[cur[h]]).status = "SUCCESS"
      BY <1>1, RowChanges, Zenon
    <3> QED
      BY <1>1, <2>2, <3>1, <3>2, SuppressedRow, LawfulWrite
  <2> QED
    BY <2>1, <2>2, SuppressedRow
<1>3. Alone(h)
  BY ConstantAssumption, <1>1 DEF Alone, DispatchSuppressed, Goto, TypeOK, Task, local
<1>4. resp[h] = "own" => row'[cur[h]].status = "SUCCESS"
  <2> SUFFICES ASSUME resp[h] = "own" PROVE row'[cur[h]].status = "SUCCESS"
    OBVIOUS
  <2>1. row' = [row EXCEPT ![cur[h]] = Completed(row[cur[h]])]
    BY SuppressedRow
  <2>2. row'[cur[h]] = Completed(row[cur[h]])
    BY <1>1, <2>1 DEF TypeOK
  <2>3. Completed(row[cur[h]]).status = "SUCCESS"
    BY <1>1, RowChanges, Zenon
  <2> QED
    BY <2>2, <2>3, Zenon
<1>5. RefAt(h)'
  BY <1>1, <1>4, SuppressedRow DEF RefAt, Exists
<1> QED
  BY <1>1, <1>2, <1>3, <1>5, RefFrame

LEMMA RefKycCommit ==
    ASSUME TypeOK, SafeInv, LockInv, RefInv, NEW h \in Handler, KycCommit(h) PROVE RefInv'
<1>1. h \in Task /\ h \notin Daemon /\ cur[h] \in Media /\ cur[h] \in Msg /\ draft[h] \in Row
  BY ConstantAssumption DEF Task, KycCommit, At, SafeInv, Routes, TypeOK
<1>2. rowLock[cur[h]] = h
  BY <1>1 DEF KycCommit, At, LockInv, LockAt, RowPC
<1>3. Completed(draft[h]) \in Row
  BY <1>1, RowOps
<1>4. Delivered(Completed(draft[h])).status = "SUCCESS"
  <2>1. Delivered(Completed(draft[h])).status = Completed(draft[h]).status
    BY <1>3, RowChanges, Zenon
  <2>2. Completed(draft[h]).status = "SUCCESS"
    BY <1>1, RowChanges, Zenon
  <2> QED
    BY <2>1, <2>2
<1>5. row' = [row EXCEPT ![cur[h]] = Delivered(Completed(draft[h]))] /\ undone' = undone
  BY DEF KycCommit, CommitExecution
<1>6. Lawful(h)
  BY <1>1, <1>2, <1>4, <1>5, LawfulWrite
<1>7. Alone(h)
  BY ConstantAssumption, <1>1 DEF Alone, KycCommit, Goto, Forget, TypeOK, Task
<1>8. RefAt(h)'
  BY <1>1 DEF RefAt, KycCommit, Goto, TypeOK
<1> QED
  BY <1>1, <1>6, <1>7, <1>8, RefFrame

LEMMA RefKycFails ==
    ASSUME TypeOK, LockInv, RefInv, NEW h \in Handler, KycFails(h) PROVE RefInv'
<1>1. h \in Task /\ h \notin Daemon
  BY ConstantAssumption DEF Task
<1>2. Lawful(h)
  BY LawfulUnwritten DEF KycFails, Rollback
<1>3. Alone(h)
  BY ConstantAssumption, <1>1 DEF Alone, KycFails, Rollback, Goto, TypeOK, Task
<1>4. RefAt(h)'
  BY <1>1 DEF RefAt, KycFails, Rollback, Goto, TypeOK
<1> QED
  BY <1>1, <1>2, <1>3, <1>4, RefFrame

LEMMA FailedRow ==
    ASSUME TypeOK, SafeInv, NEW h \in Handler, MarkFailed(h)
    PROVE  /\ cur[h] \in Msg /\ cur[h] \in undone /\ UNCHANGED <<effects, undone>>
           /\ \/ row' = row
              \/ /\ row' = [row EXCEPT ![cur[h]] = Failed(@)]
                 /\ rowLock[cur[h]] \notin Task \ {h}
<1>1. h \in Task /\ pc[h] = "markFailed" /\ cur[h] \in Msg /\ cur[h] \in undone
  BY DEF MarkFailed, At, SafeInv, Routes, TypeOK, Task
<1>2. Exists(cur[h]) => rowLock[cur[h]] \notin Task \ {h}
  BY <1>1 DEF MarkFailed, At, WaitsFor, WaitsForRow
<1> QED
  BY <1>1, <1>2 DEF MarkFailed, FoundByKey, history

LEMMA RefMarkFailed ==
    ASSUME TypeOK, SafeInv, LockInv, RefInv, NEW h \in Handler, MarkFailed(h) PROVE RefInv'
<1>1. h \in Task /\ h \notin Daemon /\ cur[h] \in Msg /\ row[cur[h]] \in Row
  BY FailedRow, ConstantAssumption DEF Task, TypeOK
<1>2. Lawful(h)
  <2>1. CASE row' = row
    BY <2>1, FailedRow, LawfulUnwritten
  <2>2. CASE row' = [row EXCEPT ![cur[h]] = Failed(@)] /\ rowLock[cur[h]] \notin Task \ {h}
    <3>1. row' = [row EXCEPT ![cur[h]] = Failed(row[cur[h]])]
      BY <2>2
    <3>2. Failed(row[cur[h]]).status = "FAILED"
      BY <1>1, RowChanges, Zenon
    <3> QED
      BY <1>1, <2>2, <3>1, <3>2, FailedRow, LawfulWrite
  <2> QED
    BY <2>1, <2>2, FailedRow
<1>3. Alone(h)
  BY ConstantAssumption, <1>1 DEF Alone, MarkFailed, Goto, TypeOK, Task, local
<1>4. RefAt(h)'
  BY <1>1 DEF RefAt, MarkFailed, Goto, TypeOK
<1> QED
  BY <1>1, <1>2, <1>3, <1>4, RefFrame

\* The row marked delivered is there, and nobody else has it.
LEMMA DeliveredRow ==
    ASSUME TypeOK, RefInv, NEW h \in Handler, MarkDelivered(h)
    PROVE  /\ cur[h] \in Msg /\ UNCHANGED <<effects, undone>>
           /\ \/ row' = row
              \/ /\ row' = [row EXCEPT ![cur[h]] = Delivered(@)]
                 /\ rowLock[cur[h]] \notin Task \ {h} /\ Exists(cur[h])
                 /\ cur[h] \in Text \ undone => row[cur[h]].status = "SUCCESS"
<1>1. h \in Task /\ pc[h] = "mark" /\ cur[h] \in Msg
  BY DEF MarkDelivered, At, TypeOK, Task
<1>2. rowLock[cur[h]] \notin Task \ {h}
  BY <1>1 DEF MarkDelivered, At, WaitsFor, WaitsForRow
<1> QED
  BY <1>1, <1>2 DEF MarkDelivered, RefInv, RefAt, history

LEMMA RefMarkDelivered ==
    ASSUME TypeOK, LockInv, RefInv, NEW h \in Handler, MarkDelivered(h) PROVE RefInv'
<1>1. h \in Task /\ h \notin Daemon /\ cur[h] \in Msg /\ row[cur[h]] \in Row
  BY DeliveredRow, ConstantAssumption DEF Task, TypeOK
<1>2. Lawful(h)
  <2>1. CASE row' = row
    BY <2>1, DeliveredRow, LawfulUnwritten
  <2>2. CASE /\ row' = [row EXCEPT ![cur[h]] = Delivered(@)]
             /\ rowLock[cur[h]] \notin Task \ {h} /\ Exists(cur[h])
    <3>1. row' = [row EXCEPT ![cur[h]] = Delivered(row[cur[h]])]
      BY <2>2
    <3>2. Delivered(row[cur[h]]).status = row[cur[h]].status
      BY <1>1, RowChanges, Zenon
    <3> QED
      <4> DEFINE r == Delivered(row[cur[h]])
      <4>1. /\ row' = [row EXCEPT ![cur[h]] = r] /\ r.status = row[cur[h]].status
            /\ r.status # "ABSENT" /\ undone' = undone
        BY <2>2, <3>1, <3>2, DeliveredRow DEF Exists
      <4> HIDE DEF r
      <4> QED
        BY <1>1, <2>2, <4>1, LawfulWrite
  <2> QED
    BY <2>1, <2>2, DeliveredRow
<1>3. Alone(h)
  BY ConstantAssumption, <1>1 DEF Alone, MarkDelivered, Goto, Forget, TypeOK, Task
<1>4. RefAt(h)'
  BY <1>1 DEF RefAt, MarkDelivered, Goto, TypeOK
<1> QED
  BY <1>1, <1>2, <1>3, <1>4, RefFrame

LEMMA ReclaimedAlike ==
    ASSUME TypeOK, NEW d, ScanAndReclaim(d)
    PROVE  \A m \in Msg : Alike(row[m], row'[m]) /\ (Exists(m) <=> Exists(m)')
<1> SUFFICES ASSUME NEW m \in Msg
             PROVE  Alike(row[m], row'[m]) /\ (Exists(m) <=> Exists(m)')
  OBVIOUS
<1>1. row[m] \in Row /\ row'[m] = IF Stuck(m) THEN Reclaimed(row[m]) ELSE row[m]
  BY DEF ScanAndReclaim, TypeOK
<1> QED
  <2>1. CASE Stuck(m)
    <3>0. row[m] \in Row /\ row'[m] = Reclaimed(row[m])
      BY <1>1, <2>1
    <3>1. /\ Reclaimed(row[m]).status = "IN_PROGRESS"
          /\ Reclaimed(row[m]).delivered = row[m].delivered
      BY <3>0, RowChanges, Zenon
    <3>2. row[m].status = "EXECUTING"
      BY <2>1 DEF Stuck
    <3>3. Alike(row[m], row'[m])
      BY <3>0, <3>1, <3>2, Zenon DEF Alike
    <3>4. Exists(m) /\ Exists(m)'
      BY <3>0, <3>1, <3>2 DEF Exists
    <3> QED
      BY <3>3, <3>4
  <2>2. CASE ~Stuck(m)
    BY <1>1, <2>2 DEF Alike, Exists
  <2> QED BY <2>1, <2>2

LEMMA RefScanAndReclaim ==
    ASSUME TypeOK, LockInv, RefInv, NEW d \in Daemon, ScanAndReclaim(d) PROVE RefInv'
<1>1. d \in Task /\ d \notin Handler
  BY ConstantAssumption DEF Task
<1>2. undone' = undone
  BY DEF ScanAndReclaim, history
<1>3. Lawful(d)
  BY <1>2, ReclaimedAlike, LawfulAlike
<1>4. Alone(d)
  BY ConstantAssumption, <1>1 DEF Alone, ScanAndReclaim, Goto, TypeOK, Task, local
<1>5. RefAt(d)'
  BY <1>1 DEF RefAt, Delivering, Replaying, ScanAndReclaim, Goto, TypeOK
<1> QED
  BY <1>1, <1>3, <1>4, <1>5, RefFrame

\* What the daemon writes of a replay that failed, or will not be tried.
LEMMA ReplayedRow ==
    ASSUME TypeOK, SafeInv, RefInv, NEW d \in Daemon,
           RecordReplayFailure(d) \/ MoveToDeadLetter(d)
    PROVE  /\ cur[d] \in Msg /\ rowLock[cur[d]] \notin Task \ {d}
           /\ UNCHANGED <<cur, batch, effects, undone>> /\ pc'[d] = "replay"
           /\ \E r \in Row : /\ row' = [row EXCEPT ![cur[d]] = r]
                             /\ r.delivered = row[cur[d]].delivered
                             /\ r.status # "ABSENT"
                             /\ row[cur[d]].status # "SUCCESS" => r.status # "SUCCESS"
           /\ cur[d] \in Text \ undone => row[cur[d]].status # "SUCCESS"
<1>1. d \in Task /\ cur[d] \in Msg /\ Replaying(d, cur[d])
  BY DEF RecordReplayFailure, MoveToDeadLetter, At, Replaying, TypeOK, Task
<1>2. /\ draft[d] \in Row /\ row[cur[d]] \in Row
      /\ ReplayFailed(draft[d]) \in Row /\ Buried(draft[d]) \in Row
  BY <1>1, RowOps DEF TypeOK
<1>3. /\ ReplayFailed(draft[d]).status \in {"DLQ", "FAILED"}
      /\ Buried(draft[d]).status = "DLQ"
  BY <1>2 DEF ReplayFailed, Buried, Row
<1>4. Exists(cur[d])
  BY <1>1 DEF RefInv, RefAt
<1>5. cur[d] \in Text \ undone => row[cur[d]].status # "SUCCESS"
  BY <1>1 DEF SafeInv, ReplaysUnexecuted
<1>6. rowLock[cur[d]] \notin Task \ {d}
  BY <1>1 DEF RecordReplayFailure, MoveToDeadLetter, At, WaitsFor, WaitsForRow
<1>7. UNCHANGED <<cur, batch, effects, undone>> /\ pc'[d] = "replay"
  BY <1>1 DEF RecordReplayFailure, MoveToDeadLetter, Goto, TypeOK, local, history
<1>8. CASE RecordReplayFailure(d)
  <2> DEFINE r == [Flushed(row[cur[d]], draft[d], ReplayFailed(draft[d]))
                     EXCEPT !.attempted = TRUE, !.age = "fresh"]
  <2>1. r \in Row /\ r.status \in {ReplayFailed(draft[d]).status, row[cur[d]].status}
        /\ r.delivered = row[cur[d]].delivered
    BY <1>2, FlushedRow, FlushedStatus, FlushedDelivered
  <2>2. row' = [row EXCEPT ![cur[d]] = r]
    BY <1>8 DEF RecordReplayFailure
  <2> HIDE DEF r
  <2> QED
    BY <1>1, <1>3, <1>4, <1>5, <1>6, <1>7, <2>1, <2>2 DEF Exists
<1>9. CASE MoveToDeadLetter(d)
  <2> DEFINE r == [Flushed(row[cur[d]], draft[d], Buried(draft[d])) EXCEPT !.age = "fresh"]
  <2>1. r \in Row /\ r.status \in {Buried(draft[d]).status, row[cur[d]].status}
        /\ r.delivered = row[cur[d]].delivered
    BY <1>2, FlushedRow, FlushedStatus, FlushedDelivered
  <2>2. row' = [row EXCEPT ![cur[d]] = r]
    BY <1>9 DEF MoveToDeadLetter
  <2> HIDE DEF r
  <2> QED
    BY <1>1, <1>3, <1>4, <1>5, <1>6, <1>7, <2>1, <2>2 DEF Exists
<1> QED
  BY <1>8, <1>9

LEMMA RefReplayed ==
    ASSUME TypeOK, SafeInv, LockInv, RefInv, NEW d \in Daemon,
           RecordReplayFailure(d) \/ MoveToDeadLetter(d)
    PROVE  RefInv'
<1>1. d \in Task /\ d \notin Handler
  BY ConstantAssumption DEF Task
<1>2. PICK r \in Row : /\ row' = [row EXCEPT ![cur[d]] = r]
                       /\ r.status # "ABSENT"
  BY ReplayedRow
<1>3. /\ cur[d] \in Msg /\ rowLock[cur[d]] \notin Task \ {d}
      /\ UNCHANGED <<cur, batch, undone>> /\ pc'[d] = "replay"
      /\ cur[d] \in Text \ undone => row[cur[d]].status # "SUCCESS"
  BY ReplayedRow
<1>4. Lawful(d)
  BY <1>1, <1>2, <1>3, LawfulWrite
<1>5. Alone(d)
  BY ConstantAssumption, <1>1
     DEF Alone, RecordReplayFailure, MoveToDeadLetter, Goto, TypeOK, Task, local
<1>6. \A m \in Msg : (Replaying(d, m)' => Replaying(d, m)) /\ ~Delivering(d, m)'
  BY <1>3 DEF Replaying, Delivering, RecordReplayFailure, MoveToDeadLetter, At
<1>7. RefAt(d)'
  BY <1>1, <1>3, <1>4, <1>6 DEF RefInv, RefAt, Lawful
<1> QED
  BY <1>1, <1>4, <1>5, <1>7, RefFrame

\* What the daemon writes of a record it has delivered, or skipped.
LEMMA MarkedRow ==
    ASSUME TypeOK, RefInv, NEW d \in Daemon, DeliverMark(d)
    PROVE  /\ cur[d] \in Msg /\ rowLock[cur[d]] \notin Task \ {d} /\ Exists(cur[d])
           /\ UNCHANGED <<cur, batch, effects, undone>> /\ pc'[d] = "sending"
           /\ pc[d] = "deliverMark"
           /\ cur[d] \in Text \ undone => row[cur[d]].status = "SUCCESS"
           /\ \E r \in Row : /\ row' = [row EXCEPT ![cur[d]] = r]
                             /\ r.status = row[cur[d]].status
                             /\ r.delivered = TRUE \/ r.delivered = row[cur[d]].delivered
<1>1. d \in Task /\ pc[d] = "deliverMark" /\ cur[d] \in Msg
  BY DEF DeliverMark, At, TypeOK, Task
<1>2. Exists(cur[d]) /\ (cur[d] \in Text \ undone => row[cur[d]].status = "SUCCESS")
  BY <1>1 DEF RefInv, RefAt, Delivering
<1>3. rowLock[cur[d]] \notin Task \ {d}
  BY <1>1 DEF DeliverMark, At, WaitsFor, WaitsForRow
<1>4. UNCHANGED <<cur, batch, effects, undone>> /\ pc'[d] = "sending"
  BY <1>1 DEF DeliverMark, Goto, TypeOK, local, history
<1>5. row[cur[d]] \in Row
  BY <1>1 DEF TypeOK
<1>6. Delivered(row[cur[d]]) \in Row /\ Skipped(row[cur[d]]) \in Row
  BY <1>5, RowOps
<1>7. row' \in {[row EXCEPT ![cur[d]] = Delivered(row[cur[d]])],
                [row EXCEPT ![cur[d]] = Skipped(row[cur[d]])]}
  BY DEF DeliverMark
<1>8. /\ Delivered(row[cur[d]]).status = row[cur[d]].status
      /\ Delivered(row[cur[d]]).delivered = TRUE
      /\ Skipped(row[cur[d]]).status = row[cur[d]].status
      /\ Skipped(row[cur[d]]).delivered = row[cur[d]].delivered
  BY <1>5, RowChanges, Zenon
<1> QED
  BY <1>1, <1>2, <1>3, <1>4, <1>6, <1>7, <1>8

LEMMA RefDeliverMark ==
    ASSUME TypeOK, LockInv, RefInv, NEW d \in Daemon, DeliverMark(d) PROVE RefInv'
<1>1. d \in Task /\ d \notin Handler
  BY ConstantAssumption DEF Task
<1>2. PICK r \in Row : row' = [row EXCEPT ![cur[d]] = r] /\ r.status = row[cur[d]].status
  BY MarkedRow
<1>3. /\ cur[d] \in Msg /\ rowLock[cur[d]] \notin Task \ {d} /\ Exists(cur[d])
      /\ UNCHANGED <<cur, batch, undone>> /\ pc'[d] = "sending" /\ pc[d] = "deliverMark"
  BY MarkedRow
<1>4. Lawful(d)
  BY <1>1, <1>2, <1>3, LawfulWrite DEF Exists
<1>5. Alone(d)
  BY ConstantAssumption, <1>1 DEF Alone, DeliverMark, Goto, TypeOK, Task, local
<1>6. \A m \in Msg : (Delivering(d, m)' => Delivering(d, m)) /\ ~Replaying(d, m)'
  BY <1>3 DEF Replaying, Delivering
<1>7. RefAt(d)'
  BY <1>1, <1>3, <1>4, <1>6 DEF RefInv, RefAt, Lawful
<1> QED
  BY <1>1, <1>4, <1>5, <1>7, RefFrame

\* A step of the clock.
LEMMA AgedAlike ==
    ASSUME TypeOK, NEW m \in Msg, Elapse(m)
    PROVE  \A n \in Msg : Alike(row[n], row'[n]) /\ (Exists(n) <=> Exists(n)')
<1>1. row' = [row EXCEPT ![m] = Aged(row[m])] /\ row[m] \in Row
  BY DEF Elapse, TypeOK
<1>2. row'[m] = Aged(row[m]) /\ \A n \in Msg \ {m} : row'[n] = row[n]
  BY <1>1 DEF TypeOK
<1>3. row'[m].status = row[m].status /\ row'[m].delivered = row[m].delivered
  <2>1. Aged(row[m]).status = row[m].status /\ Aged(row[m]).delivered = row[m].delivered
    BY <1>1, RowChanges, Zenon
  <2> QED
    BY <1>2, <2>1, Zenon
<1> QED
  BY <1>2, <1>3 DEF Alike, Exists

LEMMA RefAlike ==
    ASSUME TypeOK, RefInv, UNCHANGED <<pc, cur, draft, resp, batch, undone>>,
           \A n \in Msg : Alike(row[n], row'[n]) /\ (Exists(n) <=> Exists(n)')
    PROVE  RefInv'
<1>1. AbsentBlank'
  BY DEF RefInv, AbsentBlank, Alike
<1>2. ASSUME NEW t \in Task PROVE RefAt(t)'
  <2>1. /\ pc[t] \in {"dispatch", "suppressed", "send", "mark"} => cur[t] \in Msg
    BY ConstantAssumption DEF TypeOK, DaemonPC, HandlerPC, Task
  <2>2. \A m \in Msg : Delivering(t, m)' = Delivering(t, m)
                       /\ Replaying(t, m)' = Replaying(t, m)
    BY DEF Delivering, Replaying
  <2> QED
    BY <2>1, <2>2 DEF RefInv, RefAt, Alike, Exists, Text
<1> QED
  BY <1>1, <1>2 DEF RefInv

LEMMA RefDies ==
    ASSUME TypeOK, RefInv, NEW p \in Process, Dies(p) PROVE RefInv'
<1>1. row' = row /\ undone' = undone /\ resp' = resp
  BY DEF Dies, history
<1>2. AbsentBlank'
  BY <1>1 DEF RefInv, AbsentBlank, Exists
<1>3. ASSUME NEW t \in Task PROVE RefAt(t)'
  <2>1. CASE Host[t] = p
    <3>1. pc'[t] \in {"idle", "sleep"}
      BY <2>1 DEF Dies
    <3> QED
      BY <3>1 DEF RefAt, Delivering, Replaying
  <2>2. CASE Host[t] # p
    <3>1. pc'[t] = pc[t] /\ cur'[t] = cur[t] /\ draft'[t] = draft[t]
          /\ (t \in Daemon => batch'[t] = batch[t])
      BY <2>2 DEF Dies
    <3>2. t \in Daemon => \A m \in Msg : Delivering(t, m)' = Delivering(t, m)
                                        /\ Replaying(t, m)' = Replaying(t, m)
      BY <3>1 DEF Delivering, Replaying
    <3> QED
      BY <1>1, <3>1, <3>2 DEF RefInv, RefAt, Exists
  <2> QED
    BY <2>1, <2>2
<1> QED
  BY <1>2, <1>3 DEF RefInv

-----------------------------------------------------------------------------
(* The strengthening is inductive.                                         *)

LEMMA RefInit == Init => RefInv
<1> SUFFICES ASSUME Init PROVE RefInv
  OBVIOUS
<1>1. AbsentBlank
  <2> SUFFICES ASSUME NEW m \in Msg, ~Exists(m) PROVE ~row[m].delivered
    BY DEF AbsentBlank
  <2>1. row[m] \in {Absent} \cup Backlog /\ row[m].status = "ABSENT"
    BY DEF Init, Exists
  <2>2. row[m] = Absent
    BY <2>1, ConstantAssumption
  <2>3. Absent.delivered = FALSE
    BY DEF Absent, NewRow
  <2> QED
    BY <2>2, <2>3
<1>2. ASSUME NEW t \in Task PROVE RefAt(t)
  <2>1. pc[t] \in {"idle", "sleep"}
    BY DEF Init
  <2> QED
    BY <2>1 DEF RefAt, Delivering, Replaying
<1> QED
  BY <1>1, <1>2 DEF RefInv

LEMMA RefStep == TypeOK /\ SafeInv /\ LockInv /\ RefInv /\ [Next]_vars => RefInv'
<1> SUFFICES ASSUME TypeOK, SafeInv, LockInv, RefInv, [Next]_vars PROVE RefInv'
  OBVIOUS
<1>1. ASSUME NEW h \in Handler, HandlerStep(h) PROVE RefInv'
  BY <1>1, RefGetOrCreateUser, RefApologised, RefRateLimited, RefExtracted,
     RefPhase1Fails, RefLockUserForDispatch, RefStartSelect, RefStartInsert,
     RefDispatch, RefDispatchFails, RefLaneTaken, RefDispatchSuppressed,
     RefKycDownloaded, RefKycStore, RefKycCommit, RefKycFails, RefMarkFailed,
     RefSafeFallback, RefSendResponse, RefMarkDelivered DEF HandlerStep
<1>2. ASSUME NEW h \in Handler, NEW m \in Msg, Receive(h, m) PROVE RefInv'
  BY <1>2, RefReceive
<1>3. ASSUME NEW d \in Daemon, DaemonStep(d) PROVE RefInv'
  BY <1>3, RefWakeUp, RefScanAndReclaim, RefScanAndReplay, RefReplayNext,
     RefReplayDone, RefLoadFailedReplay, RefReplayed, RefScanAndDeliver,
     RefDeliverMark, RefDeliverDone, RefDeliverSent, RefDeliverSkipped,
     RefDeliverGivenUp DEF DaemonStep
<1>4. ASSUME NEW m \in Msg, Elapse(m) PROVE RefInv'
  <2>1. UNCHANGED <<pc, cur, draft, resp, batch, undone>>
    BY <1>4 DEF Elapse, local, history
  <2> QED
    BY <1>4, <2>1, AgedAlike, RefAlike
<1>5. CASE UNCHANGED <<row, pc, cur, draft, resp, batch, undone>>
  BY <1>5, RefAlike DEF Alike, Exists
<1>6. ASSUME NEW m \in Msg, GuardExpires(m) PROVE RefInv'
  BY <1>5, <1>6 DEF GuardExpires, ledger, local, history
<1>7. ASSUME NEW p \in Process, Crash(p) \/ WorkerTimeout(p) PROVE RefInv'
  BY <1>7, RefDies DEF Crash, WorkerTimeout
<1>8. CASE UNCHANGED vars
  BY <1>5, <1>8 DEF vars, ledger, local, history
<1> QED
  BY <1>1, <1>2, <1>3, <1>4, <1>6, <1>7, <1>8 DEF Next

-----------------------------------------------------------------------------
(* Every step maps to a step of ExactlyOnce, or to none.                   *)

LEMMA MapUnwritten ==
    ASSUME UNCHANGED <<row, effects, undone>>
    PROVE  UNCHANGED Once!vars
<1>1. \A n \in Text : Alike(row[n], row'[n]) /\ effects'[n] = effects[n]
  BY DEF Alike
<1> QED
  BY <1>1, OnceStutters

LEMMA WritesOnly ==
    ASSUME TypeOK, NEW m \in Msg, NEW r, row' = [row EXCEPT ![m] = r],
           undone' = undone, \A n \in Msg \ {m} : effects'[n] = effects[n]
    PROVE  row'[m] = r /\ OnlyRow(m)
<1>1. row'[m] = r /\ \A n \in Msg \ {m} : row'[n] = row[n]
  BY DEF TypeOK
<1> QED
  BY <1>1 DEF OnlyRow, Alike, Text

LEMMA MapDispatch ==
    ASSUME TypeOK, SafeInv, LockInv, RefInv, NEW h \in Handler, Dispatch(h)
    PROVE  Once!Next
<1> DEFINE m == cur[h]
<1>1. /\ m \in Text
      /\ m \in Msg
      /\ undone' = undone
      /\ effects' = [effects EXCEPT ![m] = @ + 1]
      /\ m \notin undone => (row[m].status # "SUCCESS" /\ ~Exists(m))
  BY DispatchRow DEF Text
<1>2. PICK r \in Row : /\ row' = [row EXCEPT ![m] = r]
                       /\ r.delivered = row[m].delivered
                       /\ r.status = "SUCCESS" \/ Exists(m)
                       /\ row[m].status = "SUCCESS" => r.status = "SUCCESS"
  BY DispatchRow
<1>3. effects'[m] = effects[m] + 1 /\ \A n \in Msg \ {m} : effects'[n] = effects[n]
  BY <1>1 DEF TypeOK
<1> HIDE DEF m
<1>4. row'[m] = r /\ OnlyRow(m)
  BY <1>1, <1>2, <1>3, WritesOnly
<1>5. CASE m \in undone
  BY <1>1, <1>2, <1>3, <1>4, <1>5, OnceAppliesAnyhow
<1>6. CASE m \notin undone
  <2>1. row'[m].status = "SUCCESS" /\ row[m].status # "SUCCESS"
    BY <1>1, <1>2, <1>4, <1>6
  <2> QED
    BY <1>1, <1>2, <1>3, <1>4, <1>6, <2>1, OnceApplies
<1> QED
  BY <1>5, <1>6

LEMMA MapDispatchSuppressed ==
    ASSUME TypeOK, SafeInv, LockInv, RefInv, NEW h \in Handler, DispatchSuppressed(h)
    PROVE  Once!Next
<1> DEFINE m == cur[h]
<1>1. m \in Text \cap undone /\ m \in Msg /\ undone' = undone /\ row[m] \in Row
      /\ effects' = [effects EXCEPT ![m] = @ + 1]
  BY SuppressedRow DEF Text, TypeOK
<1>2. effects'[m] = effects[m] + 1 /\ \A n \in Msg \ {m} : effects'[n] = effects[n]
  BY <1>1 DEF TypeOK
<1>3. row' = row \/ row' = [row EXCEPT ![m] = Completed(row[m])]
  BY SuppressedRow
<1> HIDE DEF m
<1>4. OnlyRow(m) /\ row'[m] \in {row[m], Completed(row[m])}
  <2>1. CASE row' = row
    BY <1>1, <1>2, <2>1 DEF OnlyRow, Alike, Text
  <2>2. CASE row' = [row EXCEPT ![m] = Completed(row[m])]
    BY <1>1, <1>2, <2>2, WritesOnly
  <2> QED
    BY <1>3, <2>1, <2>2
<1>5. /\ row'[m].delivered = row[m].delivered
      /\ row[m].status = "SUCCESS" => row'[m].status = "SUCCESS"
  <2>1. Completed(row[m]).status = "SUCCESS" /\ Completed(row[m]).delivered = row[m].delivered
    BY <1>1, RowChanges, Zenon
  <2> QED
    BY <1>4, <2>1, Zenon
<1> QED
  BY <1>1, <1>2, <1>4, <1>5, OnceAppliesAnyhow

LEMMA MapKycCommit ==
    ASSUME TypeOK, SafeInv, NEW h \in Handler, KycCommit(h)
    PROVE  UNCHANGED Once!vars
<1> DEFINE m == cur[h]
<1>1. m \in Media /\ undone' = undone
  BY DEF KycCommit, At, SafeInv, Routes
<1>2. /\ row' = [row EXCEPT ![m] = Delivered(Completed(draft[h]))]
      /\ effects' = [effects EXCEPT ![m] = @ + 1]
  BY DEF KycCommit, CommitExecution
<1> HIDE DEF m
<1>3. \A n \in Text : row'[n] = row[n] /\ effects'[n] = effects[n]
  BY <1>1, <1>2 DEF Text, TypeOK
<1> QED
  BY <1>1, <1>3, OnceStutters DEF Alike

LEMMA MapRollback ==
    ASSUME TypeOK, NEW h \in Handler, DispatchFails(h) \/ LaneTaken(h) \/ KycFails(h)
    PROVE  [Once!Next]_(Once!vars)
<1>1. cur[h] \in Msg /\ UNCHANGED <<row, effects>> /\ undone' = undone \cup {cur[h]}
  BY DEF DispatchFails, LaneTaken, KycFails, Rollback, At, TypeOK
<1> QED
  BY <1>1, OnceUndoes

LEMMA MapMarkFailed ==
    ASSUME TypeOK, SafeInv, NEW h \in Handler, MarkFailed(h)
    PROVE  [Once!Next]_(Once!vars)
<1> DEFINE m == cur[h]
<1>1. m \in Msg /\ m \in undone /\ UNCHANGED <<effects, undone>> /\ row[m] \in Row
  BY FailedRow DEF TypeOK
<1>2. row' = row \/ row' = [row EXCEPT ![m] = Failed(row[m])]
  BY FailedRow
<1> HIDE DEF m
<1>3. CASE row' = row
  BY <1>1, <1>3, MapUnwritten
<1>4. CASE row' = [row EXCEPT ![m] = Failed(row[m])]
  <2>1. row'[m] = Failed(row[m]) /\ OnlyRow(m)
    BY <1>1, <1>4, WritesOnly
  <2>0. Failed(row[m]).status = "FAILED" /\ Failed(row[m]).delivered = row[m].delivered
    BY <1>1, RowChanges, Zenon
  <2>2. row'[m].status = "FAILED" /\ row'[m].delivered = row[m].delivered
    BY <2>0, <2>1, Zenon
  <2>3. CASE m \in Text
    BY <1>1, <2>1, <2>2, <2>3, OnceWithdraws
  <2>4. CASE m \notin Text
    BY <1>1, <2>1, <2>4, OnceStutters DEF OnlyRow
  <2> QED
    BY <2>3, <2>4
<1> QED
  BY <1>2, <1>3, <1>4

LEMMA MapMarkDelivered ==
    ASSUME TypeOK, RefInv, NEW h \in Handler, MarkDelivered(h)
    PROVE  [Once!Next]_(Once!vars)
<1> DEFINE m == cur[h]
<1>1. m \in Msg /\ UNCHANGED <<effects, undone>> /\ row[m] \in Row
  BY DeliveredRow DEF TypeOK
<1>2. \/ row' = row
      \/ /\ row' = [row EXCEPT ![m] = Delivered(row[m])]
         /\ m \in Text \ undone => row[m].status = "SUCCESS"
  BY DeliveredRow
<1> HIDE DEF m
<1>3. CASE row' = row
  BY <1>1, <1>3, MapUnwritten
<1>4. CASE /\ row' = [row EXCEPT ![m] = Delivered(row[m])]
           /\ m \in Text \ undone => row[m].status = "SUCCESS"
  <2>1. row'[m] = Delivered(row[m]) /\ OnlyRow(m)
    BY <1>1, <1>4, WritesOnly
  <2>0. Delivered(row[m]).status = row[m].status /\ Delivered(row[m]).delivered = TRUE
    BY <1>1, RowChanges, Zenon
  <2>2. row'[m].status = row[m].status /\ row'[m].delivered = TRUE
    BY <2>0, <2>1, Zenon
  <2>3. CASE m \in Text
    BY <1>1, <1>4, <2>1, <2>2, <2>3, OnceSettles
  <2>4. CASE m \notin Text
    BY <1>1, <2>1, <2>4, OnceStutters DEF OnlyRow
  <2> QED
    BY <2>3, <2>4
<1> QED
  BY <1>2, <1>3, <1>4

LEMMA MapReplayed ==
    ASSUME TypeOK, SafeInv, RefInv, NEW d \in Daemon,
           RecordReplayFailure(d) \/ MoveToDeadLetter(d)
    PROVE  [Once!Next]_(Once!vars)
<1> DEFINE m == cur[d]
<1>1. /\ m \in Msg
      /\ UNCHANGED <<effects, undone>>
      /\ row[m] \in Row
      /\ m \in Text \ undone => row[m].status # "SUCCESS"
  BY ReplayedRow DEF TypeOK
<1>2. PICK r \in Row : /\ row' = [row EXCEPT ![m] = r]
                       /\ r.delivered = row[m].delivered
                       /\ row[m].status # "SUCCESS" => r.status # "SUCCESS"
  BY ReplayedRow
<1> HIDE DEF m
<1>3. row'[m] = r /\ OnlyRow(m)
  <2>1. \A n \in Msg \ {m} : effects'[n] = effects[n]
    BY <1>1
  <2> QED
    BY <1>1, <1>2, <2>1, WritesOnly
<1>4. CASE m \in Text /\ r.status = "SUCCESS" /\ row[m].status = "SUCCESS"
  <2>1. Alike(row[m], row'[m])
    BY <1>2, <1>3, <1>4, Zenon DEF Alike
  <2> QED
    BY <1>1, <1>3, <2>1, OnceStutters DEF OnlyRow
<1>5. CASE m \in Text /\ row[m].status = "SUCCESS" /\ r.status # "SUCCESS"
  BY <1>1, <1>2, <1>3, <1>5, OnceWithdraws
<1>6. CASE m \in Text /\ row[m].status # "SUCCESS"
  <2>1. Alike(row[m], row'[m])
    BY <1>2, <1>3, <1>6 DEF Alike
  <2> QED
    BY <1>1, <1>3, <2>1, OnceStutters DEF OnlyRow
<1>7. CASE m \notin Text
  BY <1>1, <1>3, <1>7, OnceStutters DEF OnlyRow
<1> QED
  BY <1>4, <1>5, <1>6, <1>7

LEMMA MapDeliverMark ==
    ASSUME TypeOK, RefInv, NEW d \in Daemon, DeliverMark(d)
    PROVE  [Once!Next]_(Once!vars)
<1> DEFINE m == cur[d]
<1>1. /\ m \in Msg
      /\ UNCHANGED <<effects, undone>>
      /\ m \in Text \ undone => row[m].status = "SUCCESS"
  BY MarkedRow
<1>2. PICK r \in Row : /\ row' = [row EXCEPT ![m] = r] /\ r.status = row[m].status
                       /\ r.delivered = TRUE \/ r.delivered = row[m].delivered
  BY MarkedRow
<1> HIDE DEF m
<1>3. row'[m] = r /\ OnlyRow(m)
  <2>1. \A n \in Msg \ {m} : effects'[n] = effects[n]
    BY <1>1
  <2> QED
    BY <1>1, <1>2, <2>1, WritesOnly
<1>4. CASE m \in Text /\ r.delivered = TRUE
  BY <1>1, <1>2, <1>3, <1>4, OnceSettles
<1>5. CASE m \in Text /\ r.delivered = row[m].delivered
  <2>1. Alike(row[m], row'[m])
    BY <1>2, <1>3, <1>5, Zenon DEF Alike
  <2> QED
    BY <1>1, <1>3, <2>1, OnceStutters DEF OnlyRow
<1>6. CASE m \notin Text
  BY <1>1, <1>3, <1>6, OnceStutters DEF OnlyRow
<1> QED
  BY <1>2, <1>4, <1>5, <1>6

LEMMA MapStep ==
    TypeOK /\ SafeInv /\ LockInv /\ RefInv /\ [Next]_vars => [Once!Next]_(Once!vars)
<1> SUFFICES ASSUME TypeOK, SafeInv, LockInv, RefInv, [Next]_vars
             PROVE  [Once!Next]_(Once!vars)
  OBVIOUS
<1>1. CASE UNCHANGED <<row, effects, undone>>
  BY <1>1, MapUnwritten
<1>2. ASSUME NEW h \in Handler, HandlerStep(h) PROVE [Once!Next]_(Once!vars)
  <2>1. CASE \/ GetOrCreateUser(h) \/ Apologised(h) \/ RateLimited(h) \/ Extracted(h)
             \/ Phase1Fails(h) \/ LockUserForDispatch(h) \/ StartSelect(h)
             \/ StartInsert(h) \/ SafeFallback(h) \/ KycDownloaded(h) \/ KycStore(h)
             \/ SendResponse(h)
    <3>1. UNCHANGED <<row, effects, undone>>
      BY <2>1 DEF GetOrCreateUser, Apologised, RateLimited, Extracted, Phase1Fails,
         LockUserForDispatch, StartSelect, StartInsert, SafeFallback, KycDownloaded,
         KycStore, SendResponse, ledger, history
    <3> QED
      BY <1>1, <3>1
  <2>2. CASE \/ Dispatch(h) \/ DispatchSuppressed(h) \/ KycCommit(h)
    BY <2>2, MapDispatch, MapDispatchSuppressed, MapKycCommit
  <2>3. CASE \/ DispatchFails(h) \/ LaneTaken(h) \/ KycFails(h)
             \/ MarkFailed(h) \/ MarkDelivered(h)
    BY <2>3, MapRollback, MapMarkFailed, MapMarkDelivered
  <2> QED
    BY <1>2, <2>1, <2>2, <2>3 DEF HandlerStep
<1>3. ASSUME NEW h \in Handler, NEW m \in Msg, Receive(h, m)
      PROVE  [Once!Next]_(Once!vars)
  BY <1>1, <1>3 DEF Receive, ledger, history
<1>4. ASSUME NEW d \in Daemon, DaemonStep(d) PROVE [Once!Next]_(Once!vars)
  <2>1. CASE \/ WakeUp(d) \/ ScanAndReplay(d) \/ ReplayNext(d) \/ ReplayDone(d)
             \/ LoadFailedReplay(d) \/ ScanAndDeliver(d) \/ DeliverDone(d)
             \/ \E m \in Msg : \/ DeliverSent(d, m) \/ DeliverSkipped(d, m)
                               \/ DeliverGivenUp(d, m)
    <3>1. UNCHANGED <<row, effects, undone>>
      BY <2>1 DEF WakeUp, ScanAndReplay, ReplayNext, ReplayDone, LoadFailedReplay,
         ScanAndDeliver, DeliverDone, DeliverSent, DeliverSkipped, DeliverGivenUp,
         ledger, history
    <3> QED
      BY <1>1, <3>1
  <2>2. CASE ScanAndReclaim(d)
    <3>1. UNCHANGED <<effects, undone>>
      BY <2>2 DEF ScanAndReclaim, history
    <3> QED
      BY <2>2, <3>1, ReclaimedAlike, OnceStutters DEF Text
  <2>3. CASE RecordReplayFailure(d) \/ MoveToDeadLetter(d) \/ DeliverMark(d)
    BY <2>3, MapReplayed, MapDeliverMark
  <2> QED
    BY <1>4, <2>1, <2>2, <2>3 DEF DaemonStep
<1>5. ASSUME NEW m \in Msg, Elapse(m) PROVE [Once!Next]_(Once!vars)
  <2>1. UNCHANGED <<effects, undone>>
    BY <1>5 DEF Elapse, history
  <2> QED
    BY <1>5, <2>1, AgedAlike, OnceStutters DEF Text
<1>6. ASSUME NEW m \in Msg, GuardExpires(m) PROVE [Once!Next]_(Once!vars)
  BY <1>1, <1>6 DEF GuardExpires, ledger, history
<1>7. ASSUME NEW p \in Process, Crash(p) \/ WorkerTimeout(p)
      PROVE  [Once!Next]_(Once!vars)
  BY <1>1, <1>7 DEF Crash, WorkerTimeout, Dies, history
<1>8. CASE UNCHANGED vars
  BY <1>1, <1>8 DEF vars, ledger, history
<1> QED
  BY <1>2, <1>3, <1>4, <1>5, <1>6, <1>7, <1>8 DEF Next

LEMMA MapInit == Init => Once!Init
<1> SUFFICES ASSUME Init PROVE Once!Init
  OBVIOUS
<1>1. [m \in Text |-> effects[m]] = [m \in Text |-> 0]
  BY DEF Init, Text
<1>2. undone \cap Text = {}
  BY DEF Init
<1> QED
  BY <1>1, <1>2 DEF Once!Init

\* For texts the ledger, with every request, worker and daemon that writes it,
\* does what ExactlyOnce says: effects and record come in one step, what is
\* recorded is not applied again nor its record withdrawn, unless an execution
\* of the text was rolled back, and only what was executed is marked delivered.
THEOREM RefinesExactlyOnce == Spec => ImplementsExactlyOnce
<1> DEFINE Inv == TypeOK /\ SafeInv /\ LockInv /\ RefInv
<1>1. Init => Inv
  BY TypeInit, SafeInit, LockInit, RefInit
<1>2. Inv /\ [Next]_vars => Inv'
  BY TypeStep, SafeStep, LockStep, RefStep
<1>3. Init => Once!Init
  BY MapInit
<1>4. Inv /\ [Next]_vars => [Once!Next]_(Once!vars)
  BY MapStep
<1> HIDE DEF Inv
<1> QED
  BY <1>1, <1>2, <1>3, <1>4, PTL DEF Spec, ImplementsExactlyOnce, Once!Spec
=============================================================================
