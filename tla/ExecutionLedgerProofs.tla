------------------------ MODULE ExecutionLedgerProofs ------------------------
(* Theorems about ExecutionLedger, for every value of its constants.       *)
EXTENDS ExecutionLedger, TLAPS

-----------------------------------------------------------------------------
(* Lemmas about the helpers.                                               *)

\* Every way the code rewrites a ledger row gives a ledger row.
LEMMA RowOps ==
    ASSUME NEW r \in Row
    PROVE  /\ NewRow \in Row /\ Absent \in Row
           /\ Restarted(r) \in Row /\ Completed(r) \in Row
           /\ Delivered(r) \in Row /\ Failed(r) \in Row
           /\ Reclaimed(r) \in Row /\ ReplayFailed(r) \in Row
           /\ Buried(r) \in Row /\ Skipped(r) \in Row
<1>0. r.retry \in Nat /\ r.retry + 1 \in Nat
  BY DEF Row
<1>1. NewRow \in Row
  BY DEF Row, Status, DeliveryState, Age, NewRow
<1>2. Absent \in Row
  BY DEF Row, Status, DeliveryState, Age, Absent, NewRow
<1>3. Restarted(r) \in Row
  BY <1>0 DEF Row, Status, DeliveryState, Age, Restarted
<1>4. Completed(r) \in Row
  BY DEF Row, Status, DeliveryState, Age, Completed
<1>5. Delivered(r) \in Row
  BY DEF Row, Status, DeliveryState, Age, Delivered
<1>6. Failed(r) \in Row
  BY <1>0 DEF Row, Status, DeliveryState, Age, Failed
<1>7. Reclaimed(r) \in Row
  BY DEF Row, Status, DeliveryState, Age, Reclaimed
<1>8. ReplayFailed(r) \in Row
  BY <1>0 DEF Row, Status, DeliveryState, Age, ReplayFailed
<1>9. Buried(r) \in Row
  BY DEF Row, Status, DeliveryState, Age, Buried
<1>10. Skipped(r) \in Row
  BY DEF Row, Status, DeliveryState, Age, Skipped
<1> QED
  BY <1>1, <1>2, <1>3, <1>4, <1>5, <1>6, <1>7, <1>8, <1>9, <1>10

\* So does an ORM flush of some of its columns.
LEMMA FlushedRow ==
    ASSUME NEW now \in Row, NEW loaded \in Row, NEW new \in Row
    PROVE  /\ [Flushed(now, loaded, new) EXCEPT !.age = "fresh"] \in Row
           /\ [Flushed(now, loaded, new)
                 EXCEPT !.attempted = TRUE, !.age = "fresh"] \in Row
  BY DEF Row, Status, DeliveryState, Age, Flushed

LEMMA AbsentRow == Absent \in Row
  BY DEF Row, Status, DeliveryState, Age, Absent, NewRow

LEMMA ForgetType ==
    ASSUME TypeOK, NEW t \in Task, Forget(t)
    PROVE  cur' \in [Task -> Msg \cup {None}] /\ draft' \in [Task -> Row]
  BY AbsentRow DEF TypeOK, Forget

LEMMA EndTxType ==
    ASSUME TypeOK, NEW t, EndTx(t)
    PROVE  /\ rowLock' \in [Msg -> Task \cup {None}]
           /\ userLock' \in [User -> Task \cup {None}]
           /\ userShare' \in [User -> SUBSET Task]
  BY DEF TypeOK, EndTx, Released

-----------------------------------------------------------------------------
(* Type correctness.                                                       *)

LEMMA TypeInit == Init => TypeOK
<1> SUFFICES ASSUME Init PROVE TypeOK
  OBVIOUS
<1> USE ConstantAssumption
<1>1. Absent \in Row
  BY DEF Row, Status, DeliveryState, Age, Absent, NewRow
<1>2. row \in [Msg -> Row]
  BY <1>1 DEF Init
<1>3. \A t \in Task : pc[t] \in IF t \in Handler THEN HandlerPC ELSE DaemonPC
  BY DEF Init, HandlerPC, DaemonPC
<1> QED
  BY <1>1, <1>2, <1>3 DEF Init, TypeOK, Task, HandlerPC, DaemonPC

LEMMA TypeReceive ==
    ASSUME TypeOK, NEW h \in Handler, NEW m \in Msg, Receive(h, m) PROVE TypeOK'
  BY ConstantAssumption DEF Receive, At, Goto, HandlerPC, DaemonPC, TypeOK,
     Task, ledger, users, history

LEMMA TypeGetOrCreateUser ==
    ASSUME TypeOK, NEW h \in Handler, GetOrCreateUser(h) PROVE TypeOK'
  BY ConstantAssumption
     DEF GetOrCreateUser, SendGuardSet, At, Goto, HandlerPC, TypeOK, Task,
       ledger, local, history

LEMMA TypeApologised ==
    ASSUME TypeOK, NEW h \in Handler, Apologised(h) PROVE TypeOK'
<1> USE ConstantAssumption
<1>1. cur' \in [Task -> Msg \cup {None}] /\ draft' \in [Task -> Row]
  BY ForgetType DEF Apologised, Task
<1>2. /\ rowLock' \in [Msg -> Task \cup {None}]
      /\ userLock' \in [User -> Task \cup {None}]
      /\ userShare' \in [User -> SUBSET Task]
  BY EndTxType DEF Apologised
<1> QED
  BY <1>1, <1>2 DEF Apologised, Forget, Goto, HandlerPC, TypeOK, Task,
     history, world

LEMMA TypeRateLimited ==
    ASSUME TypeOK, NEW h \in Handler, RateLimited(h) PROVE TypeOK'
<1> USE ConstantAssumption
<1>1. Forget(h)
  BY DEF RateLimited
<1>2. cur' \in [Task -> Msg \cup {None}] /\ draft' \in [Task -> Row]
  BY <1>1, ForgetType DEF Task
<1> QED
  BY <1>1, <1>2
     DEF RateLimited, SendGuardSet, Forget, At, Goto, TypeOK, Task, HandlerPC,
       DaemonPC, ledger, history

LEMMA TypeExtracted ==
    ASSUME TypeOK, NEW h \in Handler, Extracted(h) PROVE TypeOK'
  BY ConstantAssumption
     DEF Extracted, At, Goto, HandlerPC, DaemonPC, TypeOK, Task, ledger,
       users, local, history, world

LEMMA TypePhase1Fails ==
    ASSUME TypeOK, NEW h \in Handler, Phase1Fails(h) PROVE TypeOK'
  BY ConstantAssumption
     DEF Phase1Fails, At, Goto, EndTx, Released, HandlerPC, DaemonPC, TypeOK,
       Task, local, history, world

LEMMA TypeLockUserForDispatch ==
    ASSUME TypeOK, NEW h \in Handler, LockUserForDispatch(h) PROVE TypeOK'
  BY ConstantAssumption
     DEF LockUserForDispatch, At, Goto, Released, CommitUser, HandlerPC,
       DaemonPC, TypeOK, Task, ledger, history, world

LEMMA TypeStartSelect ==
    ASSUME TypeOK, NEW h \in Handler, StartSelect(h) PROVE TypeOK'
<1> USE ConstantAssumption
<1> DEFINE m == cur[h]
<1>1. m \in Msg /\ row[m] \in Row
  BY DEF StartSelect, At, TypeOK, Task
<1>2. /\ rowLock' \in [Msg -> Task \cup {None}]
      /\ userLock' \in [User -> Task \cup {None}]
      /\ userShare' \in [User -> SUBSET Task]
  <2>1. CASE EndTx(h)
    BY <2>1, EndTxType
  <2>2. CASE rowLock' = [rowLock EXCEPT ![m] = h] /\ UNCHANGED users
    BY <1>1, <2>2 DEF TypeOK, Task, users
  <2>3. CASE UNCHANGED <<ledger, users>>
    BY <2>3 DEF TypeOK, ledger, users
  <2> QED
    BY <2>1, <2>2, <2>3 DEF StartSelect
<1>3. known' \subseteq User /\ row' = row
  BY DEF StartSelect, CommitUser, TypeOK, Task, users, ledger
<1>4. cur' \in [Task -> Msg \cup {None}] /\ draft' \in [Task -> Row]
  <2>1. CASE Forget(h)
    BY <2>1, ForgetType DEF Task
  <2>2. CASE draft' = [draft EXCEPT ![h] = Restarted(row[m])] /\ cur' = cur
    <3>1. Restarted(row[m]) \in Row
      BY <1>1, RowOps
    <3> QED
      BY <2>2, <3>1 DEF TypeOK
  <2>3. CASE UNCHANGED <<cur, draft>>
    BY <2>3 DEF TypeOK
  <2> QED
    BY <2>1, <2>2, <2>3 DEF StartSelect, local
<1>5. resp' \in [Handler -> {"none", "own", "unmarked", "cached", "denied"}]
  BY DEF StartSelect, TypeOK, local
<1>6. /\ \E p \in HandlerPC : Goto(h, p)
      /\ pc'[h] # "idle" => cur' = cur
      /\ \A k \in Task \ {h} : cur'[k] = cur[k]
  BY DEF StartSelect, Goto, Worker, HandlerPC, Forget, TypeOK, Task, local
<1> QED
  BY <1>1, <1>2, <1>3, <1>4, <1>5, <1>6
     DEF StartSelect, Goto, TypeOK, Task, world, history

LEMMA TypeStartInsert ==
    ASSUME TypeOK, NEW h \in Handler, StartInsert(h) PROVE TypeOK'
<1> USE ConstantAssumption
<1>1. cur[h] \in Msg
  BY DEF StartInsert, At, TypeOK, Task, history, world
<1>2. /\ rowLock' \in [Msg -> Task \cup {None}]
      /\ userLock' \in [User -> Task \cup {None}]
      /\ userShare' \in [User -> SUBSET Task]
  BY <1>1 DEF StartInsert, TypeOK, Task, history, world
<1>3. cur' \in [Task -> Msg \cup {None}] /\ draft' \in [Task -> Row]
  BY <1>1, AbsentRow, RowOps DEF StartInsert, TypeOK, Task, history, world
<1> QED
  BY <1>1, <1>2, <1>3 DEF StartInsert, Worker, At, Goto, HandlerPC, DaemonPC,
     TypeOK, Task, history, world

LEMMA TypeDispatch ==
    ASSUME TypeOK, NEW h \in Handler, Dispatch(h) PROVE TypeOK'
<1> USE ConstantAssumption
<1>1. cur[h] \in Msg
  BY DEF Dispatch, At, TypeOK, Task, world
<1>2. row' \in [Msg -> Row]
  BY <1>1, RowOps DEF Dispatch, CommitExecution, TypeOK, Task, world
<1>3. /\ rowLock' \in [Msg -> Task \cup {None}]
      /\ userLock' \in [User -> Task \cup {None}]
      /\ userShare' \in [User -> SUBSET Task]
  BY <1>1, EndTxType DEF Dispatch, CommitExecution, TypeOK, Task, world
<1>4. known' \subseteq User
  BY <1>1 DEF Dispatch, CommitExecution, CommitUser, TypeOK, Task, world
<1> QED
  BY <1>1, <1>2, <1>3, <1>4 DEF Dispatch, CommitExecution, At, Goto,
     HandlerPC, DaemonPC, TypeOK, Task, world

LEMMA TypeDispatchFails ==
    ASSUME TypeOK, NEW h \in Handler, DispatchFails(h) PROVE TypeOK'
  BY ConstantAssumption
     DEF DispatchFails, At, Goto, EndTx, Released, Rollback, HandlerPC,
       DaemonPC, TypeOK, Task, local, world

LEMMA TypeLaneTaken ==
    ASSUME TypeOK, NEW h \in Handler, LaneTaken(h) PROVE TypeOK'
  BY ConstantAssumption
     DEF LaneTaken, At, Goto, EndTx, Released, Rollback, HandlerPC,
       DaemonPC, TypeOK, Task, world

LEMMA TypeDispatchSuppressed ==
    ASSUME TypeOK, NEW h \in Handler, DispatchSuppressed(h) PROVE TypeOK'
<1> USE ConstantAssumption
<1>1. cur[h] \in Msg
  BY DEF DispatchSuppressed, At, TypeOK, Task
<1>2. row' \in [Msg -> Row] /\ effects' \in [Msg -> Nat]
  BY <1>1, RowOps DEF DispatchSuppressed, TypeOK
<1> QED
  BY <1>1, <1>2 DEF DispatchSuppressed, Goto, HandlerPC, DaemonPC, TypeOK,
     Task, users, local, world

LEMMA TypeKycDownloaded ==
    ASSUME TypeOK, NEW h \in Handler, KycDownloaded(h) PROVE TypeOK'
  BY ConstantAssumption
     DEF KycDownloaded, At, Goto, HandlerPC, DaemonPC, TypeOK, Task, ledger,
       users, local, history, world

LEMMA TypeKycStore ==
    ASSUME TypeOK, NEW h \in Handler, KycStore(h) PROVE TypeOK'
<1> USE ConstantAssumption
<1>1. cur[h] \in Msg
  BY DEF KycStore, At, TypeOK, Task, ledger, local, history, world
<1>2. /\ rowLock' \in [Msg -> Task \cup {None}]
      /\ userLock' \in [User -> Task \cup {None}]
      /\ userShare' \in [User -> SUBSET Task]
  BY <1>1 DEF KycStore, TypeOK, Task, ledger, local, history, world
<1> QED
  BY <1>1, <1>2 DEF KycStore, At, Goto, HandlerPC, DaemonPC, TypeOK, Task,
     ledger, local, history, world

LEMMA TypeKycCommit ==
    ASSUME TypeOK, NEW h \in Handler, KycCommit(h) PROVE TypeOK'
<1> USE ConstantAssumption
<1>1. cur[h] \in Msg
  BY DEF KycCommit, At, TypeOK, Task, world
<1>2. row' \in [Msg -> Row]
  BY <1>1, RowOps DEF KycCommit, CommitExecution, TypeOK, Task, world
<1>3. /\ rowLock' \in [Msg -> Task \cup {None}]
      /\ userLock' \in [User -> Task \cup {None}]
      /\ userShare' \in [User -> SUBSET Task]
  BY <1>1, EndTxType DEF KycCommit, CommitExecution, TypeOK, Task, world
<1>4. known' \subseteq User
  BY <1>1 DEF KycCommit, CommitExecution, CommitUser, TypeOK, Task, world
<1>5. cur' \in [Task -> Msg \cup {None}] /\ draft' \in [Task -> Row]
  BY <1>1, ForgetType DEF KycCommit, TypeOK, Task, world
<1> QED
  BY <1>1, <1>2, <1>3, <1>4, <1>5 DEF KycCommit, CommitExecution, Sent,
     Forget, At, Goto, HandlerPC, DaemonPC, TypeOK, Task, world

LEMMA TypeKycFails ==
    ASSUME TypeOK, NEW h \in Handler, KycFails(h) PROVE TypeOK'
  BY ConstantAssumption
     DEF KycFails, At, Goto, EndTx, Released, Rollback, HandlerPC,
       DaemonPC, TypeOK, Task, local, world

LEMMA TypeMarkFailed ==
    ASSUME TypeOK, NEW h \in Handler, MarkFailed(h) PROVE TypeOK'
<1> USE ConstantAssumption
<1>1. cur[h] \in Msg
  BY DEF MarkFailed, At, TypeOK, Task, users, local, history, world
<1>2. row' \in [Msg -> Row]
  BY <1>1, RowOps DEF MarkFailed, TypeOK, Task, users, local, history, world
<1> QED
  BY <1>1, <1>2 DEF MarkFailed, At, Goto, HandlerPC, DaemonPC, TypeOK, Task,
     users, local, history, world

LEMMA TypeSafeFallback ==
    ASSUME TypeOK, NEW h \in Handler, SafeFallback(h) PROVE TypeOK'
<1> USE ConstantAssumption
<1>1. cur' \in [Task -> Msg \cup {None}] /\ draft' \in [Task -> Row]
  BY ForgetType DEF SafeFallback, TypeOK, Task, ledger, users, history, world
<1> QED
  BY <1>1 DEF SafeFallback, Forget, At, Goto, HandlerPC, DaemonPC, TypeOK,
     Task, ledger, users, history, world

LEMMA TypeSendResponse ==
    ASSUME TypeOK, NEW h \in Handler, SendResponse(h) PROVE TypeOK'
<1> USE ConstantAssumption
<1>1. cur[h] \in Msg
  BY DEF SendResponse, At, TypeOK, Task
<1>2. cur' \in [Task -> Msg \cup {None}] /\ draft' \in [Task -> Row]
  BY ForgetType DEF SendResponse, Forget, TypeOK, Task
<1>3. sends' \in [Msg -> Nat] /\ guard' \subseteq Msg
  BY <1>1 DEF SendResponse, Sent, SendGuardSet, TypeOK
<1>4. /\ \E p \in HandlerPC : Goto(h, p)
      /\ pc'[h] # "idle" => cur' = cur
      /\ \A k \in Task \ {h} : cur'[k] = cur[k]
  BY DEF SendResponse, Goto, HandlerPC, Forget, TypeOK, Task
<1> QED
  BY <1>1, <1>2, <1>3, <1>4
     DEF SendResponse, Goto, TypeOK, Task, ledger, users

LEMMA TypeMarkDelivered ==
    ASSUME TypeOK, NEW h \in Handler, MarkDelivered(h) PROVE TypeOK'
<1> USE ConstantAssumption
<1>1. cur[h] \in Msg
  BY DEF MarkDelivered, At, TypeOK, Task, users, history, world
<1>2. row' \in [Msg -> Row]
  BY <1>1, RowOps DEF MarkDelivered, TypeOK, Task, users, history, world
<1>3. cur' \in [Task -> Msg \cup {None}] /\ draft' \in [Task -> Row]
  BY <1>1, ForgetType DEF MarkDelivered, TypeOK, Task, users, history, world
<1> QED
  BY <1>1, <1>2, <1>3 DEF MarkDelivered, Forget, At, Goto, HandlerPC,
     DaemonPC, TypeOK, Task, users, history, world

LEMMA TypeWakeUp ==
    ASSUME TypeOK, NEW d \in Daemon, WakeUp(d) PROVE TypeOK'
  BY ConstantAssumption
     DEF WakeUp, At, Goto, HandlerPC, DaemonPC, TypeOK, Task, ledger, users,
       local, history, world

LEMMA TypeScanAndReclaim ==
    ASSUME TypeOK, NEW d \in Daemon, ScanAndReclaim(d) PROVE TypeOK'
<1> USE ConstantAssumption
<1>1. row' \in [Msg -> Row]
  BY RowOps DEF ScanAndReclaim, TypeOK, Task, users, local, history, world
<1> QED
  BY <1>1 DEF ScanAndReclaim, At, Goto, HandlerPC, DaemonPC, TypeOK, Task,
     users, local, history, world

LEMMA TypeScanAndReplay ==
    ASSUME TypeOK, NEW d \in Daemon, ScanAndReplay(d) PROVE TypeOK'
<1> USE ConstantAssumption
<1>1. /\ rowLock' \in [Msg -> Task \cup {None}]
      /\ userLock' \in [User -> Task \cup {None}]
      /\ userShare' \in [User -> SUBSET Task]
  BY DEF ScanAndReplay, Claim, TypeOK, Task, users, local, history, world
<1> QED
  BY <1>1 DEF ScanAndReplay, Claim, ReplayCandidates, At, Goto, HandlerPC,
     DaemonPC, TypeOK, Task, users, local, history, world

LEMMA TypeReplayNext ==
    ASSUME TypeOK, NEW d \in Daemon, ReplayNext(d) PROVE TypeOK'
<1> USE ConstantAssumption
<1>1. PICK m \in batch[d] : Take(d, m) /\ draft' \in {draft,
     [draft EXCEPT ![d] = row[m]]}
  BY DEF ReplayNext
<1>2. m \in Msg /\ draft' \in [Task -> Row]
  BY <1>1 DEF TypeOK, Task
<1>3. /\ rowLock' \in [Msg -> Task \cup {None}]
      /\ userLock' \in [User -> Task \cup {None}]
      /\ userShare' \in [User -> SUBSET Task]
  BY EndTxType DEF ReplayNext, TypeOK, Task
<1>4. /\ \E p \in {"bury", "failing", "replay"} : Goto(d, p)
      /\ UNCHANGED <<row, known, resp, world, history>>
  BY DEF ReplayNext, At, Goto, TypeOK, Task
<1>5. /\ cur' \in [Task -> Msg \cup {None}] /\ cur'[d] = m
      /\ \A t \in Task \ {d} : cur'[t] = cur[t]
      /\ batch' \in [Daemon -> SUBSET Msg]
  BY <1>1, <1>2 DEF Take, TypeOK, Task
<1>6. PICK p \in {"bury", "failing", "replay"} : pc' = [pc EXCEPT ![d] = p]
  BY <1>4 DEF Goto
<1>7. d \in Task \ Handler /\ Handler \subseteq Task /\ Daemon \subseteq Task
      /\ p \in DaemonPC
  BY <1>6 DEF Task, DaemonPC
<1> QED
  BY <1>2, <1>3, <1>4, <1>5, <1>6, <1>7 DEF TypeOK, world, history

LEMMA TypeReplayDone ==
    ASSUME TypeOK, NEW d \in Daemon, ReplayDone(d) PROVE TypeOK'
<1> USE ConstantAssumption
<1>1. /\ rowLock' \in [Msg -> Task \cup {None}]
      /\ userLock' \in [User -> Task \cup {None}]
      /\ userShare' \in [User -> SUBSET Task]
  BY EndTxType DEF ReplayDone, TypeOK, Task, history, world
<1>2. cur' \in [Task -> Msg \cup {None}] /\ draft' \in [Task -> Row]
  BY ForgetType DEF ReplayDone, TypeOK, Task, history, world
<1> QED
  BY <1>1, <1>2 DEF ReplayDone, Forget, At, Goto, HandlerPC, DaemonPC, TypeOK,
     Task, history, world

LEMMA TypeLoadFailedReplay ==
    ASSUME TypeOK, NEW d \in Daemon, LoadFailedReplay(d) PROVE TypeOK'
  BY ConstantAssumption
     DEF LoadFailedReplay, At, Goto, HandlerPC, DaemonPC, TypeOK, Task,
       ledger, users, history, world

LEMMA TypeRecordReplayFailure ==
    ASSUME TypeOK, NEW d \in Daemon, RecordReplayFailure(d) PROVE TypeOK'
<1> USE ConstantAssumption
<1>1. cur[d] \in Msg
  BY DEF RecordReplayFailure, At, TypeOK, Task, users, local, history, world
<1>2. row' \in [Msg -> Row]
  BY <1>1, RowOps, FlushedRow DEF RecordReplayFailure, TypeOK, Task, users,
     local, history, world
<1> QED
  BY <1>1, <1>2 DEF RecordReplayFailure, At, Goto, HandlerPC, DaemonPC,
     TypeOK, Task, users, local, history, world

LEMMA TypeMoveToDeadLetter ==
    ASSUME TypeOK, NEW d \in Daemon, MoveToDeadLetter(d) PROVE TypeOK'
<1> USE ConstantAssumption
<1>1. cur[d] \in Msg
  BY DEF MoveToDeadLetter, At, TypeOK, Task, local, history, world
<1>2. row' \in [Msg -> Row]
  BY <1>1, RowOps, FlushedRow DEF MoveToDeadLetter, TypeOK, Task, local,
     history, world
<1>3. /\ rowLock' \in [Msg -> Task \cup {None}]
      /\ userLock' \in [User -> Task \cup {None}]
      /\ userShare' \in [User -> SUBSET Task]
  BY <1>1, EndTxType DEF MoveToDeadLetter, TypeOK, Task, local, history, world
<1> QED
  BY <1>1, <1>2, <1>3 DEF MoveToDeadLetter, At, Goto, HandlerPC, DaemonPC,
     TypeOK, Task, local, history, world

LEMMA TypeScanAndDeliver ==
    ASSUME TypeOK, NEW d \in Daemon, ScanAndDeliver(d) PROVE TypeOK'
<1> USE ConstantAssumption
<1>1. /\ rowLock' \in [Msg -> Task \cup {None}]
      /\ userLock' \in [User -> Task \cup {None}]
      /\ userShare' \in [User -> SUBSET Task]
  BY DEF ScanAndDeliver, Claim, TypeOK, Task, users, local, history, world
<1> QED
  BY <1>1 DEF ScanAndDeliver, Claim, Undelivered, At, Goto, HandlerPC,
     DaemonPC, TypeOK, Task, users, local, history, world

LEMMA TypeDeliverSent ==
    ASSUME TypeOK, NEW d \in Daemon, NEW m \in Msg, DeliverSent(d,
       m) PROVE TypeOK'
<1> USE ConstantAssumption
<1>1. draft' \in [Task -> Row]
  BY RowOps DEF DeliverSent, TypeOK, Task
<1> QED
  BY <1>1 DEF DeliverSent, Take, Sent, At, Goto, HandlerPC, DaemonPC, TypeOK,
     Task, ledger, users, world

LEMMA TypeDeliverSkipped ==
    ASSUME TypeOK, NEW d \in Daemon, NEW m \in Msg, DeliverSkipped(d,
       m) PROVE TypeOK'
<1> USE ConstantAssumption
<1>1. draft' \in [Task -> Row]
  BY RowOps DEF DeliverSkipped, TypeOK, Task
<1> QED
  BY <1>1 DEF DeliverSkipped, Take, At, Goto, HandlerPC, DaemonPC, TypeOK,
     Task, ledger, users, history, world

LEMMA TypeDeliverGivenUp ==
    ASSUME TypeOK, NEW d \in Daemon, NEW m \in Msg, DeliverGivenUp(d,
       m) PROVE TypeOK'
<1> USE ConstantAssumption
<1>1. draft' \in [Task -> Row]
  BY RowOps DEF DeliverGivenUp, TypeOK, Task
<1> QED
  BY <1>1 DEF DeliverGivenUp, Take, At, HandlerPC, DaemonPC, TypeOK, Task,
     ledger, users, history, world

LEMMA TypeDeliverMark ==
    ASSUME TypeOK, NEW d \in Daemon, DeliverMark(d) PROVE TypeOK'
<1> USE ConstantAssumption
<1>1. cur[d] \in Msg
  BY DEF DeliverMark, At, TypeOK, Task, local, history, world
<1>2. row' \in [Msg -> Row]
  BY <1>1, RowOps DEF DeliverMark, TypeOK, Task, local, history, world
<1>3. /\ rowLock' \in [Msg -> Task \cup {None}]
      /\ userLock' \in [User -> Task \cup {None}]
      /\ userShare' \in [User -> SUBSET Task]
  BY <1>1, EndTxType DEF DeliverMark, TypeOK, Task, local, history, world
<1> QED
  BY <1>1, <1>2, <1>3 DEF DeliverMark, At, Goto, HandlerPC, DaemonPC, TypeOK,
     Task, local, history, world

LEMMA TypeDeliverDone ==
    ASSUME TypeOK, NEW d \in Daemon, DeliverDone(d) PROVE TypeOK'
<1> USE ConstantAssumption
<1>1. /\ rowLock' \in [Msg -> Task \cup {None}]
      /\ userLock' \in [User -> Task \cup {None}]
      /\ userShare' \in [User -> SUBSET Task]
  BY EndTxType DEF DeliverDone, TypeOK, Task, history, world
<1>2. cur' \in [Task -> Msg \cup {None}] /\ draft' \in [Task -> Row]
  BY ForgetType DEF DeliverDone, TypeOK, Task, history, world
<1> QED
  BY <1>1, <1>2 DEF DeliverDone, Forget, At, Goto, HandlerPC, DaemonPC,
     TypeOK, Task, history, world

LEMMA TypeElapse ==
    ASSUME TypeOK, NEW m \in Msg, Elapse(m) PROVE TypeOK'
<1>1. \A r \in Row : Aged(r) \in Row
  BY DEF Aged, Row, Age
<1>2. Aged(row[m]) \in Row
  BY <1>1 DEF TypeOK
<1>3. row' \in [Msg -> Row]
  BY <1>2 DEF Elapse, TypeOK
<1> QED
  BY <1>3 DEF Elapse, HandlerPC, DaemonPC, TypeOK, Task, users, local,
     history, world

LEMMA TypeGuardExpires ==
    ASSUME TypeOK, NEW m \in Msg, GuardExpires(m) PROVE TypeOK'
  BY DEF GuardExpires, HandlerPC, DaemonPC, TypeOK, Task, ledger, users,
     local, history

LEMMA TypeDies ==
    ASSUME TypeOK, NEW p \in Process, Dies(p), crashes' \in Nat PROVE TypeOK'
<1> USE ConstantAssumption
<1>1. draft' \in [Task -> Row]
  BY AbsentRow DEF Dies, TypeOK
<1> QED
  BY <1>1 DEF Dies, HandlerPC, DaemonPC, TypeOK, Task, history

LEMMA TypeStep == TypeOK /\ [Next]_vars => TypeOK'
<1> SUFFICES ASSUME TypeOK, [Next]_vars PROVE TypeOK'
  OBVIOUS
<1>1. ASSUME NEW h \in Handler, HandlerStep(h) PROVE TypeOK'
  BY <1>1, TypeGetOrCreateUser, TypeApologised, TypeRateLimited, TypeExtracted,
     TypePhase1Fails, TypeLockUserForDispatch, TypeStartSelect,
     TypeStartInsert, TypeDispatch, TypeDispatchFails, TypeLaneTaken,
     TypeDispatchSuppressed, TypeKycDownloaded,
     TypeKycStore, TypeKycCommit, TypeKycFails, TypeMarkFailed,
     TypeSafeFallback, TypeSendResponse, TypeMarkDelivered
     DEF HandlerStep
<1>2. ASSUME NEW h \in Handler, NEW m \in Msg, Receive(h, m) PROVE TypeOK'
  BY <1>2, TypeReceive
<1>3. ASSUME NEW d \in Daemon, DaemonStep(d) PROVE TypeOK'
  BY <1>3, TypeWakeUp, TypeScanAndReclaim, TypeScanAndReplay, TypeReplayNext,
     TypeReplayDone, TypeLoadFailedReplay, TypeRecordReplayFailure,
     TypeMoveToDeadLetter, TypeScanAndDeliver, TypeDeliverSent,
     TypeDeliverSkipped, TypeDeliverGivenUp, TypeDeliverMark, TypeDeliverDone
     DEF DaemonStep
<1>4. ASSUME NEW m \in Msg, Elapse(m) \/ GuardExpires(m) PROVE TypeOK'
  BY <1>4, TypeElapse, TypeGuardExpires
<1>5. ASSUME NEW p \in Process, Crash(p) \/ WorkerTimeout(p) PROVE TypeOK'
  <2>1. crashes' \in Nat
    BY <1>5 DEF Crash, WorkerTimeout, TypeOK
  <2> QED
    BY <1>5, <2>1, TypeDies DEF Crash, WorkerTimeout
<1>6. CASE UNCHANGED vars
  BY <1>6 DEF TypeOK, vars, ledger, users, local, world, history
<1> QED
  BY <1>1, <1>2, <1>3, <1>4, <1>5, <1>6 DEF Next

\* Every variable keeps its type, for any number of messages, requests,
\* daemons and workers, and any rows an earlier release left behind.
THEOREM TypeCorrect == Spec => []TypeOK
<1>1. Init => TypeOK
  BY TypeInit
<1>2. TypeOK /\ [Next]_vars => TypeOK'
  BY TypeStep
<1> QED
  BY <1>1, <1>2, PTL DEF Spec

-----------------------------------------------------------------------------
(* Safety.  The inductive invariant, for texts.                            *)

\* A text that is being executed has the lock on its sender ...
DispatchLock ==
    \A h \in Handler : Executing(h) => userLock[UserOf[cur[h]]] = h

\* ... and was not recorded when it got it.
Unrecorded ==
    \A h \in Handler :
        Executing(h) /\ pc[h] \in {"insert", "dispatch"} /\ cur[h] \notin undone
            => row[cur[h]].status # "SUCCESS"

\* Only uploads go the way of uploads; what is marked failed, or committed after
\* the dispatcher rolled back by itself, was rolled back.
Routes ==
    \A h \in Handler :
        /\ pc[h] \in {"kyc", "kycStore", "kycFile", "kycConfirm"}
               => cur[h] \in Media
        /\ pc[h] = "dispatch" => cur[h] \in Text
        /\ pc[h] = "markFailed" => cur[h] \in undone
        /\ pc[h] = "suppressed" => cur[h] \in Text \cap undone

InFlight(h, m) ==
    /\ cur[h] = m
    /\ pc[h] \in {"user", "extract", "lock", "select", "insert", "dispatch"}

Replaying(d, m) ==
    /\ pc[d] \in {"replay", "failing", "record", "bury"}
    /\ m \in batch[d] \/ (m = cur[d] /\ pc[d] # "replay")

\* Nobody has a row of a text that is in flight but the request that commits it,
FirstDelivery ==
    \A h \in Handler, m \in Text \ undone :
        InFlight(h, m) => row[m].status \in {"ABSENT", "SUCCESS"}

\* so the daemon never replays a text that was, or will be, executed.
ReplaysUnexecuted ==
    \A d \in Daemon, m \in Text \ undone :
        Replaying(d, m) => row[m].status \notin {"ABSENT", "SUCCESS"}

SafeInv ==
    /\ DispatchLock /\ Unrecorded /\ Routes /\ FirstDelivery
    /\ ReplaysUnexecuted /\ ExecutedAtMostOnce /\ ExecutedIsRecorded

LEMMA SafeReceive ==
    ASSUME TypeOK, SafeInv, NEW h \in Handler, NEW m \in Msg, Receive(h, m)
    PROVE  SafeInv'
  BY ConstantAssumption, SMTT(20) DEF SafeInv, DispatchLock, Unrecorded,
     Routes, FirstDelivery, ReplaysUnexecuted, ExecutedAtMostOnce,
     ExecutedIsRecorded, Executing, InFlight, Replaying, Text, Receive, At,
     Goto, Exists, ledger, users, history, TypeOK, Task

\* Whoever is about to lock a sender finds none of that sender's texts executing.
LEMMA SenderFree ==
    ASSUME TypeOK, DispatchLock, NEW h \in Handler, NEW p, At(h, p),
           \/ p \in {"lock", "kycStore"}
           \/ p = "user" /\ UserOf[cur[h]] \notin known
    PROVE  \A k \in Handler \ {h} :
               Executing(k) => UserOf[cur[k]] # UserOf[cur[h]]
  BY DEF At, WaitsFor, WaitsForUser, DispatchLock, Task

LEMMA SafeGetOrCreateUser ==
    ASSUME TypeOK, SafeInv, NEW h \in Handler, GetOrCreateUser(h) PROVE SafeInv'
<1>1. \A k \in Handler \ {h} : Executing(k) /\ UserOf[cur[h]] \notin known
          => UserOf[cur[k]] # UserOf[cur[h]]
  BY SenderFree DEF GetOrCreateUser, SafeInv
<1>2. ~Executing(h)' /\ \A k \in Handler \ {h} : Executing(k)' = Executing(k)
  BY DEF GetOrCreateUser, At, Goto, Executing, TypeOK, Task, Text, local
<1>3. DispatchLock'
  BY <1>1, <1>2, ConstantAssumption
     DEF SafeInv, DispatchLock, GetOrCreateUser, TypeOK, Task, Text, Executing, local
<1> QED
  BY <1>3, ConstantAssumption
     DEF SafeInv, Unrecorded, Routes, FirstDelivery, ReplaysUnexecuted,
       ExecutedAtMostOnce, ExecutedIsRecorded, Executing, InFlight, Replaying, Text,
       GetOrCreateUser, At, Goto, Task, TypeOK, ledger, local, history

LEMMA SafeApologised ==
    ASSUME TypeOK, SafeInv, NEW h \in Handler, Apologised(h) PROVE SafeInv'
  BY ConstantAssumption, SMTT(20) DEF SafeInv, DispatchLock, Unrecorded,
     Routes, FirstDelivery, ReplaysUnexecuted, ExecutedAtMostOnce,
     ExecutedIsRecorded, Executing, InFlight, Replaying, Text, Apologised,
     At, Goto, Forget, EndTx, Released, Absent, NewRow, history, TypeOK, Task

LEMMA SafeRateLimited ==
    ASSUME TypeOK, SafeInv, NEW h \in Handler, RateLimited(h) PROVE SafeInv'
  BY ConstantAssumption, SMTT(20) DEF SafeInv, DispatchLock, Unrecorded,
     Routes, FirstDelivery, ReplaysUnexecuted, ExecutedAtMostOnce,
     ExecutedIsRecorded, Executing, InFlight, Replaying, Text, RateLimited,
     At, Goto, Forget, Exists, Absent, NewRow, ledger, history, TypeOK, Task

LEMMA SafeExtracted ==
    ASSUME TypeOK, SafeInv, NEW h \in Handler, Extracted(h) PROVE SafeInv'
  BY ConstantAssumption, SMTT(20) DEF SafeInv, DispatchLock, Unrecorded,
     Routes, FirstDelivery, ReplaysUnexecuted, ExecutedAtMostOnce,
     ExecutedIsRecorded, Executing, InFlight, Replaying, Text, Extracted, At,
     Goto, Exists, ledger, users, local, history, world, TypeOK, Task

LEMMA SafePhase1Fails ==
    ASSUME TypeOK, SafeInv, NEW h \in Handler, Phase1Fails(h) PROVE SafeInv'
  BY ConstantAssumption, SMTT(20) DEF SafeInv, DispatchLock, Unrecorded,
     Routes, FirstDelivery, ReplaysUnexecuted, ExecutedAtMostOnce,
     ExecutedIsRecorded, Executing, InFlight, Replaying, Text, Phase1Fails,
     At, Goto, EndTx, Released, Exists, local, history, world, TypeOK, Task

LEMMA SafeLockUserForDispatch ==
    ASSUME TypeOK, SafeInv, NEW h \in Handler, LockUserForDispatch(h) PROVE SafeInv'
<1>1. \A k \in Handler \ {h} : Executing(k) => UserOf[cur[k]] # UserOf[cur[h]]
  BY SenderFree DEF LockUserForDispatch, SafeInv
<1>2. \A k \in Handler \ {h} : Executing(k)' = Executing(k)
  BY DEF LockUserForDispatch, At, Goto, Executing, TypeOK, Task
<1>3. \A u \in User : userLock[u] # h =>
          \/ userLock'[u] = userLock[u]
          \/ u = UserOf[cur[h]]
  BY DEF LockUserForDispatch, Released, TypeOK
<1>4. Executing(h)' => userLock'[UserOf[cur'[h]]] = h
  BY ConstantAssumption
     DEF LockUserForDispatch, At, Goto, Executing, TypeOK, Task, Text
<1>5. DispatchLock'
  BY <1>1, <1>2, <1>3, <1>4, ConstantAssumption
     DEF SafeInv, DispatchLock, LockUserForDispatch, TypeOK, Task, Text, Executing
<1> QED
  BY <1>5, ConstantAssumption
     DEF SafeInv, Unrecorded, Routes, FirstDelivery, ReplaysUnexecuted,
       ExecutedAtMostOnce, ExecutedIsRecorded, Executing, InFlight, Replaying, Text,
       LockUserForDispatch, At, Goto, Task, TypeOK, ledger, history

LEMMA SafeStartSelect ==
    ASSUME TypeOK, SafeInv, NEW h \in Handler, StartSelect(h) PROVE SafeInv'
  BY ConstantAssumption, SMTT(20) DEF SafeInv, DispatchLock, Unrecorded,
     Routes, FirstDelivery, ReplaysUnexecuted, ExecutedAtMostOnce,
     ExecutedIsRecorded, Executing, InFlight, Replaying, Text, StartSelect,
     At, Goto, Forget, EndTx, Released, CommitUser, Exists, Worker, Restarted,
     StartRefuses, StartRestarts, Absent, NewRow, ledger, users, local,
     history, world, TypeOK, Task

LEMMA SafeStartInsert ==
    ASSUME TypeOK, SafeInv, NEW h \in Handler, StartInsert(h) PROVE SafeInv'
  BY ConstantAssumption, SMTT(20) DEF SafeInv, DispatchLock, Unrecorded,
     Routes, FirstDelivery, ReplaysUnexecuted, ExecutedAtMostOnce,
     ExecutedIsRecorded, Executing, InFlight, Replaying, Text, StartInsert,
     At, Goto, Exists, Worker, NewRow, history, world, TypeOK, Task

\* An execution commits alone: nobody else executes its text, and the daemon
\* does not replay it.
LEMMA SafeDispatch ==
    ASSUME TypeOK, SafeInv, NEW h \in Handler, Dispatch(h) PROVE SafeInv'
<1> DEFINE m == cur[h]
<1> USE ConstantAssumption DEF SafeInv
<1>1. m \in Text /\ pc[h] = "dispatch" /\ Executing(h) /\ draft[h] \in Row
  BY DEF Dispatch, At, Routes, Executing, TypeOK, Task
<1>2. PICK r : r \in {draft[h], Completed(draft[h])} /\ CommitExecution(h, r)
               /\ (~Exists(m) => r = Completed(draft[h]))
  BY DEF Dispatch
<1>3. /\ \A n \in Msg \ {m} : row'[n] = row[n] /\ effects'[n] = effects[n]
      /\ effects'[m] = effects[m] + 1
  BY <1>1, <1>2 DEF CommitExecution, TypeOK, Text
<1>4. /\ ~Executing(h)' /\ pc'[h] = "send" /\ UNCHANGED <<cur, batch, undone>>
      /\ \A t \in Task \ {h} : pc'[t] = pc[t]
  BY DEF Dispatch, Goto, Executing, TypeOK, Task
<1>5. m \notin undone => ~Exists(m) /\ row'[m].status = "SUCCESS"
  <2>1. m \notin undone => ~Exists(m)
    BY <1>1 DEF FirstDelivery, Unrecorded, InFlight, Exists
  <2>2. row' = [row EXCEPT ![m] = r]
    BY <1>2 DEF CommitExecution
  <2> QED
    BY <1>1, <1>2, <2>1, <2>2 DEF Completed, TypeOK, Row, Text
<1>6. \A k \in Handler \ {h} : Executing(k) => cur[k] # m
  BY <1>1 DEF DispatchLock
<1>7. DispatchLock'
  BY <1>2, <1>4 DEF DispatchLock, CommitExecution, EndTx, Released, Executing,
     TypeOK, Task, Text
<1>8. Unrecorded'
  BY <1>3, <1>4, <1>6 DEF Unrecorded, Executing, TypeOK, Task, Text
<1>9. Routes'
  BY <1>4 DEF Routes, Task
<1>10. FirstDelivery'
  BY <1>3, <1>4, <1>5 DEF FirstDelivery, InFlight, Task, Text
<1>11. m \notin undone => \A d \in Daemon : ~Replaying(d, m)
  BY <1>1 DEF FirstDelivery, ReplaysUnexecuted, InFlight
<1>12. ReplaysUnexecuted'
  BY <1>3, <1>4, <1>11 DEF ReplaysUnexecuted, Replaying, Task, Text
<1>13. m \notin undone => effects[m] = 0
  BY <1>1 DEF Unrecorded, ExecutedIsRecorded, TypeOK, Text
<1>14. ExecutedAtMostOnce' /\ ExecutedIsRecorded'
  BY <1>3, <1>4, <1>5, <1>13 DEF ExecutedAtMostOnce, ExecutedIsRecorded, Text
<1> QED
  BY <1>7, <1>8, <1>9, <1>10, <1>12, <1>14

LEMMA SafeDispatchFails ==
    ASSUME TypeOK, SafeInv, NEW h \in Handler, DispatchFails(h) PROVE SafeInv'
  BY ConstantAssumption, SMTT(20) DEF SafeInv, DispatchLock, Unrecorded,
     Routes, FirstDelivery, ReplaysUnexecuted, ExecutedAtMostOnce,
     ExecutedIsRecorded, Executing, InFlight, Replaying, Text, DispatchFails,
     At, Goto, EndTx, Released, Rollback, Exists, local, world, TypeOK,
     Task

LEMMA SafeLaneTaken ==
    ASSUME TypeOK, SafeInv, NEW h \in Handler, LaneTaken(h) PROVE SafeInv'
  BY ConstantAssumption, SMTT(20) DEF SafeInv, DispatchLock, Unrecorded,
     Routes, FirstDelivery, ReplaysUnexecuted, ExecutedAtMostOnce,
     ExecutedIsRecorded, Executing, InFlight, Replaying, Text, LaneTaken,
     At, Goto, EndTx, Released, Rollback, world, TypeOK, Task

\* What it commits without the lock is a text that was rolled back.
LEMMA SafeDispatchSuppressed ==
    ASSUME TypeOK, SafeInv, NEW h \in Handler, DispatchSuppressed(h)
    PROVE  SafeInv'
<1> USE ConstantAssumption DEF SafeInv
<1>1. cur[h] \in Text \cap undone
  BY DEF DispatchSuppressed, At, Routes
<1>2. \A n \in Msg \ undone : row'[n] = row[n] /\ effects'[n] = effects[n]
  BY <1>1 DEF DispatchSuppressed, TypeOK, Text
<1>3. /\ pc'[h] = "send" /\ UNCHANGED <<cur, batch, userLock, undone>>
      /\ \A t \in Task \ {h} : pc'[t] = pc[t]
  BY DEF DispatchSuppressed, Goto, TypeOK, Task, users, local
<1>4. \A k \in Handler : k \in Task /\ (Executing(k)' => k # h /\ Executing(k))
  BY <1>3 DEF Executing, Task, Text
<1>5. DispatchLock' /\ Unrecorded'
  BY <1>2, <1>3, <1>4 DEF DispatchLock, Unrecorded, Executing, Text, Task
<1>6. Routes' /\ FirstDelivery'
  BY <1>2, <1>3 DEF Routes, FirstDelivery, InFlight, Text, Task
<1>7. ReplaysUnexecuted'
  BY <1>2, <1>3 DEF ReplaysUnexecuted, Replaying, Text, Task
<1>8. ExecutedAtMostOnce' /\ ExecutedIsRecorded'
  BY <1>2, <1>3 DEF ExecutedAtMostOnce, ExecutedIsRecorded, Text
<1> QED
  BY <1>5, <1>6, <1>7, <1>8

LEMMA SafeKycDownloaded ==
    ASSUME TypeOK, SafeInv, NEW h \in Handler, KycDownloaded(h) PROVE SafeInv'
  BY ConstantAssumption, SMTT(20) DEF SafeInv, DispatchLock, Unrecorded,
     Routes, FirstDelivery, ReplaysUnexecuted, ExecutedAtMostOnce,
     ExecutedIsRecorded, Executing, InFlight, Replaying, Text, KycDownloaded,
     At, Goto, Exists, ledger, users, local, history, world, TypeOK, Task

LEMMA SafeKycStore ==
    ASSUME TypeOK, SafeInv, NEW h \in Handler, KycStore(h) PROVE SafeInv'
<1>1. \A k \in Handler \ {h} : Executing(k) /\ pc[h] = "kycStore"
          => UserOf[cur[k]] # UserOf[cur[h]]
  BY SenderFree DEF KycStore, SafeInv, At
<1>2. \A k \in Handler : Executing(k)' => Executing(k) /\ k # h
  BY DEF KycStore, At, Goto, Executing, TypeOK, Task, local
<1>3. DispatchLock'
  BY <1>1, <1>2, ConstantAssumption
     DEF SafeInv, DispatchLock, KycStore, At, TypeOK, Task, Text, Executing, local
<1> QED
  BY <1>3, ConstantAssumption
     DEF SafeInv, Unrecorded, Routes, FirstDelivery, ReplaysUnexecuted,
       ExecutedAtMostOnce, ExecutedIsRecorded, Executing, InFlight, Replaying, Text,
       KycStore, At, Goto, Task, TypeOK, ledger, local, history

LEMMA SafeKycCommit ==
    ASSUME TypeOK, SafeInv, NEW h \in Handler, KycCommit(h) PROVE SafeInv'
<1> USE ConstantAssumption DEF SafeInv
<1>1. cur[h] \in Media
  BY DEF KycCommit, At, Routes
<1>2. \A n \in Text : row'[n] = row[n] /\ effects'[n] = effects[n]
  BY <1>1 DEF KycCommit, CommitExecution, TypeOK, Text
<1>3. /\ pc'[h] = "idle" /\ UNCHANGED <<batch, undone>>
      /\ \A t \in Task \ {h} : pc'[t] = pc[t] /\ cur'[t] = cur[t]
  BY DEF KycCommit, Goto, Forget, TypeOK, Task
<1>4. DispatchLock'
  BY <1>3 DEF DispatchLock, KycCommit, CommitExecution, EndTx, Released, Executing,
       TypeOK, Task, Text
<1> QED
  BY <1>2, <1>3, <1>4
     DEF Unrecorded, Routes, FirstDelivery, ReplaysUnexecuted, ExecutedAtMostOnce,
       ExecutedIsRecorded, Executing, InFlight, Replaying, Task, Text

LEMMA SafeKycFails ==
    ASSUME TypeOK, SafeInv, NEW h \in Handler, KycFails(h) PROVE SafeInv'
  BY ConstantAssumption, SMTT(20) DEF SafeInv, DispatchLock, Unrecorded,
     Routes, FirstDelivery, ReplaysUnexecuted, ExecutedAtMostOnce,
     ExecutedIsRecorded, Executing, InFlight, Replaying, Text, KycFails, At,
     Goto, EndTx, Released, Rollback, Exists, local, world, TypeOK, Task

LEMMA SafeMarkFailed ==
    ASSUME TypeOK, SafeInv, NEW h \in Handler, MarkFailed(h) PROVE SafeInv'
  BY ConstantAssumption, SMTT(20) DEF SafeInv, DispatchLock, Unrecorded,
     Routes, FirstDelivery, ReplaysUnexecuted, ExecutedAtMostOnce,
     ExecutedIsRecorded, Executing, InFlight, Replaying, Text, MarkFailed, At,
     Goto, Exists, Failed, users, local, history, world, TypeOK, Task

LEMMA SafeSafeFallback ==
    ASSUME TypeOK, SafeInv, NEW h \in Handler, SafeFallback(h) PROVE SafeInv'
  BY ConstantAssumption, SMTT(20) DEF SafeInv, DispatchLock, Unrecorded,
     Routes, FirstDelivery, ReplaysUnexecuted, ExecutedAtMostOnce,
     ExecutedIsRecorded, Executing, InFlight, Replaying, Text, SafeFallback,
     At, Goto, Forget, Exists, Absent, NewRow, ledger, users, history, world,
     TypeOK, Task

LEMMA SafeSendResponse ==
    ASSUME TypeOK, SafeInv, NEW h \in Handler, SendResponse(h) PROVE SafeInv'
  BY ConstantAssumption, SMTT(20) DEF SafeInv, DispatchLock, Unrecorded,
     Routes, FirstDelivery, ReplaysUnexecuted, ExecutedAtMostOnce,
     ExecutedIsRecorded, Executing, InFlight, Replaying, Text, SendResponse,
     At, Goto, Forget, Exists, Absent, NewRow, ledger, users, TypeOK, Task

LEMMA SafeMarkDelivered ==
    ASSUME TypeOK, SafeInv, NEW h \in Handler, MarkDelivered(h) PROVE SafeInv'
  BY ConstantAssumption, SMTT(20) DEF SafeInv, DispatchLock, Unrecorded,
     Routes, FirstDelivery, ReplaysUnexecuted, ExecutedAtMostOnce,
     ExecutedIsRecorded, Executing, InFlight, Replaying, Text, MarkDelivered,
     At, Goto, Forget, Exists, Delivered, Absent, NewRow, users, history,
     world, TypeOK, Task

LEMMA SafeWakeUp ==
    ASSUME TypeOK, SafeInv, NEW d \in Daemon, WakeUp(d) PROVE SafeInv'
  BY ConstantAssumption, SMTT(20) DEF SafeInv, DispatchLock, Unrecorded,
     Routes, FirstDelivery, ReplaysUnexecuted, ExecutedAtMostOnce,
     ExecutedIsRecorded, Executing, InFlight, Replaying, Text, WakeUp, At,
     Goto, Exists, ledger, users, local, history, world, TypeOK, Task

\* The daemon rewrites rows of texts that were not executed, or that were rolled back.
LEMMA SafeScanAndReclaim ==
    ASSUME TypeOK, SafeInv, NEW d \in Daemon, ScanAndReclaim(d) PROVE SafeInv'
<1>1. \A r \in Row : Reclaimed(r).status = "IN_PROGRESS"
  BY DEF Reclaimed, Row
<1>2. \A m \in Msg : \/ row'[m].status = row[m].status
                     \/ row[m].status = "EXECUTING" /\ row'[m].status = "IN_PROGRESS"
  BY <1>1 DEF ScanAndReclaim, Stuck, TypeOK
<1> QED
  BY <1>2, ConstantAssumption
     DEF SafeInv, DispatchLock, Unrecorded, Routes, FirstDelivery, ReplaysUnexecuted,
       ExecutedAtMostOnce, ExecutedIsRecorded, Executing, InFlight, Replaying, Text,
       ScanAndReclaim, At, Goto, Task, TypeOK, users, local, history

LEMMA SafeScanAndReplay ==
    ASSUME TypeOK, SafeInv, NEW d \in Daemon, ScanAndReplay(d) PROVE SafeInv'
  BY ConstantAssumption, SMTT(20) DEF SafeInv, DispatchLock, Unrecorded,
     Routes, FirstDelivery, ReplaysUnexecuted, ExecutedAtMostOnce,
     ExecutedIsRecorded, Executing, InFlight, Replaying, Text, ScanAndReplay,
     At, Goto, Claim, ReplayCandidates, Exists, users, local, history, world,
     TypeOK, Task

LEMMA SafeReplayNext ==
    ASSUME TypeOK, SafeInv, NEW d \in Daemon, ReplayNext(d) PROVE SafeInv'
  BY ConstantAssumption, SMTT(20) DEF SafeInv, DispatchLock, Unrecorded,
     Routes, FirstDelivery, ReplaysUnexecuted, ExecutedAtMostOnce,
     ExecutedIsRecorded, Executing, InFlight, Replaying, Text, ReplayNext, At,
     Goto, Take, EndTx, Released, Exists, history, world, TypeOK, Task

LEMMA SafeReplayDone ==
    ASSUME TypeOK, SafeInv, NEW d \in Daemon, ReplayDone(d) PROVE SafeInv'
  BY ConstantAssumption, SMTT(20) DEF SafeInv, DispatchLock, Unrecorded,
     Routes, FirstDelivery, ReplaysUnexecuted, ExecutedAtMostOnce,
     ExecutedIsRecorded, Executing, InFlight, Replaying, Text, ReplayDone, At,
     Goto, Forget, EndTx, Released, Exists, Absent, NewRow, history, world,
     TypeOK, Task

LEMMA SafeLoadFailedReplay ==
    ASSUME TypeOK, SafeInv, NEW d \in Daemon, LoadFailedReplay(d) PROVE SafeInv'
  BY ConstantAssumption, SMTT(20) DEF SafeInv, DispatchLock, Unrecorded,
     Routes, FirstDelivery, ReplaysUnexecuted, ExecutedAtMostOnce,
     ExecutedIsRecorded, Executing, InFlight, Replaying, Text,
     LoadFailedReplay, At, Goto, Exists, ledger, users, history, world,
     TypeOK, Task

LEMMA FlushedStatus ==
    ASSUME NEW now \in Row, NEW loaded \in Row, NEW new \in Row
    PROVE  /\ [Flushed(now, loaded, new) EXCEPT !.age = "fresh"].status
                 \in {new.status, now.status}
           /\ [Flushed(now, loaded, new)
                 EXCEPT !.attempted = TRUE, !.age = "fresh"].status
                 \in {new.status, now.status}
  BY DEF Row, Flushed

\* What a daemon may do: end the replay of a row it holds, no more.
LEMMA DaemonRewrites ==
    ASSUME TypeOK, SafeInv, NEW d \in Daemon,
           \A m \in Msg : \/ row'[m].status = row[m].status
                          \/ /\ Replaying(d, m)
                             /\ row'[m].status \in {"DLQ", "FAILED"},
           \A t \in Task \ {d} : pc'[t] = pc[t],
           \A e \in Daemon \ {d} : batch'[e] = batch[e],
           \A m \in Msg : Replaying(d, m)' => Replaying(d, m),
           \A u \in User : userLock[u] \in Handler => userLock'[u] = userLock[u],
           UNCHANGED <<cur, effects, undone>>
    PROVE  SafeInv'
<1> USE ConstantAssumption DEF SafeInv, Text
<1>1. \A h \in Handler : h \in Task \ {d} /\ pc'[h] = pc[h]
  BY DEF Task
<1>2. \A h \in Handler : Executing(h)' = Executing(h)
  BY <1>1 DEF Executing
<1>3. DispatchLock'
  BY <1>2 DEF DispatchLock, Executing
<1>4. Unrecorded'
  BY <1>1, <1>2 DEF Unrecorded, Executing
<1>5. Routes'
  BY <1>1 DEF Routes
<1>6. FirstDelivery'
  BY <1>1 DEF FirstDelivery, ReplaysUnexecuted, InFlight
<1>7. ReplaysUnexecuted'
  <2>1. \A e \in Daemon, m \in Msg : Replaying(e, m)' => Replaying(e, m)
    BY DEF Replaying, Task
  <2> QED
    BY <2>1 DEF ReplaysUnexecuted
<1>8. ExecutedAtMostOnce' /\ ExecutedIsRecorded'
  BY DEF ExecutedAtMostOnce, ExecutedIsRecorded, ReplaysUnexecuted
<1> QED
  BY <1>3, <1>4, <1>5, <1>6, <1>7, <1>8

LEMMA SafeRecordReplayFailure ==
    ASSUME TypeOK, SafeInv, NEW d \in Daemon, RecordReplayFailure(d) PROVE SafeInv'
<1>1. d \in Task /\ cur[d] \in Msg /\ Replaying(d, cur[d])
  BY DEF RecordReplayFailure, At, Replaying, TypeOK, Task
<1>2. draft[d] \in Row /\ row[cur[d]] \in Row /\ ReplayFailed(draft[d]) \in Row
  BY <1>1, RowOps DEF TypeOK
<1>3. ReplayFailed(draft[d]).status \in {"DLQ", "FAILED"}
  BY <1>2 DEF ReplayFailed, Row
<1>4. \A m \in Msg : \/ row'[m].status = row[m].status
                     \/ Replaying(d, m) /\ row'[m].status \in {"DLQ", "FAILED"}
  BY <1>1, <1>2, <1>3, FlushedStatus DEF RecordReplayFailure, TypeOK
<1>5. /\ pc'[d] = "replay" /\ \A t \in Task \ {d} : pc'[t] = pc[t]
      /\ UNCHANGED <<users, cur, batch, effects, undone>>
  BY <1>1 DEF RecordReplayFailure, Goto, TypeOK, local, history
<1>6. \A m \in Msg : Replaying(d, m)' => Replaying(d, m)
  BY <1>5 DEF RecordReplayFailure, At, Replaying
<1> QED
  BY <1>4, <1>5, <1>6, DaemonRewrites DEF users

LEMMA SafeMoveToDeadLetter ==
    ASSUME TypeOK, SafeInv, NEW d \in Daemon, MoveToDeadLetter(d) PROVE SafeInv'
<1>1. d \in Task /\ cur[d] \in Msg /\ Replaying(d, cur[d])
  BY DEF MoveToDeadLetter, At, Replaying, TypeOK, Task
<1>2. draft[d] \in Row /\ row[cur[d]] \in Row /\ Buried(draft[d]) \in Row
  BY <1>1, RowOps DEF TypeOK
<1>3. Buried(draft[d]).status = "DLQ"
  BY <1>2 DEF Buried, Row
<1>4. \A m \in Msg : \/ row'[m].status = row[m].status
                     \/ Replaying(d, m) /\ row'[m].status \in {"DLQ", "FAILED"}
  BY <1>1, <1>2, <1>3, FlushedStatus DEF MoveToDeadLetter, TypeOK
<1>5. /\ pc'[d] = "replay" /\ \A t \in Task \ {d} : pc'[t] = pc[t]
      /\ UNCHANGED <<cur, batch, effects, undone>>
  BY <1>1 DEF MoveToDeadLetter, Goto, TypeOK, local, history
<1>6. \A m \in Msg : Replaying(d, m)' => Replaying(d, m)
  BY <1>5 DEF MoveToDeadLetter, At, Replaying
<1>7. \A u \in User : userLock[u] \in Handler => userLock'[u] = userLock[u]
  BY ConstantAssumption DEF MoveToDeadLetter, EndTx, Released, TypeOK
<1> QED
  BY <1>4, <1>5, <1>6, <1>7, DaemonRewrites

LEMMA SafeScanAndDeliver ==
    ASSUME TypeOK, SafeInv, NEW d \in Daemon, ScanAndDeliver(d) PROVE SafeInv'
  BY ConstantAssumption, SMTT(20) DEF SafeInv, DispatchLock, Unrecorded,
     Routes, FirstDelivery, ReplaysUnexecuted, ExecutedAtMostOnce,
     ExecutedIsRecorded, Executing, InFlight, Replaying, Text, ScanAndDeliver,
     At, Goto, Claim, Undelivered, Exists, users, local, history, world,
     TypeOK, Task

LEMMA SafeDeliverSent ==
    ASSUME TypeOK, SafeInv, NEW d \in Daemon, NEW m \in Msg, DeliverSent(d, m)
    PROVE  SafeInv'
  BY ConstantAssumption, SMTT(20) DEF SafeInv, DispatchLock, Unrecorded,
     Routes, FirstDelivery, ReplaysUnexecuted, ExecutedAtMostOnce,
     ExecutedIsRecorded, Executing, InFlight, Replaying, Text, DeliverSent,
     At, Goto, Take, Exists, Delivered, ledger, users, world, TypeOK, Task

LEMMA SafeDeliverSkipped ==
    ASSUME TypeOK, SafeInv, NEW d \in Daemon, NEW m \in Msg, DeliverSkipped(d, m)
    PROVE  SafeInv'
  BY ConstantAssumption, SMTT(20) DEF SafeInv, DispatchLock, Unrecorded,
     Routes, FirstDelivery, ReplaysUnexecuted, ExecutedAtMostOnce,
     ExecutedIsRecorded, Executing, InFlight, Replaying, Text, DeliverSkipped,
     At, Goto, Take, Exists, Skipped, ledger, users, history, world, TypeOK,
     Task

LEMMA SafeDeliverGivenUp ==
    ASSUME TypeOK, SafeInv, NEW d \in Daemon, NEW m \in Msg, DeliverGivenUp(d, m)
    PROVE  SafeInv'
  BY ConstantAssumption, SMTT(20) DEF SafeInv, DispatchLock, Unrecorded,
     Routes, FirstDelivery, ReplaysUnexecuted, ExecutedAtMostOnce,
     ExecutedIsRecorded, Executing, InFlight, Replaying, Text, DeliverGivenUp,
     At, Take, Exists, ledger, users, history, world, TypeOK, Task

LEMMA SafeDeliverMark ==
    ASSUME TypeOK, SafeInv, NEW d \in Daemon, DeliverMark(d) PROVE SafeInv'
<1>1. \A m \in Msg : row'[m].status = row[m].status
  BY DEF DeliverMark, At, Delivered, Skipped, TypeOK, Row, Task
<1>2. /\ pc'[d] = "sending" /\ \A t \in Task \ {d} : pc'[t] = pc[t]
      /\ UNCHANGED <<cur, batch, effects, undone>>
  BY DEF DeliverMark, Goto, TypeOK, Task, local, history
<1>3. \A m \in Msg : ~Replaying(d, m)'
  BY <1>2 DEF Replaying
<1>4. \A u \in User : userLock[u] \in Handler => userLock'[u] = userLock[u]
  BY ConstantAssumption DEF DeliverMark, EndTx, Released, TypeOK
<1> QED
  BY <1>1, <1>2, <1>3, <1>4, DaemonRewrites

LEMMA SafeDeliverDone ==
    ASSUME TypeOK, SafeInv, NEW d \in Daemon, DeliverDone(d) PROVE SafeInv'
  BY ConstantAssumption, SMTT(20) DEF SafeInv, DispatchLock, Unrecorded,
     Routes, FirstDelivery, ReplaysUnexecuted, ExecutedAtMostOnce,
     ExecutedIsRecorded, Executing, InFlight, Replaying, Text, DeliverDone,
     At, Goto, Forget, EndTx, Released, Exists, Absent, NewRow, history,
     world, TypeOK, Task

LEMMA SafeElapse ==
    ASSUME TypeOK, SafeInv, NEW m \in Msg, Elapse(m) PROVE SafeInv'
  BY ConstantAssumption, SMTT(20) DEF SafeInv, DispatchLock, Unrecorded,
     Routes, FirstDelivery, ReplaysUnexecuted, ExecutedAtMostOnce,
     ExecutedIsRecorded, Executing, InFlight, Replaying, Text, Elapse, Aged,
     users, local, history, world, TypeOK, Task

LEMMA SafeGuardExpires ==
    ASSUME TypeOK, SafeInv, NEW m \in Msg, GuardExpires(m) PROVE SafeInv'
  BY ConstantAssumption, SMTT(20) DEF SafeInv, DispatchLock, Unrecorded,
     Routes, FirstDelivery, ReplaysUnexecuted, ExecutedAtMostOnce,
     ExecutedIsRecorded, Executing, InFlight, Replaying, Text, GuardExpires,
     ledger, users, local, history, TypeOK, Task

LEMMA SafeDies ==
    ASSUME TypeOK, SafeInv, NEW p \in Process, Dies(p) PROVE SafeInv'
  BY ConstantAssumption, SMTT(20) DEF SafeInv, DispatchLock, Unrecorded,
     Routes, FirstDelivery, ReplaysUnexecuted, ExecutedAtMostOnce,
     ExecutedIsRecorded, Executing, InFlight, Replaying, Text, Dies, Absent,
     NewRow, history, TypeOK, Task

LEMMA SafeInit == Init => SafeInv
  BY ConstantAssumption
     DEF Init, SafeInv, DispatchLock, Unrecorded, Routes, InFlight, Replaying,
         FirstDelivery, ReplaysUnexecuted, ExecutedAtMostOnce,
         ExecutedIsRecorded, Executing, Text, Task

LEMMA SafeStep == TypeOK /\ SafeInv /\ [Next]_vars => SafeInv'
<1> SUFFICES ASSUME TypeOK, SafeInv, [Next]_vars PROVE SafeInv'
  OBVIOUS
<1>1. ASSUME NEW h \in Handler, HandlerStep(h) PROVE SafeInv'
  BY <1>1, SafeGetOrCreateUser, SafeApologised, SafeRateLimited, SafeExtracted,
     SafePhase1Fails, SafeLockUserForDispatch, SafeStartSelect,
     SafeStartInsert, SafeDispatch, SafeDispatchFails, SafeLaneTaken,
     SafeDispatchSuppressed, SafeKycDownloaded,
     SafeKycStore, SafeKycCommit, SafeKycFails, SafeMarkFailed,
     SafeSafeFallback, SafeSendResponse, SafeMarkDelivered DEF HandlerStep
<1>2. ASSUME NEW h \in Handler, NEW m \in Msg, Receive(h, m) PROVE SafeInv'
  BY <1>2, SafeReceive
<1>3. ASSUME NEW d \in Daemon, DaemonStep(d) PROVE SafeInv'
  BY <1>3, SafeWakeUp, SafeScanAndReclaim, SafeScanAndReplay, SafeReplayNext,
     SafeReplayDone, SafeLoadFailedReplay, SafeRecordReplayFailure,
     SafeMoveToDeadLetter, SafeScanAndDeliver, SafeDeliverMark,
     SafeDeliverDone, SafeDeliverSent, SafeDeliverSkipped,
     SafeDeliverGivenUp DEF DaemonStep
<1>4. ASSUME NEW m \in Msg, Elapse(m) \/ GuardExpires(m) PROVE SafeInv'
  BY <1>4, SafeElapse, SafeGuardExpires
<1>5. ASSUME NEW p \in Process, Crash(p) \/ WorkerTimeout(p) PROVE SafeInv'
  BY <1>5, SafeDies DEF Crash, WorkerTimeout
<1>6. CASE UNCHANGED vars
  BY <1>6
     DEF vars, ledger, users, local, world, history, SafeInv, DispatchLock,
         Unrecorded, Routes, InFlight, Replaying, FirstDelivery,
         ReplaysUnexecuted, ExecutedAtMostOnce, ExecutedIsRecorded, Executing
<1> QED
  BY <1>1, <1>2, <1>3, <1>4, <1>5, <1>6 DEF Next

\* The invariant holds in every reachable state.
LEMMA SafeAlways == Spec => [](TypeOK /\ SafeInv)
<1>1. Init => TypeOK /\ SafeInv
  BY TypeInit, SafeInit
<1>2. TypeOK /\ SafeInv /\ [Next]_vars => (TypeOK /\ SafeInv)'
  BY TypeStep, SafeStep
<1> QED
  BY <1>1, <1>2, PTL DEF Spec

\* The effects of a text no execution of which was rolled back are committed at
\* most once, whatever is delivered twice, crashes, times out or is replayed.
THEOREM ExecutesOnce == Spec => []ExecutedAtMostOnce
<1>1. SafeInv => ExecutedAtMostOnce
  BY DEF SafeInv
<1> QED
  BY SafeAlways, <1>1, PTL

\* The ledger keeps saying SUCCESS of such a text once it has been executed.
THEOREM RecordKept == Spec => []ExecutedIsRecorded
<1>1. SafeInv => ExecutedIsRecorded
  BY DEF SafeInv
<1> QED
  BY SafeAlways, <1>1, PTL

\* The lock on the sender's row keeps two texts of one sender from being
\* executed side by side, in one worker or in two.
THEOREM DispatchExclusion == Spec => []OneDispatchPerSender
<1>1. TypeOK /\ SafeInv => OneDispatchPerSender
  BY ConstantAssumption
     DEF SafeInv, DispatchLock, OneDispatchPerSender, TypeOK, Executing, Text
<1> QED
  BY SafeAlways, <1>1, PTL

-----------------------------------------------------------------------------
(* The replay counter and the dead letters.  Both are kept by one daemon only: *)
(* a second one counts from copies, and decides by reads, that the first has   *)
(* since overtaken.                                                            *)

\* Leader election keeps daemons to one while the lock's connection lives.
LoneDaemon == \A d, e \in Daemon : d = e

\* An earlier release counted no further.
CappedBacklog == \A r \in Backlog : r.retry <= MaxRetries

HoldPC == {"dispatch", "kyc", "kycStore", "kycFile", "kycConfirm"}
WorkPC == HoldPC \cup {"user", "extract", "lock", "select", "insert"}

\* A message a request works on has no row but that of its execution, so what
\* the request commits counts no retry; what the daemon works on is neither
\* executed nor dead, and has a retry left when it is about to be counted.
CapAt(t) ==
    /\ t \in Handler /\ pc[t] \in WorkPC /\ cur[t] \notin undone =>
         /\ row[cur[t]].status \in {"ABSENT", "SUCCESS"}
         /\ pc[t] \in HoldPC => draft[t].retry <= MaxRetries
    /\ t \in Daemon => \A m \in Msg \ undone :
         /\ Replaying(t, m) => row[m].status \notin {"ABSENT", "SUCCESS", "DLQ"}
         /\ pc[t] = "failing" /\ cur[t] = m => row[m].retry < MaxRetries
         /\ pc[t] = "record" /\ cur[t] = m => draft[t].retry < MaxRetries
    /\ t \in Daemon /\ pc[t] \in {"failing", "record", "bury"} => cur[t] \notin batch[t]

CapInv == RetryWithinCap /\ \A t \in Task : CapAt(t)

\* What a step of t does to the rows: an execution is recorded where there was
\* none, the daemon writes what is neither executed nor dead.
Orderly(t) ==
    /\ undone \subseteq undone'
    /\ \A m \in Msg \ undone' :
         \/ row'[m].status = row[m].status /\ row'[m].retry = row[m].retry
         \/ /\ row[m].status \in {"ABSENT", "SUCCESS"} /\ row'[m].status = "SUCCESS"
            /\ row'[m].retry <= MaxRetries
         \/ /\ t \in Daemon /\ row[m].status \notin {"ABSENT", "SUCCESS", "DLQ"}
            /\ row'[m].retry <= MaxRetries

OthersStay(t) ==
    \A s \in Task \ {t} :
        /\ pc'[s] = pc[s] /\ cur'[s] = cur[s] /\ draft'[s] = draft[s]
        /\ s \in Daemon => batch'[s] = batch[s]

DeadStay == \A m \in Msg \ undone' : row[m].status = "DLQ" => row'[m].status = "DLQ"

CapStep == CapInv' /\ DeadStay

LEMMA CapFrame ==
    ASSUME LoneDaemon, TypeOK, CapInv, NEW t \in Task, Orderly(t), OthersStay(t),
           CapAt(t)'
    PROVE  CapStep
<1>1. RetryWithinCap'
  BY DEF CapInv, RetryWithinCap, Orderly
<1>2. DeadStay
  BY DEF Orderly, DeadStay
<1>3. ASSUME NEW s \in Task \ {t} PROVE CapAt(s)'
  <2>1. CapAt(s)
    BY DEF CapInv
  <2>2. /\ pc'[s] = pc[s] /\ cur'[s] = cur[s] /\ draft'[s] = draft[s]
        /\ s \in Daemon => batch'[s] = batch[s]
    BY DEF OthersStay
  <2>3. s \in Handler /\ pc[s] \in WorkPC => cur[s] \in Msg
    BY DEF TypeOK, WorkPC, HoldPC
  <2>4. ASSUME s \in Handler, pc'[s] \in WorkPC, cur'[s] \notin undone'
        PROVE  /\ row'[cur'[s]].status \in {"ABSENT", "SUCCESS"}
               /\ pc'[s] \in HoldPC => draft'[s].retry <= MaxRetries
    <3>1. cur[s] \in Msg \ undone' /\ cur[s] \notin undone
      BY <2>2, <2>3, <2>4 DEF Orderly
    <3>2. /\ row[cur[s]].status \in {"ABSENT", "SUCCESS"}
          /\ pc[s] \in HoldPC => draft[s].retry <= MaxRetries
      BY <2>1, <2>2, <2>4, <3>1 DEF CapAt
    <3>3. row'[cur[s]].status \in {"ABSENT", "SUCCESS"}
      BY <3>1, <3>2 DEF Orderly
    <3> QED BY <2>2, <3>2, <3>3
  <2>5. ASSUME s \in Daemon, NEW m \in Msg \ undone'
        PROVE  /\ Replaying(s, m)' => row'[m].status \notin {"ABSENT", "SUCCESS", "DLQ"}
               /\ pc'[s] = "failing" /\ cur'[s] = m => row'[m].retry < MaxRetries
               /\ pc'[s] = "record" /\ cur'[s] = m => draft'[s].retry < MaxRetries
    <3>1. t \notin Daemon
      BY <2>5 DEF LoneDaemon
    <3>2. m \in Msg \ undone
      BY DEF Orderly
    <3>3. Replaying(s, m)' => Replaying(s, m)
      BY <2>2, <2>5 DEF Replaying
    <3>4. pc[s] = "failing" /\ cur[s] = m => Replaying(s, m)
      BY DEF Replaying
    <3>5. /\ Replaying(s, m) => row[m].status \notin {"ABSENT", "SUCCESS", "DLQ"}
          /\ pc[s] = "failing" /\ cur[s] = m => row[m].retry < MaxRetries
          /\ pc[s] = "record" /\ cur[s] = m => draft[s].retry < MaxRetries
      BY <2>1, <2>5, <3>2 DEF CapAt
    <3>6. Replaying(s, m) => row'[m].status = row[m].status /\ row'[m].retry = row[m].retry
      BY <3>1, <3>5 DEF Orderly
    <3> QED BY <2>2, <3>3, <3>4, <3>5, <3>6
  <2> QED BY <2>1, <2>2, <2>4, <2>5 DEF CapAt
<1> QED BY <1>1, <1>2, <1>3 DEF CapStep, CapInv

LEMMA OrderlyUnwritten ==
    ASSUME UNCHANGED row, undone \subseteq undone', NEW t
    PROVE  Orderly(t)
  BY DEF Orderly

LEMMA CapGetOrCreateUser ==
    ASSUME LoneDaemon, TypeOK, CapInv, NEW h \in Handler,
           GetOrCreateUser(h) PROVE CapStep
<1>1. h \in Task /\ h \notin Daemon
  BY ConstantAssumption DEF Task
<1>2. Orderly(h)
  BY OrderlyUnwritten DEF GetOrCreateUser, Rollback, ledger, history
<1>3. OthersStay(h)
  BY ConstantAssumption, <1>1
     DEF OthersStay, GetOrCreateUser, Goto, TypeOK, Task, local
<1>4. CapAt(h)'
  BY ConstantAssumption, <1>1, SMTT(20)
     DEF CapInv, CapAt, WorkPC, HoldPC, Replaying, GetOrCreateUser, At, Goto,
         TypeOK, Task, HandlerPC, DaemonPC, ledger, local, history
<1> QED BY <1>1, <1>2, <1>3, <1>4, CapFrame

LEMMA CapApologised ==
    ASSUME LoneDaemon, TypeOK, CapInv, NEW h \in Handler,
           Apologised(h) PROVE CapStep
<1>1. h \in Task /\ h \notin Daemon
  BY ConstantAssumption DEF Task
<1>2. Orderly(h)
  BY OrderlyUnwritten DEF Apologised, Rollback, ledger, history
<1>3. OthersStay(h)
  BY ConstantAssumption, <1>1
     DEF OthersStay, Apologised, Goto, TypeOK, Task, local, Forget
<1>4. CapAt(h)'
  BY ConstantAssumption, <1>1, SMTT(20)
     DEF CapInv, CapAt, WorkPC, HoldPC, Replaying, Apologised, At, Goto,
         TypeOK, Task, HandlerPC, DaemonPC, ledger, local, history, Forget
<1> QED BY <1>1, <1>2, <1>3, <1>4, CapFrame

LEMMA CapRateLimited ==
    ASSUME LoneDaemon, TypeOK, CapInv, NEW h \in Handler,
           RateLimited(h) PROVE CapStep
<1>1. h \in Task /\ h \notin Daemon
  BY ConstantAssumption DEF Task
<1>2. Orderly(h)
  BY OrderlyUnwritten DEF RateLimited, Rollback, ledger, history
<1>3. OthersStay(h)
  BY ConstantAssumption, <1>1
     DEF OthersStay, RateLimited, Goto, TypeOK, Task, local, Forget
<1>4. CapAt(h)'
  BY ConstantAssumption, <1>1, SMTT(20)
     DEF CapInv, CapAt, WorkPC, HoldPC, Replaying, RateLimited, At, Goto,
         TypeOK, Task, HandlerPC, DaemonPC, ledger, local, history, Forget
<1> QED BY <1>1, <1>2, <1>3, <1>4, CapFrame

LEMMA CapExtracted ==
    ASSUME LoneDaemon, TypeOK, CapInv, NEW h \in Handler, Extracted(h) PROVE CapStep
<1>1. h \in Task /\ h \notin Daemon
  BY ConstantAssumption DEF Task
<1>2. Orderly(h)
  BY OrderlyUnwritten DEF Extracted, Rollback, ledger, history
<1>3. OthersStay(h)
  BY ConstantAssumption, <1>1
     DEF OthersStay, Extracted, Goto, TypeOK, Task, local
<1>4. CapAt(h)'
  BY ConstantAssumption, <1>1, SMTT(20)
     DEF CapInv, CapAt, WorkPC, HoldPC, Replaying, Extracted, At, Goto,
         TypeOK, Task, HandlerPC, DaemonPC, ledger, local, history
<1> QED BY <1>1, <1>2, <1>3, <1>4, CapFrame

LEMMA CapPhase1Fails ==
    ASSUME LoneDaemon, TypeOK, CapInv, NEW h \in Handler,
           Phase1Fails(h) PROVE CapStep
<1>1. h \in Task /\ h \notin Daemon
  BY ConstantAssumption DEF Task
<1>2. Orderly(h)
  BY OrderlyUnwritten DEF Phase1Fails, Rollback, ledger, history
<1>3. OthersStay(h)
  BY ConstantAssumption, <1>1
     DEF OthersStay, Phase1Fails, Goto, TypeOK, Task, local
<1>4. CapAt(h)'
  BY ConstantAssumption, <1>1, SMTT(20)
     DEF CapInv, CapAt, WorkPC, HoldPC, Replaying, Phase1Fails, At, Goto,
         TypeOK, Task, HandlerPC, DaemonPC, ledger, local, history
<1> QED BY <1>1, <1>2, <1>3, <1>4, CapFrame

LEMMA CapLockUserForDispatch ==
    ASSUME LoneDaemon, TypeOK, CapInv, NEW h \in Handler,
           LockUserForDispatch(h) PROVE CapStep
<1>1. h \in Task /\ h \notin Daemon
  BY ConstantAssumption DEF Task
<1>2. Orderly(h)
  BY OrderlyUnwritten DEF LockUserForDispatch, Rollback, ledger, history
<1>3. OthersStay(h)
  BY ConstantAssumption, <1>1
     DEF OthersStay, LockUserForDispatch, Goto, TypeOK, Task, local
<1>4. CapAt(h)'
  BY ConstantAssumption, <1>1, SMTT(20)
     DEF CapInv, CapAt, WorkPC, HoldPC, Replaying, LockUserForDispatch, At, Goto,
         TypeOK, Task, HandlerPC, DaemonPC, ledger, local, history
<1> QED BY <1>1, <1>2, <1>3, <1>4, CapFrame

LEMMA CapStartInsert ==
    ASSUME LoneDaemon, TypeOK, CapInv, NEW h \in Handler,
           StartInsert(h) PROVE CapStep
<1>1. h \in Task /\ h \notin Daemon
  BY ConstantAssumption DEF Task
<1>2. Orderly(h)
  BY OrderlyUnwritten DEF StartInsert, Rollback, ledger, history
<1>3. OthersStay(h)
  BY ConstantAssumption, <1>1
     DEF OthersStay, StartInsert, Goto, TypeOK, Task, local, NewRow, Worker, Exists
<1>4. CapAt(h)'
  BY ConstantAssumption, <1>1, SMTT(20)
     DEF CapInv, CapAt, WorkPC, HoldPC, Replaying, RetryWithinCap, StartInsert,
         At, Goto,
         TypeOK, Task, HandlerPC, DaemonPC, ledger, local, history, NewRow,
         Worker, Exists
<1> QED BY <1>1, <1>2, <1>3, <1>4, CapFrame

LEMMA CapDispatchFails ==
    ASSUME LoneDaemon, TypeOK, CapInv, NEW h \in Handler,
           DispatchFails(h) PROVE CapStep
<1>1. h \in Task /\ h \notin Daemon
  BY ConstantAssumption DEF Task
<1>2. Orderly(h)
  BY OrderlyUnwritten DEF DispatchFails, Rollback, ledger, history
<1>3. OthersStay(h)
  BY ConstantAssumption, <1>1
     DEF OthersStay, DispatchFails, Goto, TypeOK, Task, local, Rollback
<1>4. CapAt(h)'
  BY ConstantAssumption, <1>1, SMTT(20)
     DEF CapInv, CapAt, WorkPC, HoldPC, Replaying, DispatchFails, At, Goto,
         TypeOK, Task, HandlerPC, DaemonPC, ledger, local, history, Rollback
<1> QED BY <1>1, <1>2, <1>3, <1>4, CapFrame

LEMMA CapLaneTaken ==
    ASSUME LoneDaemon, TypeOK, CapInv, NEW h \in Handler, LaneTaken(h) PROVE CapStep
<1>1. h \in Task /\ h \notin Daemon
  BY ConstantAssumption DEF Task
<1>2. Orderly(h)
  BY OrderlyUnwritten DEF LaneTaken, Rollback, ledger, history
<1>3. OthersStay(h)
  BY ConstantAssumption, <1>1
     DEF OthersStay, LaneTaken, Goto, TypeOK, Task, local, Rollback
<1>4. CapAt(h)'
  BY ConstantAssumption, <1>1, SMTT(20)
     DEF CapInv, CapAt, WorkPC, HoldPC, Replaying, LaneTaken, At, Goto,
         TypeOK, Task, HandlerPC, DaemonPC, ledger, local, history, Rollback
<1> QED BY <1>1, <1>2, <1>3, <1>4, CapFrame

LEMMA CapKycDownloaded ==
    ASSUME LoneDaemon, TypeOK, CapInv, NEW h \in Handler,
           KycDownloaded(h) PROVE CapStep
<1>1. h \in Task /\ h \notin Daemon
  BY ConstantAssumption DEF Task
<1>2. Orderly(h)
  BY OrderlyUnwritten DEF KycDownloaded, Rollback, ledger, history
<1>3. OthersStay(h)
  BY ConstantAssumption, <1>1
     DEF OthersStay, KycDownloaded, Goto, TypeOK, Task, local
<1>4. CapAt(h)'
  BY ConstantAssumption, <1>1, SMTT(20)
     DEF CapInv, CapAt, WorkPC, HoldPC, Replaying, KycDownloaded, At, Goto,
         TypeOK, Task, HandlerPC, DaemonPC, ledger, local, history
<1> QED BY <1>1, <1>2, <1>3, <1>4, CapFrame

LEMMA CapKycStore ==
    ASSUME LoneDaemon, TypeOK, CapInv, NEW h \in Handler, KycStore(h) PROVE CapStep
<1>1. h \in Task /\ h \notin Daemon
  BY ConstantAssumption DEF Task
<1>2. Orderly(h)
  BY OrderlyUnwritten DEF KycStore, Rollback, ledger, history
<1>3. OthersStay(h)
  BY ConstantAssumption, <1>1
     DEF OthersStay, KycStore, Goto, TypeOK, Task, local
<1>4. CapAt(h)'
  BY ConstantAssumption, <1>1, SMTT(20)
     DEF CapInv, CapAt, WorkPC, HoldPC, Replaying, KycStore, At, Goto,
         TypeOK, Task, HandlerPC, DaemonPC, ledger, local, history
<1> QED BY <1>1, <1>2, <1>3, <1>4, CapFrame

LEMMA CapKycFails ==
    ASSUME LoneDaemon, TypeOK, CapInv, NEW h \in Handler, KycFails(h) PROVE CapStep
<1>1. h \in Task /\ h \notin Daemon
  BY ConstantAssumption DEF Task
<1>2. Orderly(h)
  BY OrderlyUnwritten DEF KycFails, Rollback, ledger, history
<1>3. OthersStay(h)
  BY ConstantAssumption, <1>1
     DEF OthersStay, KycFails, Goto, TypeOK, Task, local, Rollback
<1>4. CapAt(h)'
  BY ConstantAssumption, <1>1, SMTT(20)
     DEF CapInv, CapAt, WorkPC, HoldPC, Replaying, KycFails, At, Goto,
         TypeOK, Task, HandlerPC, DaemonPC, ledger, local, history, Rollback
<1> QED BY <1>1, <1>2, <1>3, <1>4, CapFrame

LEMMA CapSafeFallback ==
    ASSUME LoneDaemon, TypeOK, CapInv, NEW h \in Handler,
           SafeFallback(h) PROVE CapStep
<1>1. h \in Task /\ h \notin Daemon
  BY ConstantAssumption DEF Task
<1>2. Orderly(h)
  BY OrderlyUnwritten DEF SafeFallback, Rollback, ledger, history
<1>3. OthersStay(h)
  BY ConstantAssumption, <1>1
     DEF OthersStay, SafeFallback, Goto, TypeOK, Task, local, Forget
<1>4. CapAt(h)'
  BY ConstantAssumption, <1>1, SMTT(20)
     DEF CapInv, CapAt, WorkPC, HoldPC, Replaying, SafeFallback, At, Goto,
         TypeOK, Task, HandlerPC, DaemonPC, ledger, local, history, Forget
<1> QED BY <1>1, <1>2, <1>3, <1>4, CapFrame

LEMMA CapSendResponse ==
    ASSUME LoneDaemon, TypeOK, CapInv, NEW h \in Handler,
           SendResponse(h) PROVE CapStep
<1>1. h \in Task /\ h \notin Daemon
  BY ConstantAssumption DEF Task
<1>2. Orderly(h)
  BY OrderlyUnwritten DEF SendResponse, Rollback, ledger, history
<1>3. OthersStay(h)
  BY ConstantAssumption, <1>1
     DEF OthersStay, SendResponse, Goto, TypeOK, Task, local, Forget
<1>4. CapAt(h)'
  BY ConstantAssumption, <1>1, SMTT(20)
     DEF CapInv, CapAt, WorkPC, HoldPC, Replaying, SendResponse, At, Goto,
         TypeOK, Task, HandlerPC, DaemonPC, ledger, local, history, Forget
<1> QED BY <1>1, <1>2, <1>3, <1>4, CapFrame

LEMMA CapStartSelect ==
    ASSUME LoneDaemon, TypeOK, CapInv, NEW h \in Handler,
           StartSelect(h) PROVE CapStep
<1>1. h \in Task /\ h \notin Daemon
  BY ConstantAssumption DEF Task
<1>2. Orderly(h)
  BY OrderlyUnwritten DEF StartSelect, Rollback, ledger, history
<1>3. OthersStay(h)
  BY ConstantAssumption, <1>1
     DEF OthersStay, StartSelect, Goto, TypeOK, Task, local, Forget, Exists,
         StartRefuses, StartRestarts, Worker, Restarted
<1>4. CapAt(h)'
  BY ConstantAssumption, <1>1, SMTT(20)
     DEF CapInv, CapAt, WorkPC, HoldPC, Replaying, RetryWithinCap, StartSelect,
         At, Goto,
         TypeOK, Task, HandlerPC, DaemonPC, ledger, local, history, Forget,
         Exists, StartRefuses, StartRestarts, Worker, Restarted
<1> QED BY <1>1, <1>2, <1>3, <1>4, CapFrame

LEMMA CapWakeUp ==
    ASSUME LoneDaemon, TypeOK, CapInv, NEW d \in Daemon, WakeUp(d) PROVE CapStep
<1>1. d \in Task /\ d \notin Handler
  BY ConstantAssumption DEF Task
<1>2. Orderly(d)
  BY OrderlyUnwritten DEF WakeUp, Rollback, ledger, history
<1>3. OthersStay(d)
  BY ConstantAssumption, <1>1
     DEF OthersStay, WakeUp, Goto, TypeOK, Task, local
<1>4. CapAt(d)'
  BY ConstantAssumption, <1>1, SMTT(20)
     DEF CapInv, CapAt, WorkPC, HoldPC, Replaying, WakeUp, At, Goto,
         TypeOK, Task, HandlerPC, DaemonPC, ledger, local, history
<1> QED BY <1>1, <1>2, <1>3, <1>4, CapFrame

LEMMA CapScanAndReplay ==
    ASSUME LoneDaemon, TypeOK, CapInv, NEW d \in Daemon,
           ScanAndReplay(d) PROVE CapStep
<1>1. d \in Task /\ d \notin Handler
  BY ConstantAssumption DEF Task
<1>2. Orderly(d)
  BY OrderlyUnwritten DEF ScanAndReplay, Rollback, ledger, history
<1>3. OthersStay(d)
  BY ConstantAssumption, <1>1
     DEF OthersStay, ScanAndReplay, Goto, TypeOK, Task, local, Claim,
         ReplayCandidates
<1>4. CapAt(d)'
  BY ConstantAssumption, <1>1, SMTT(20)
     DEF CapInv, CapAt, WorkPC, HoldPC, Replaying, ScanAndReplay, At, Goto,
         TypeOK, Task, HandlerPC, DaemonPC, ledger, local, history, Claim,
         ReplayCandidates
<1> QED BY <1>1, <1>2, <1>3, <1>4, CapFrame

LEMMA CapReplayDone ==
    ASSUME LoneDaemon, TypeOK, CapInv, NEW d \in Daemon, ReplayDone(d) PROVE CapStep
<1>1. d \in Task /\ d \notin Handler
  BY ConstantAssumption DEF Task
<1>2. Orderly(d)
  BY OrderlyUnwritten DEF ReplayDone, Rollback, ledger, history
<1>3. OthersStay(d)
  BY ConstantAssumption, <1>1
     DEF OthersStay, ReplayDone, Goto, TypeOK, Task, local, Forget
<1>4. CapAt(d)'
  BY ConstantAssumption, <1>1, SMTT(20)
     DEF CapInv, CapAt, WorkPC, HoldPC, Replaying, ReplayDone, At, Goto,
         TypeOK, Task, HandlerPC, DaemonPC, ledger, local, history, Forget
<1> QED BY <1>1, <1>2, <1>3, <1>4, CapFrame

LEMMA CapLoadFailedReplay ==
    ASSUME LoneDaemon, TypeOK, CapInv, NEW d \in Daemon,
           LoadFailedReplay(d) PROVE CapStep
<1>1. d \in Task /\ d \notin Handler
  BY ConstantAssumption DEF Task
<1>2. Orderly(d)
  BY OrderlyUnwritten DEF LoadFailedReplay, Rollback, ledger, history
<1>3. OthersStay(d)
  BY ConstantAssumption, <1>1
     DEF OthersStay, LoadFailedReplay, Goto, TypeOK, Task, local
<1>4. CapAt(d)'
  BY ConstantAssumption, <1>1, SMTT(20)
     DEF CapInv, CapAt, WorkPC, HoldPC, Replaying, LoadFailedReplay, At, Goto,
         TypeOK, Task, HandlerPC, DaemonPC, ledger, local, history
<1> QED BY <1>1, <1>2, <1>3, <1>4, CapFrame

LEMMA CapScanAndDeliver ==
    ASSUME LoneDaemon, TypeOK, CapInv, NEW d \in Daemon,
           ScanAndDeliver(d) PROVE CapStep
<1>1. d \in Task /\ d \notin Handler
  BY ConstantAssumption DEF Task
<1>2. Orderly(d)
  BY OrderlyUnwritten DEF ScanAndDeliver, Rollback, ledger, history
<1>3. OthersStay(d)
  BY ConstantAssumption, <1>1
     DEF OthersStay, ScanAndDeliver, Goto, TypeOK, Task, local, Claim
<1>4. CapAt(d)'
  BY ConstantAssumption, <1>1, SMTT(20)
     DEF CapInv, CapAt, WorkPC, HoldPC, Replaying, ScanAndDeliver, At, Goto,
         TypeOK, Task, HandlerPC, DaemonPC, ledger, local, history, Claim
<1> QED BY <1>1, <1>2, <1>3, <1>4, CapFrame

LEMMA CapDeliverDone ==
    ASSUME LoneDaemon, TypeOK, CapInv, NEW d \in Daemon,
           DeliverDone(d) PROVE CapStep
<1>1. d \in Task /\ d \notin Handler
  BY ConstantAssumption DEF Task
<1>2. Orderly(d)
  BY OrderlyUnwritten DEF DeliverDone, Rollback, ledger, history
<1>3. OthersStay(d)
  BY ConstantAssumption, <1>1
     DEF OthersStay, DeliverDone, Goto, TypeOK, Task, local, Forget
<1>4. CapAt(d)'
  BY ConstantAssumption, <1>1, SMTT(20)
     DEF CapInv, CapAt, WorkPC, HoldPC, Replaying, DeliverDone, At, Goto,
         TypeOK, Task, HandlerPC, DaemonPC, ledger, local, history, Forget
<1> QED BY <1>1, <1>2, <1>3, <1>4, CapFrame

LEMMA CapReplayNext ==
    ASSUME LoneDaemon, TypeOK, CapInv, NEW d \in Daemon, ReplayNext(d) PROVE CapStep
<1>1. d \in Task /\ d \notin Handler
  BY ConstantAssumption DEF Task
<1>2. Orderly(d)
  BY OrderlyUnwritten DEF ReplayNext, history
<1>3. OthersStay(d)
  BY ConstantAssumption, <1>1
     DEF OthersStay, ReplayNext, Goto, TypeOK, Task, Take
<1>4. PICK m \in batch[d] :
        /\ Take(d, m)
        /\ pc' = pc \/ Goto(d, "bury") \/ (Goto(d, "failing") /\ ~Exhausted(row[m]))
  BY DEF ReplayNext
<1>5. /\ pc[d] = "replay" /\ m \in Msg /\ cur'[d] = m /\ batch'[d] = batch[d] \ {m}
      /\ UNCHANGED <<row, undone>>
  BY <1>1, <1>4 DEF ReplayNext, At, Take, TypeOK, Task, history
<1>6. pc'[d] \in {"replay", "bury", "failing"} /\ (pc'[d] = "failing" => ~Exhausted(row[m]))
  BY <1>1, <1>4, <1>5 DEF Goto, TypeOK
<1>7. pc'[d] = "failing" => row[m].retry < MaxRetries
  <2>1. row[m].retry \in Nat /\ MaxRetries \in Nat
    BY <1>5, ConstantAssumption DEF TypeOK, Row
  <2> QED BY <1>6, <2>1 DEF Exhausted
<1>8. \A n \in Msg : Replaying(d, n)' => Replaying(d, n)
  BY <1>4, <1>5, <1>6 DEF Replaying
<1>9. CapAt(d)'
  BY <1>1, <1>5, <1>6, <1>7, <1>8 DEF CapInv, CapAt
<1> QED BY <1>1, <1>2, <1>3, <1>9, CapFrame

LEMMA CapReceive ==
    ASSUME LoneDaemon, TypeOK, CapInv, NEW h \in Handler, NEW m \in Msg,
           Receive(h, m)
    PROVE  CapStep
<1>1. h \in Task /\ h \notin Daemon
  BY ConstantAssumption DEF Task
<1>2. Orderly(h)
  BY OrderlyUnwritten DEF Receive, ledger, history
<1>3. OthersStay(h)
  BY ConstantAssumption, <1>1
     DEF OthersStay, Receive, Goto, TypeOK, Task
<1>4. CapAt(h)'
  BY ConstantAssumption, <1>1, SMTT(20)
     DEF CapInv, CapAt, WorkPC, HoldPC, Replaying, Receive, At, Goto,
         Exists, TypeOK, Task, HandlerPC, DaemonPC, ledger, history
<1> QED BY <1>1, <1>2, <1>3, <1>4, CapFrame

LEMMA CapTakes ==
    ASSUME LoneDaemon, TypeOK, CapInv, NEW d \in Daemon, NEW m \in Msg,
           DeliverSent(d, m) \/ DeliverSkipped(d, m) \/ DeliverGivenUp(d, m)
    PROVE  CapStep
<1>1. d \in Task /\ d \notin Handler
  BY ConstantAssumption DEF Task
<1>2. Orderly(d)
  BY OrderlyUnwritten DEF DeliverSent, DeliverSkipped, DeliverGivenUp, ledger,
                          history
<1>3. OthersStay(d)
  BY ConstantAssumption, <1>1
     DEF OthersStay, DeliverSent, DeliverSkipped, DeliverGivenUp, Take, Goto,
         TypeOK, Task
<1>4. pc'[d] \in {"deliverMark", "sending"}
  BY <1>1 DEF DeliverSent, DeliverSkipped, DeliverGivenUp, At, Goto, TypeOK
<1>5. CapAt(d)'
  BY <1>1, <1>4 DEF CapAt, Replaying
<1> QED BY <1>1, <1>2, <1>3, <1>5, CapFrame

\* Where the copies of a row lead.
LEMMA RetriesKept ==
    ASSUME NEW r \in Row
    PROVE  /\ Completed(r).status = "SUCCESS" /\ Completed(r).retry = r.retry
           /\ Delivered(r).status = r.status /\ Delivered(r).retry = r.retry
           /\ Skipped(r).status = r.status /\ Skipped(r).retry = r.retry
           /\ Aged(r).status = r.status /\ Aged(r).retry = r.retry
           /\ Reclaimed(r).status = "IN_PROGRESS" /\ Reclaimed(r).retry = r.retry
           /\ Buried(r).status = "DLQ" /\ Buried(r).retry = r.retry
           /\ ReplayFailed(r).status \in {"DLQ", "FAILED"}
           /\ ReplayFailed(r).retry = r.retry + 1
  BY DEF Row, Completed, Delivered, Skipped, Aged, Reclaimed, Buried, ReplayFailed

LEMMA FlushedRetry ==
    ASSUME NEW now \in Row, NEW loaded \in Row, NEW new \in Row
    PROVE  /\ [Flushed(now, loaded, new) EXCEPT !.age = "fresh"].retry
                 \in IF new.retry = loaded.retry THEN {now.retry} ELSE {new.retry}
           /\ [Flushed(now, loaded, new)
                 EXCEPT !.attempted = TRUE, !.age = "fresh"].retry
                 \in IF new.retry = loaded.retry THEN {now.retry} ELSE {new.retry}
  BY DEF Row, Flushed

LEMMA OrderlySame ==
    ASSUME NEW t, undone \subseteq undone',
           \A m \in Msg : row'[m].status = row[m].status /\ row'[m].retry = row[m].retry
    PROVE  Orderly(t)
  BY DEF Orderly

\* An execution commits: the copy it holds counts no retry of its own.
LEMMA CapDispatch ==
    ASSUME LoneDaemon, TypeOK, SafeInv, CapInv, NEW h \in Handler,
           Dispatch(h) PROVE CapStep
<1> DEFINE m == cur[h]
<1>1. h \in Task /\ h \notin Daemon /\ pc[h] = "dispatch" /\ m \in Msg /\ m \in Text
  BY ConstantAssumption DEF Dispatch, At, Task, TypeOK, SafeInv, Routes, Text
<1>2. m \notin undone => row[m].status = "ABSENT" /\ draft[h].retry <= MaxRetries
  <2>1. m \notin undone => row[m].status # "SUCCESS"
    BY <1>1 DEF SafeInv, Unrecorded, Executing
  <2> QED BY <1>1, <2>1 DEF CapInv, CapAt, WorkPC, HoldPC
<1>3. \E r : /\ row' = [row EXCEPT ![m] = r]
             /\ ~Exists(m) => r = Completed(draft[h])
  BY DEF Dispatch, CommitExecution
<1>4. PICK r : /\ row' = [row EXCEPT ![m] = r]
               /\ ~Exists(m) => r = Completed(draft[h])
  BY <1>3
<1>5. undone' = undone /\ pc'[h] = "send"
  BY <1>1 DEF Dispatch, Goto, TypeOK
<1>6. draft[h] \in Row
  BY <1>1 DEF TypeOK
<1>7. m \notin undone => row'[m].status = "SUCCESS" /\ row'[m].retry <= MaxRetries
  BY <1>1, <1>2, <1>4, <1>6, RetriesKept DEF Exists, TypeOK
<1>8. \A n \in Msg \ {m} : row'[n] = row[n]
  BY <1>4 DEF TypeOK
<1>9. Orderly(h)
  BY <1>1, <1>2, <1>5, <1>7, <1>8 DEF Orderly
<1>10. OthersStay(h)
  BY ConstantAssumption, <1>1
     DEF OthersStay, Dispatch, Goto, TypeOK, Task
<1>11. CapAt(h)'
  BY <1>1, <1>5 DEF CapAt, WorkPC, HoldPC
<1> QED BY <1>1, <1>9, <1>10, <1>11, CapFrame

LEMMA CapKycCommit ==
    ASSUME LoneDaemon, TypeOK, SafeInv, CapInv, NEW h \in Handler,
           KycCommit(h) PROVE CapStep
<1> DEFINE m == cur[h]
           r == Delivered(Completed(draft[h]))
<1>1. h \in Task /\ h \notin Daemon /\ pc[h] = "kycConfirm" /\ m \in Msg /\ draft[h] \in Row
  BY ConstantAssumption DEF KycCommit, At, Task, TypeOK
<1>2. m \notin undone =>
        row[m].status \in {"ABSENT", "SUCCESS"} /\ draft[h].retry <= MaxRetries
  BY <1>1 DEF CapInv, CapAt, WorkPC, HoldPC
<1>3. r.status = "SUCCESS" /\ r.retry = draft[h].retry
  <2>1. Completed(draft[h]) \in Row
    BY <1>1, RowOps
  <2> QED BY <1>1, <2>1, RetriesKept
<1>4. row' = [row EXCEPT ![m] = r] /\ undone' = undone /\ pc'[h] = "idle"
  BY <1>1 DEF KycCommit, CommitExecution, Goto, TypeOK
<1> HIDE DEF r
<1>5. \A n \in Msg : row'[n] = IF n = m THEN r ELSE row[n]
  BY <1>4 DEF TypeOK
<1>6. Orderly(h)
  BY <1>1, <1>2, <1>3, <1>4, <1>5 DEF Orderly
<1>7. OthersStay(h)
  BY ConstantAssumption, <1>1
     DEF OthersStay, KycCommit, Forget, Goto, TypeOK, Task
<1>8. CapAt(h)'
  BY <1>1, <1>4 DEF CapAt, WorkPC, HoldPC
<1> QED BY <1>1, <1>6, <1>7, <1>8, CapFrame

\* What was rolled back is written no matter how.
LEMMA CapUndone ==
    ASSUME LoneDaemon, TypeOK, SafeInv, CapInv, NEW h \in Handler,
           MarkFailed(h) \/ DispatchSuppressed(h)
    PROVE  CapStep
<1> DEFINE m == cur[h]
<1>1. h \in Task /\ h \notin Daemon /\ m \in undone
  BY ConstantAssumption DEF MarkFailed, DispatchSuppressed, At, Task, SafeInv,
                            Routes
<1>2. /\ \E r : row' = [row EXCEPT ![m] = r]
      /\ undone' = undone /\ pc'[h] \in {"fallback", "send"}
  <2>1. row = [row EXCEPT ![m] = row[m]]
    BY DEF TypeOK
  <2>2. \E r : row' = [row EXCEPT ![m] = r]
    BY <2>1 DEF MarkFailed, DispatchSuppressed
  <2> QED BY <1>1, <2>2 DEF MarkFailed, DispatchSuppressed, Goto, TypeOK, history
<1>3. \A n \in Msg \ {m} : row'[n] = row[n]
  BY <1>2 DEF TypeOK
<1>4. Orderly(h)
  BY <1>1, <1>2, <1>3 DEF Orderly
<1>5. OthersStay(h)
  BY ConstantAssumption, <1>1
     DEF OthersStay, MarkFailed, DispatchSuppressed, Goto, TypeOK, Task, local
<1>6. CapAt(h)'
  BY <1>1, <1>2 DEF CapAt, WorkPC, HoldPC
<1> QED BY <1>1, <1>4, <1>5, <1>6, CapFrame

LEMMA CapMarkDelivered ==
    ASSUME LoneDaemon, TypeOK, CapInv, NEW h \in Handler,
           MarkDelivered(h) PROVE CapStep
<1> DEFINE m == cur[h]
<1>1. h \in Task /\ h \notin Daemon /\ m \in Msg /\ pc'[h] = "idle" /\ undone' = undone
  BY ConstantAssumption DEF MarkDelivered, At, Task, TypeOK, Goto, history
<1>2. row' = row \/ row' = [row EXCEPT ![m] = Delivered(row[m])]
  BY DEF MarkDelivered
<1>3. Delivered(row[m]).status = row[m].status /\ Delivered(row[m]).retry = row[m].retry
  BY <1>1, RetriesKept DEF TypeOK
<1>4. \A n \in Msg : row'[n].status = row[n].status /\ row'[n].retry = row[n].retry
  BY <1>1, <1>2, <1>3 DEF TypeOK
<1>5. Orderly(h)
  BY <1>1, <1>4, OrderlySame
<1>6. OthersStay(h)
  BY ConstantAssumption, <1>1
     DEF OthersStay, MarkDelivered, Forget, Goto, TypeOK, Task
<1>7. CapAt(h)'
  BY <1>1 DEF CapAt, WorkPC, HoldPC
<1> QED BY <1>1, <1>5, <1>6, <1>7, CapFrame

LEMMA CapDeliverMark ==
    ASSUME LoneDaemon, TypeOK, CapInv, NEW d \in Daemon,
           DeliverMark(d) PROVE CapStep
<1> DEFINE m == cur[d]
<1>1. d \in Task /\ d \notin Handler /\ m \in Msg /\ pc'[d] = "sending" /\ undone' = undone
  BY ConstantAssumption DEF DeliverMark, At, Task, TypeOK, Goto, history
<1>2. \/ row' = [row EXCEPT ![m] = Delivered(row[m])]
      \/ row' = [row EXCEPT ![m] = Skipped(row[m])]
  BY DEF DeliverMark
<1>3. /\ Delivered(row[m]).status = row[m].status /\ Delivered(row[m]).retry = row[m].retry
      /\ Skipped(row[m]).status = row[m].status /\ Skipped(row[m]).retry = row[m].retry
  BY <1>1, RetriesKept DEF TypeOK
<1>4. \A n \in Msg : row'[n].status = row[n].status /\ row'[n].retry = row[n].retry
  BY <1>1, <1>2, <1>3 DEF TypeOK
<1>5. Orderly(d)
  BY <1>1, <1>4, OrderlySame
<1>6. OthersStay(d)
  BY ConstantAssumption, <1>1
     DEF OthersStay, DeliverMark, Goto, TypeOK, Task, local
<1>7. CapAt(d)'
  BY <1>1 DEF CapAt, Replaying
<1> QED BY <1>1, <1>5, <1>6, <1>7, CapFrame

LEMMA CapScanAndReclaim ==
    ASSUME LoneDaemon, TypeOK, CapInv, NEW d \in Daemon,
           ScanAndReclaim(d) PROVE CapStep
<1>1. d \in Task /\ d \notin Handler /\ pc'[d] = "scan" /\ undone' = undone
  BY ConstantAssumption DEF ScanAndReclaim, At, Task, TypeOK, Goto, history
<1>2. ASSUME NEW m \in Msg
      PROVE  /\ row'[m].retry = row[m].retry
             /\ row'[m].status # row[m].status => row[m].status = "EXECUTING"
  <2>1. row'[m] = IF Stuck(m) THEN Reclaimed(row[m]) ELSE row[m]
    BY DEF ScanAndReclaim
  <2>2. Reclaimed(row[m]).retry = row[m].retry
    BY RetriesKept DEF TypeOK
  <2> QED BY <2>1, <2>2 DEF Stuck
<1>3. \A m \in Msg \ undone : row[m].retry <= MaxRetries
  BY DEF CapInv, RetryWithinCap
<1>4. Orderly(d)
  BY <1>1, <1>2, <1>3 DEF Orderly
<1>5. OthersStay(d)
  BY ConstantAssumption, <1>1
     DEF OthersStay, ScanAndReclaim, Goto, TypeOK, Task, local
<1>6. CapAt(d)'
  BY <1>1 DEF CapAt, Replaying
<1> QED BY <1>1, <1>4, <1>5, <1>6, CapFrame

\* The daemon counts a failed replay, or buries what has none left.
LEMMA CapReplayed ==
    ASSUME LoneDaemon, TypeOK, CapInv, NEW d \in Daemon,
           RecordReplayFailure(d) \/ MoveToDeadLetter(d)
    PROVE  CapStep
<1> DEFINE m == cur[d]
<1>1. /\ d \in Task /\ d \notin Handler /\ m \in Msg /\ pc'[d] = "replay"
      /\ UNCHANGED <<undone, cur, batch>> /\ Replaying(d, m)
      /\ draft[d] \in Row /\ row[m] \in Row /\ m \notin batch[d]
  BY ConstantAssumption
     DEF RecordReplayFailure, MoveToDeadLetter, At, Task, TypeOK, Goto, local,
         history,
         Replaying, CapInv, CapAt
<1>2. ReplayFailed(draft[d]) \in Row /\ Buried(draft[d]) \in Row
  BY <1>1, RowOps
<1>3. MaxRetries \in Nat /\ draft[d].retry \in Nat
  BY <1>1, ConstantAssumption DEF Row
<1>4. \E r : row' = [row EXCEPT ![m] = r] /\ (m \notin undone => r.retry <= MaxRetries)
  <2>1. CASE RecordReplayFailure(d)
    <3> DEFINE r == [Flushed(row[m], draft[d], ReplayFailed(draft[d]))
                       EXCEPT !.attempted = TRUE, !.age = "fresh"]
    <3>1. row' = [row EXCEPT ![m] = r]
      BY <2>1 DEF RecordReplayFailure
    <3>2. ReplayFailed(draft[d]).retry = draft[d].retry + 1
      BY <1>1, RetriesKept
    <3>3. r.retry \in IF ReplayFailed(draft[d]).retry = draft[d].retry THEN {row[m].retry}
                      ELSE {ReplayFailed(draft[d]).retry}
      BY <1>1, <1>2, FlushedRetry
    <3> HIDE DEF r
    <3>4. r.retry = draft[d].retry + 1
      BY <1>3, <3>2, <3>3
    <3>5. m \notin undone => draft[d].retry < MaxRetries
      BY <1>1, <2>1 DEF CapInv, CapAt, RecordReplayFailure, At
    <3>6. m \notin undone => r.retry <= MaxRetries
      BY <1>3, <3>4, <3>5
    <3> QED BY <3>1, <3>6
  <2>2. CASE MoveToDeadLetter(d)
    <3> DEFINE r == [Flushed(row[m], draft[d],
    Buried(draft[d])) EXCEPT !.age = "fresh"]
    <3>1. row' = [row EXCEPT ![m] = r]
      BY <2>2 DEF MoveToDeadLetter
    <3>2. Buried(draft[d]).retry = draft[d].retry
      BY <1>1, RetriesKept
    <3>3. r.retry \in IF Buried(draft[d]).retry = draft[d].retry THEN {row[m].retry}
                      ELSE {Buried(draft[d]).retry}
      BY <1>1, <1>2, FlushedRetry
    <3> HIDE DEF r
    <3>4. m \notin undone => r.retry <= MaxRetries
      BY <1>1, <3>2, <3>3 DEF CapInv, RetryWithinCap
    <3> QED BY <3>1, <3>4
  <2> QED BY <2>1, <2>2
<1>5. m \notin undone => row[m].status \notin {"ABSENT", "SUCCESS", "DLQ"}
  BY <1>1 DEF CapInv, CapAt
<1>6. \A n \in Msg \ {m} : row'[n] = row[n]
  BY <1>4 DEF TypeOK
<1>7. m \notin undone => row'[m].retry <= MaxRetries
  BY <1>1, <1>4 DEF TypeOK
<1>8. Orderly(d)
  BY <1>1, <1>5, <1>6, <1>7 DEF Orderly
<1>9. OthersStay(d)
  BY ConstantAssumption, <1>1
     DEF OthersStay, RecordReplayFailure, MoveToDeadLetter, Goto, TypeOK, Task,
         local
<1>10. \A n \in Msg : Replaying(d, n)' => Replaying(d, n) /\ n # m
  BY <1>1 DEF Replaying, RecordReplayFailure, MoveToDeadLetter, At
<1>11. CapAt(d)'
  BY <1>1, <1>6, <1>10 DEF CapInv, CapAt
<1> QED BY <1>1, <1>8, <1>9, <1>11, CapFrame

LEMMA CapRows ==
    ASSUME TypeOK, CapInv, UNCHANGED <<pc, cur, draft, batch, undone>>,
           \A m \in Msg : row'[m].status = row[m].status /\ row'[m].retry = row[m].retry
    PROVE  CapStep
<1>1. ASSUME NEW t \in Task PROVE CapAt(t)'
  <2>1. CapAt(t)
    BY DEF CapInv
  <2>2. t \in Handler /\ pc[t] \in WorkPC => cur[t] \in Msg
    BY DEF TypeOK, WorkPC, HoldPC
  <2>3. \A m \in Msg : Replaying(t, m)' = Replaying(t, m)
    BY DEF Replaying
  <2> QED BY <2>1, <2>2, <2>3 DEF CapAt
<1>2. RetryWithinCap' /\ DeadStay
  BY DEF CapInv, RetryWithinCap, DeadStay
<1> QED BY <1>1, <1>2 DEF CapStep, CapInv

LEMMA CapElapse ==
    ASSUME TypeOK, CapInv, NEW m \in Msg, Elapse(m) PROVE CapStep
<1>1. UNCHANGED <<pc, cur, draft, batch, undone>> /\ row' = [row EXCEPT ![m] = Aged(row[m])]
  BY DEF Elapse, local, history
<1>2. Aged(row[m]).status = row[m].status /\ Aged(row[m]).retry = row[m].retry
  BY RetriesKept DEF TypeOK
<1>3. \A n \in Msg : row'[n].status = row[n].status /\ row'[n].retry = row[n].retry
  BY <1>1, <1>2 DEF TypeOK
<1> QED BY <1>1, <1>3, CapRows

LEMMA CapDies ==
    ASSUME TypeOK, CapInv, NEW p \in Process, Dies(p) PROVE CapStep
<1>1. UNCHANGED <<row, undone>>
  BY DEF Dies, history
<1>2. ASSUME NEW t \in Task PROVE CapAt(t)'
  <2>1. CASE Host[t] = p
    <3>1. pc'[t] \in {"idle", "sleep"}
      BY <2>1 DEF Dies
    <3> QED BY <3>1 DEF CapAt, Replaying, WorkPC, HoldPC
  <2>2. CASE Host[t] # p
    <3>1. /\ pc'[t] = pc[t] /\ cur'[t] = cur[t] /\ draft'[t] = draft[t]
          /\ t \in Daemon => batch'[t] = batch[t]
      BY <2>2 DEF Dies
    <3>2. t \in Daemon => \A m \in Msg : Replaying(t, m)' = Replaying(t, m)
      BY <3>1 DEF Replaying
    <3> QED BY <1>1, <3>1, <3>2 DEF CapInv, CapAt
  <2> QED BY <2>1, <2>2
<1>3. RetryWithinCap' /\ DeadStay
  BY <1>1 DEF CapInv, RetryWithinCap, DeadStay
<1> QED BY <1>2, <1>3 DEF CapStep, CapInv

LEMMA CapInit == ASSUME CappedBacklog PROVE Init => CapInv
<1> SUFFICES ASSUME Init PROVE CapInv
  OBVIOUS
<1>1. ASSUME NEW m \in Msg PROVE row[m].retry <= MaxRetries
  <2>1. row[m] \in {Absent} \cup Backlog
    BY DEF Init
  <2>2. Absent.retry = 0 /\ MaxRetries \in Nat
    BY ConstantAssumption DEF Absent, NewRow
  <2> QED BY <2>1, <2>2 DEF CappedBacklog
<1>2. ASSUME NEW t \in Task PROVE CapAt(t)
  <2>1. pc[t] \in {"idle", "sleep"}
    BY DEF Init
  <2> QED BY <2>1 DEF CapAt, Replaying, WorkPC, HoldPC
<1> QED BY <1>1, <1>2 DEF CapInv, RetryWithinCap

LEMMA CapNext ==
    ASSUME LoneDaemon PROVE TypeOK /\ SafeInv /\ CapInv /\ [Next]_vars => CapStep
<1> SUFFICES ASSUME TypeOK, SafeInv, CapInv, [Next]_vars PROVE CapStep
  OBVIOUS
<1>1. ASSUME NEW h \in Handler, HandlerStep(h) PROVE CapStep
  BY <1>1, CapGetOrCreateUser, CapApologised, CapRateLimited, CapExtracted,
     CapPhase1Fails, CapLockUserForDispatch, CapStartSelect, CapStartInsert,
     CapDispatch, CapDispatchFails, CapLaneTaken, CapUndone, CapKycDownloaded,
     CapKycStore, CapKycCommit, CapKycFails, CapSafeFallback, CapSendResponse,
     CapMarkDelivered DEF HandlerStep
<1>2. ASSUME NEW h \in Handler, NEW m \in Msg, Receive(h, m) PROVE CapStep
  BY <1>2, CapReceive
<1>3. ASSUME NEW d \in Daemon, DaemonStep(d) PROVE CapStep
  BY <1>3, CapWakeUp, CapScanAndReclaim, CapScanAndReplay, CapReplayNext,
     CapReplayDone, CapLoadFailedReplay, CapReplayed, CapScanAndDeliver,
     CapDeliverMark, CapDeliverDone, CapTakes DEF DaemonStep
<1>4. ASSUME NEW m \in Msg, Elapse(m) PROVE CapStep
  BY <1>4, CapElapse
<1>5. CASE UNCHANGED <<row, pc, cur, draft, batch, undone>>
  BY <1>5, CapRows
<1>6. ASSUME NEW m \in Msg, GuardExpires(m) PROVE CapStep
  BY <1>5, <1>6 DEF GuardExpires, ledger, local, history
<1>7. ASSUME NEW p \in Process, Crash(p) \/ WorkerTimeout(p) PROVE CapStep
  BY <1>7, CapDies DEF Crash, WorkerTimeout
<1>8. CASE UNCHANGED vars
  BY <1>5, <1>8 DEF vars, ledger, local, history
<1> QED BY <1>1, <1>2, <1>3, <1>4, <1>6, <1>7, <1>8 DEF Next

\* One daemon never counts more replays than its max_retries, of a message that
\* was not rolled back, whatever requests, crashes and the clock do meanwhile
\* (_recover_one, _record_replay_failure).
THEOREM RetriesCapped ==
    ASSUME LoneDaemon, CappedBacklog PROVE Spec => []RetryWithinCap
<1>1. Init => CapInv
  BY CapInit
<1>2. TypeOK /\ SafeInv /\ CapInv /\ [Next]_vars => CapInv'
  BY CapNext DEF CapStep
<1>3. CapInv => RetryWithinCap
  BY DEF CapInv
<1> QED BY <1>1, <1>2, <1>3, SafeAlways, PTL DEF Spec

\* With one daemon a dead letter stays one: no request still holds an older copy
\* of its row, and the daemon has read it again (_move_to_dead_letter).
THEOREM DeadLettersStay ==
    ASSUME LoneDaemon, CappedBacklog PROVE Spec => DeadLetterIsFinal
<1>1. Init => CapInv
  BY CapInit
<1>2. TypeOK /\ SafeInv /\ CapInv /\ [Next]_vars => CapInv'
  BY CapNext DEF CapStep
<1>3. TypeOK /\ SafeInv /\ CapInv /\ [Next]_vars =>
        [\A m \in Text \ undone' :
           row[m].status = "DLQ" => row'[m].status = "DLQ"]_vars
  BY CapNext DEF CapStep, DeadStay, Text
<1> QED BY <1>1, <1>2, <1>3, SafeAlways, PTL DEF Spec, DeadLetterIsFinal
=============================================================================
