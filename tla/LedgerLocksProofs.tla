-------------------------- MODULE LedgerLocksProofs --------------------------
(* Who holds which lock in ExecutionLedger, for every value of its constants. *)
EXTENDS ExecutionLedgerProofs

-----------------------------------------------------------------------------
(* The inductive invariant: what a task may hold where it stands.          *)

LocklessPC == {"idle", "user", "markFailed", "suppressed", "fallback", "send",
               "mark", "sleep"}
SenderPC == {"extract", "apology", "lock"}
RowPC == {"kyc", "kycStore", "kycFile", "kycConfirm", "dispatch"}

\* Before it starts and after it ends a transaction a task holds nothing; up to
\* the dispatch the row of a sender it has inserted at most; and who executes,
\* or uploads, the ledger row of its message.
LockAt(t) ==
    /\ pc[t] \in LocklessPC => ~Holds(t)
    /\ pc[t] \in SenderPC =>
         /\ \A m \in Msg : rowLock[m] # t
         /\ \A u \in User : /\ t \notin userShare[u]
                            /\ userLock[u] = t => u = UserOf[cur[t]]
    /\ pc[t] \in RowPC => rowLock[cur[t]] = t

LockInv == \A t \in Task : LockAt(t)

\* A step of t moves nobody else, gives nobody else a lock, and takes no row
\* away from another.
OthersKeep(t) ==
    \A s \in Task \ {t} :
        /\ pc'[s] = pc[s] /\ cur'[s] = cur[s]
        /\ \A m \in Msg : rowLock'[m] = s <=> rowLock[m] = s
        /\ \A u \in User : /\ userLock'[u] = s => userLock[u] = s
                           /\ s \in userShare'[u] => s \in userShare[u]

LEMMA LockFrame ==
    ASSUME TypeOK, LockInv, NEW t \in Task, OthersKeep(t), LockAt(t)'
    PROVE  LockInv'
<1> SUFFICES ASSUME NEW s \in Task \ {t} PROVE LockAt(s)'
  BY DEF LockInv
<1>1. LockAt(s) /\ pc'[s] = pc[s] /\ cur'[s] = cur[s]
  BY DEF LockInv, OthersKeep
<1>2. Holds(s)' => Holds(s)
  BY DEF Holds, OthersKeep
<1>3. pc[s] \in RowPC => cur[s] \in Msg
  BY DEF TypeOK, RowPC, DaemonPC, Task
<1> QED
  BY <1>1, <1>2, <1>3 DEF LockAt, OthersKeep

LEMMA LockGetOrCreateUser ==
    ASSUME TypeOK, LockInv, NEW h \in Handler, GetOrCreateUser(h) PROVE LockInv'
<1>1. h \in Task
  BY DEF Task
<1>2. OthersKeep(h)
  BY ConstantAssumption, <1>1
     DEF OthersKeep, GetOrCreateUser, Goto, TypeOK, local, ledger,
         SendGuardSet
<1>3. LockAt(h)'
  BY ConstantAssumption, <1>1
     DEF LockInv, LockAt, Holds, LocklessPC, SenderPC, RowPC, GetOrCreateUser,
         At, Goto, TypeOK, local, ledger, SendGuardSet
<1> QED
  BY <1>1, <1>2, <1>3, LockFrame

LEMMA LockApologised ==
    ASSUME TypeOK, LockInv, NEW h \in Handler, Apologised(h) PROVE LockInv'
<1>1. h \in Task
  BY DEF Task
<1>2. OthersKeep(h)
  BY ConstantAssumption, <1>1
     DEF OthersKeep, Apologised, Goto, TypeOK, EndTx, Released, Forget
<1>3. LockAt(h)'
  BY ConstantAssumption, <1>1
     DEF LockInv, LockAt, Holds, LocklessPC, SenderPC, RowPC, Apologised, At,
         Goto, TypeOK, EndTx, Released, Forget
<1> QED
  BY <1>1, <1>2, <1>3, LockFrame

LEMMA LockRateLimited ==
    ASSUME TypeOK, LockInv, NEW h \in Handler, RateLimited(h) PROVE LockInv'
<1>1. h \in Task
  BY DEF Task
<1>2. OthersKeep(h)
  BY ConstantAssumption, <1>1
     DEF OthersKeep, RateLimited, Goto, TypeOK, Forget, ledger
<1>3. LockAt(h)'
  BY ConstantAssumption, <1>1
     DEF LockInv, LockAt, Holds, LocklessPC, SenderPC, RowPC, RateLimited, At,
         Goto, TypeOK, Forget, ledger
<1> QED
  BY <1>1, <1>2, <1>3, LockFrame

LEMMA LockExtracted ==
    ASSUME TypeOK, LockInv, NEW h \in Handler, Extracted(h) PROVE LockInv'
<1>1. h \in Task
  BY DEF Task
<1>2. OthersKeep(h)
  BY ConstantAssumption, <1>1
     DEF OthersKeep, Extracted, Goto, TypeOK, ledger, users, local
<1>3. LockAt(h)'
  BY ConstantAssumption, <1>1
     DEF LockInv, LockAt, Holds, LocklessPC, SenderPC, RowPC, Extracted, At,
         Goto, TypeOK, ledger, users, local
<1> QED
  BY <1>1, <1>2, <1>3, LockFrame

LEMMA LockPhase1Fails ==
    ASSUME TypeOK, LockInv, NEW h \in Handler, Phase1Fails(h) PROVE LockInv'
<1>1. h \in Task
  BY DEF Task
<1>2. OthersKeep(h)
  BY ConstantAssumption, <1>1
     DEF OthersKeep, Phase1Fails, Goto, TypeOK, EndTx, Released, local
<1>3. LockAt(h)'
  BY ConstantAssumption, <1>1
     DEF LockInv, LockAt, Holds, LocklessPC, SenderPC, RowPC, Phase1Fails, At,
         Goto, TypeOK, EndTx, Released, local
<1> QED
  BY <1>1, <1>2, <1>3, LockFrame

LEMMA LockLockUserForDispatch ==
    ASSUME TypeOK, LockInv, NEW h \in Handler, LockUserForDispatch(h) PROVE LockInv'
<1>1. h \in Task
  BY DEF Task
<1>2. OthersKeep(h)
  BY ConstantAssumption, <1>1
     DEF OthersKeep, LockUserForDispatch, Goto, TypeOK, ledger, Released,
         CommitUser
<1>3. LockAt(h)'
  BY ConstantAssumption, <1>1
     DEF LockInv, LockAt, Holds, LocklessPC, SenderPC, RowPC,
         LockUserForDispatch, At, Goto, TypeOK, ledger, Released, CommitUser
<1> QED
  BY <1>1, <1>2, <1>3, LockFrame

LEMMA LockStartSelect ==
    ASSUME TypeOK, LockInv, NEW h \in Handler, StartSelect(h) PROVE LockInv'
<1>1. h \in Task
  BY DEF Task
<1>2. OthersKeep(h)
  BY ConstantAssumption, <1>1
     DEF OthersKeep, StartSelect, Goto, TypeOK, At, WaitsFor, WaitsForRow,
         EndTx, Released, Forget, ledger, users, local, Worker, Exists
<1>3. LockAt(h)'
  BY ConstantAssumption, <1>1
     DEF LockInv, LockAt, Holds, LocklessPC, SenderPC, RowPC, StartSelect, At,
         Goto, TypeOK, EndTx, Released, Forget, ledger, users, local, Worker,
         Exists
<1> QED
  BY <1>1, <1>2, <1>3, LockFrame

LEMMA LockStartInsert ==
    ASSUME TypeOK, LockInv, NEW h \in Handler, StartInsert(h) PROVE LockInv'
<1>1. h \in Task
  BY DEF Task
<1>2. OthersKeep(h)
  BY ConstantAssumption, <1>1
     DEF OthersKeep, StartInsert, Goto, TypeOK, At, WaitsFor, WaitsForRow,
         Worker
<1>3. LockAt(h)'
  BY ConstantAssumption, <1>1
     DEF LockInv, LockAt, Holds, LocklessPC, SenderPC, RowPC, StartInsert, At,
         Goto, TypeOK, Worker
<1> QED
  BY <1>1, <1>2, <1>3, LockFrame

LEMMA LockDispatch ==
    ASSUME TypeOK, LockInv, NEW h \in Handler, Dispatch(h) PROVE LockInv'
<1>1. h \in Task
  BY DEF Task
<1>2. OthersKeep(h)
  BY ConstantAssumption, <1>1
     DEF OthersKeep, Dispatch, Goto, TypeOK, CommitExecution, EndTx, Released
<1>3. LockAt(h)'
  BY ConstantAssumption, <1>1
     DEF LockInv, LockAt, Holds, LocklessPC, SenderPC, RowPC, Dispatch, At,
         Goto, TypeOK, CommitExecution, EndTx, Released
<1> QED
  BY <1>1, <1>2, <1>3, LockFrame

LEMMA LockDispatchFails ==
    ASSUME TypeOK, LockInv, NEW h \in Handler, DispatchFails(h) PROVE LockInv'
<1>1. h \in Task
  BY DEF Task
<1>2. OthersKeep(h)
  BY ConstantAssumption, <1>1
     DEF OthersKeep, DispatchFails, Goto, TypeOK, Rollback, EndTx, Released,
         local
<1>3. LockAt(h)'
  BY ConstantAssumption, <1>1
     DEF LockInv, LockAt, Holds, LocklessPC, SenderPC, RowPC, DispatchFails,
         At, Goto, TypeOK, Rollback, EndTx, Released, local
<1> QED
  BY <1>1, <1>2, <1>3, LockFrame

LEMMA LockLaneTaken ==
    ASSUME TypeOK, LockInv, NEW h \in Handler, LaneTaken(h) PROVE LockInv'
<1>1. h \in Task
  BY DEF Task
<1>2. OthersKeep(h)
  BY ConstantAssumption, <1>1
     DEF OthersKeep, LaneTaken, Goto, TypeOK, Rollback, EndTx, Released
<1>3. LockAt(h)'
  BY ConstantAssumption, <1>1
     DEF LockInv, LockAt, Holds, LocklessPC, SenderPC, RowPC, LaneTaken, At,
         Goto, TypeOK, Rollback, EndTx, Released
<1> QED
  BY <1>1, <1>2, <1>3, LockFrame

LEMMA LockDispatchSuppressed ==
    ASSUME TypeOK, LockInv, NEW h \in Handler, DispatchSuppressed(h) PROVE LockInv'
<1>1. h \in Task
  BY DEF Task
<1>2. OthersKeep(h)
  BY ConstantAssumption, <1>1
     DEF OthersKeep, DispatchSuppressed, Goto, TypeOK, users, local
<1>3. LockAt(h)'
  BY ConstantAssumption, <1>1
     DEF LockInv, LockAt, Holds, LocklessPC, SenderPC, RowPC,
         DispatchSuppressed, At, Goto, TypeOK, users, local
<1> QED
  BY <1>1, <1>2, <1>3, LockFrame

LEMMA LockKycDownloaded ==
    ASSUME TypeOK, LockInv, NEW h \in Handler, KycDownloaded(h) PROVE LockInv'
<1>1. h \in Task
  BY DEF Task
<1>2. OthersKeep(h)
  BY ConstantAssumption, <1>1
     DEF OthersKeep, KycDownloaded, Goto, TypeOK, ledger, users, local
<1>3. LockAt(h)'
  BY ConstantAssumption, <1>1
     DEF LockInv, LockAt, Holds, LocklessPC, SenderPC, RowPC, KycDownloaded,
         At, Goto, TypeOK, ledger, users, local
<1> QED
  BY <1>1, <1>2, <1>3, LockFrame

LEMMA LockKycStore ==
    ASSUME TypeOK, LockInv, NEW h \in Handler, KycStore(h) PROVE LockInv'
<1>1. h \in Task
  BY DEF Task
<1>2. OthersKeep(h)
  BY ConstantAssumption, <1>1
     DEF OthersKeep, KycStore, Goto, TypeOK, ledger, local
<1>3. LockAt(h)'
  BY ConstantAssumption, <1>1
     DEF LockInv, LockAt, Holds, LocklessPC, SenderPC, RowPC, KycStore, At,
         Goto, TypeOK, ledger, local
<1> QED
  BY <1>1, <1>2, <1>3, LockFrame

LEMMA LockKycCommit ==
    ASSUME TypeOK, LockInv, NEW h \in Handler, KycCommit(h) PROVE LockInv'
<1>1. h \in Task
  BY DEF Task
<1>2. OthersKeep(h)
  BY ConstantAssumption, <1>1
     DEF OthersKeep, KycCommit, Goto, TypeOK, CommitExecution, EndTx,
         Released, Forget
<1>3. LockAt(h)'
  BY ConstantAssumption, <1>1
     DEF LockInv, LockAt, Holds, LocklessPC, SenderPC, RowPC, KycCommit, At,
         Goto, TypeOK, CommitExecution, EndTx, Released, Forget
<1> QED
  BY <1>1, <1>2, <1>3, LockFrame

LEMMA LockKycFails ==
    ASSUME TypeOK, LockInv, NEW h \in Handler, KycFails(h) PROVE LockInv'
<1>1. h \in Task
  BY DEF Task
<1>2. OthersKeep(h)
  BY ConstantAssumption, <1>1
     DEF OthersKeep, KycFails, Goto, TypeOK, Rollback, EndTx, Released, local
<1>3. pc'[h] = "markFailed" /\ ~Holds(h)'
  BY ConstantAssumption, <1>1
     DEF KycFails, Goto, TypeOK, Rollback, EndTx, Released, Holds
<1>4. LockAt(h)'
  BY <1>3 DEF LockAt, LocklessPC, SenderPC, RowPC
<1> QED
  BY <1>1, <1>2, <1>4, LockFrame

LEMMA LockMarkFailed ==
    ASSUME TypeOK, LockInv, NEW h \in Handler, MarkFailed(h) PROVE LockInv'
<1>1. h \in Task
  BY DEF Task
<1>2. OthersKeep(h)
  BY ConstantAssumption, <1>1
     DEF OthersKeep, MarkFailed, Goto, TypeOK, users, local
<1>3. LockAt(h)'
  BY ConstantAssumption, <1>1
     DEF LockInv, LockAt, Holds, LocklessPC, SenderPC, RowPC, MarkFailed, At,
         Goto, TypeOK, users, local
<1> QED
  BY <1>1, <1>2, <1>3, LockFrame

LEMMA LockSafeFallback ==
    ASSUME TypeOK, LockInv, NEW h \in Handler, SafeFallback(h) PROVE LockInv'
<1>1. h \in Task
  BY DEF Task
<1>2. OthersKeep(h)
  BY ConstantAssumption, <1>1
     DEF OthersKeep, SafeFallback, Goto, TypeOK, Forget, ledger, users
<1>3. LockAt(h)'
  BY ConstantAssumption, <1>1
     DEF LockInv, LockAt, Holds, LocklessPC, SenderPC, RowPC, SafeFallback,
         At, Goto, TypeOK, Forget, ledger, users
<1> QED
  BY <1>1, <1>2, <1>3, LockFrame

LEMMA LockSendResponse ==
    ASSUME TypeOK, LockInv, NEW h \in Handler, SendResponse(h) PROVE LockInv'
<1>1. h \in Task
  BY DEF Task
<1>2. OthersKeep(h)
  BY ConstantAssumption, <1>1
     DEF OthersKeep, SendResponse, Goto, TypeOK, Forget, ledger, users
<1>3. LockAt(h)'
  BY ConstantAssumption, <1>1
     DEF LockInv, LockAt, Holds, LocklessPC, SenderPC, RowPC, SendResponse,
         At, Goto, TypeOK, Forget, ledger, users
<1> QED
  BY <1>1, <1>2, <1>3, LockFrame

LEMMA LockMarkDelivered ==
    ASSUME TypeOK, LockInv, NEW h \in Handler, MarkDelivered(h) PROVE LockInv'
<1>1. h \in Task
  BY DEF Task
<1>2. OthersKeep(h)
  BY ConstantAssumption, <1>1
     DEF OthersKeep, MarkDelivered, Goto, TypeOK, Forget, users
<1>3. LockAt(h)'
  BY ConstantAssumption, <1>1
     DEF LockInv, LockAt, Holds, LocklessPC, SenderPC, RowPC, MarkDelivered,
         At, Goto, TypeOK, Forget, users
<1> QED
  BY <1>1, <1>2, <1>3, LockFrame

LEMMA LockWakeUp ==
    ASSUME TypeOK, LockInv, NEW d \in Daemon, WakeUp(d) PROVE LockInv'
<1>1. d \in Task
  BY DEF Task
<1>2. OthersKeep(d)
  BY ConstantAssumption, <1>1
     DEF OthersKeep, WakeUp, Goto, TypeOK, ledger, users, local
<1>3. LockAt(d)'
  BY ConstantAssumption, <1>1
     DEF LockInv, LockAt, Holds, LocklessPC, SenderPC, RowPC, WakeUp, At,
         Goto, TypeOK, ledger, users, local
<1> QED
  BY <1>1, <1>2, <1>3, LockFrame

LEMMA LockScanAndReclaim ==
    ASSUME TypeOK, LockInv, NEW d \in Daemon, ScanAndReclaim(d) PROVE LockInv'
<1>1. d \in Task
  BY DEF Task
<1>2. OthersKeep(d)
  BY ConstantAssumption, <1>1
     DEF OthersKeep, ScanAndReclaim, Goto, TypeOK, users, local
<1>3. LockAt(d)'
  BY ConstantAssumption, <1>1
     DEF LockInv, LockAt, Holds, LocklessPC, SenderPC, RowPC, ScanAndReclaim,
         At, Goto, TypeOK, users, local
<1> QED
  BY <1>1, <1>2, <1>3, LockFrame

LEMMA LockScanAndReplay ==
    ASSUME TypeOK, LockInv, NEW d \in Daemon, ScanAndReplay(d) PROVE LockInv'
<1>1. d \in Task
  BY DEF Task
<1>2. OthersKeep(d)
  BY ConstantAssumption, <1>1
     DEF OthersKeep, ScanAndReplay, Goto, TypeOK, users, local, Claim,
         ReplayCandidates
<1>3. LockAt(d)'
  BY ConstantAssumption, <1>1
     DEF LockInv, LockAt, Holds, LocklessPC, SenderPC, RowPC, ScanAndReplay,
         At, Goto, TypeOK, users, local, Claim, ReplayCandidates
<1> QED
  BY <1>1, <1>2, <1>3, LockFrame

LEMMA LockReplayNext ==
    ASSUME TypeOK, LockInv, NEW d \in Daemon, ReplayNext(d) PROVE LockInv'
<1>1. d \in Task
  BY DEF Task
<1>2. OthersKeep(d)
  BY ConstantAssumption, <1>1
     DEF OthersKeep, ReplayNext, Goto, TypeOK, Take, EndTx, Released
<1>3. LockAt(d)'
  BY ConstantAssumption, <1>1
     DEF LockInv, LockAt, Holds, LocklessPC, SenderPC, RowPC, ReplayNext, At,
         Goto, TypeOK, Take, EndTx, Released
<1> QED
  BY <1>1, <1>2, <1>3, LockFrame

LEMMA LockReplayDone ==
    ASSUME TypeOK, LockInv, NEW d \in Daemon, ReplayDone(d) PROVE LockInv'
<1>1. d \in Task
  BY DEF Task
<1>2. OthersKeep(d)
  BY ConstantAssumption, <1>1
     DEF OthersKeep, ReplayDone, Goto, TypeOK, EndTx, Released, Forget
<1>3. LockAt(d)'
  BY ConstantAssumption, <1>1
     DEF LockInv, LockAt, Holds, LocklessPC, SenderPC, RowPC, ReplayDone, At,
         Goto, TypeOK, EndTx, Released, Forget
<1> QED
  BY <1>1, <1>2, <1>3, LockFrame

LEMMA LockLoadFailedReplay ==
    ASSUME TypeOK, LockInv, NEW d \in Daemon, LoadFailedReplay(d) PROVE LockInv'
<1>1. d \in Task
  BY DEF Task
<1>2. OthersKeep(d)
  BY ConstantAssumption, <1>1
     DEF OthersKeep, LoadFailedReplay, Goto, TypeOK, ledger, users
<1>3. LockAt(d)'
  BY ConstantAssumption, <1>1
     DEF LockInv, LockAt, Holds, LocklessPC, SenderPC, RowPC,
         LoadFailedReplay, At, Goto, TypeOK, ledger, users
<1> QED
  BY <1>1, <1>2, <1>3, LockFrame

LEMMA LockRecordReplayFailure ==
    ASSUME TypeOK, LockInv, NEW d \in Daemon, RecordReplayFailure(d) PROVE LockInv'
<1>1. d \in Task
  BY DEF Task
<1>2. OthersKeep(d)
  BY ConstantAssumption, <1>1
     DEF OthersKeep, RecordReplayFailure, Goto, TypeOK, users, local
<1>3. LockAt(d)'
  BY ConstantAssumption, <1>1
     DEF LockInv, LockAt, Holds, LocklessPC, SenderPC, RowPC,
         RecordReplayFailure, At, Goto, TypeOK, users, local
<1> QED
  BY <1>1, <1>2, <1>3, LockFrame

LEMMA LockMoveToDeadLetter ==
    ASSUME TypeOK, LockInv, NEW d \in Daemon, MoveToDeadLetter(d) PROVE LockInv'
<1>1. d \in Task
  BY DEF Task
<1>2. OthersKeep(d)
  BY ConstantAssumption, <1>1
     DEF OthersKeep, MoveToDeadLetter, Goto, TypeOK, EndTx, Released, local
<1>3. LockAt(d)'
  BY ConstantAssumption, <1>1
     DEF LockInv, LockAt, Holds, LocklessPC, SenderPC, RowPC,
         MoveToDeadLetter, At, Goto, TypeOK, EndTx, Released, local
<1> QED
  BY <1>1, <1>2, <1>3, LockFrame

LEMMA LockScanAndDeliver ==
    ASSUME TypeOK, LockInv, NEW d \in Daemon, ScanAndDeliver(d) PROVE LockInv'
<1>1. d \in Task
  BY DEF Task
<1>2. OthersKeep(d)
  BY ConstantAssumption, <1>1
     DEF OthersKeep, ScanAndDeliver, Goto, TypeOK, users, local, Claim,
         Undelivered
<1>3. LockAt(d)'
  BY ConstantAssumption, <1>1
     DEF LockInv, LockAt, Holds, LocklessPC, SenderPC, RowPC, ScanAndDeliver,
         At, Goto, TypeOK, users, local, Claim, Undelivered
<1> QED
  BY <1>1, <1>2, <1>3, LockFrame

LEMMA LockDeliverMark ==
    ASSUME TypeOK, LockInv, NEW d \in Daemon, DeliverMark(d) PROVE LockInv'
<1>1. d \in Task
  BY DEF Task
<1>2. OthersKeep(d)
  BY ConstantAssumption, <1>1
     DEF OthersKeep, DeliverMark, Goto, TypeOK, EndTx, Released, local
<1>3. LockAt(d)'
  BY ConstantAssumption, <1>1
     DEF LockInv, LockAt, Holds, LocklessPC, SenderPC, RowPC, DeliverMark, At,
         Goto, TypeOK, EndTx, Released, local
<1> QED
  BY <1>1, <1>2, <1>3, LockFrame

LEMMA LockDeliverDone ==
    ASSUME TypeOK, LockInv, NEW d \in Daemon, DeliverDone(d) PROVE LockInv'
<1>1. d \in Task
  BY DEF Task
<1>2. OthersKeep(d)
  BY ConstantAssumption, <1>1
     DEF OthersKeep, DeliverDone, Goto, TypeOK, EndTx, Released, Forget
<1>3. LockAt(d)'
  BY ConstantAssumption, <1>1
     DEF LockInv, LockAt, Holds, LocklessPC, SenderPC, RowPC, DeliverDone, At,
         Goto, TypeOK, EndTx, Released, Forget
<1> QED
  BY <1>1, <1>2, <1>3, LockFrame

LEMMA LockDeliverSent ==
    ASSUME TypeOK, LockInv, NEW d \in Daemon, NEW m \in Msg, DeliverSent(d, m) PROVE LockInv'
<1>1. d \in Task
  BY DEF Task
<1>2. OthersKeep(d)
  BY ConstantAssumption, <1>1
     DEF OthersKeep, DeliverSent, Goto, TypeOK, Take, ledger, users
<1>3. LockAt(d)'
  BY ConstantAssumption, <1>1
     DEF LockInv, LockAt, Holds, LocklessPC, SenderPC, RowPC, DeliverSent, At,
         Goto, TypeOK, Take, ledger, users
<1> QED
  BY <1>1, <1>2, <1>3, LockFrame

LEMMA LockDeliverSkipped ==
    ASSUME TypeOK, LockInv, NEW d \in Daemon, NEW m \in Msg, DeliverSkipped(d, m) PROVE LockInv'
<1>1. d \in Task
  BY DEF Task
<1>2. OthersKeep(d)
  BY ConstantAssumption, <1>1
     DEF OthersKeep, DeliverSkipped, Goto, TypeOK, Take, ledger, users
<1>3. LockAt(d)'
  BY ConstantAssumption, <1>1
     DEF LockInv, LockAt, Holds, LocklessPC, SenderPC, RowPC, DeliverSkipped,
         At, Goto, TypeOK, Take, ledger, users
<1> QED
  BY <1>1, <1>2, <1>3, LockFrame

LEMMA LockDeliverGivenUp ==
    ASSUME TypeOK, LockInv, NEW d \in Daemon, NEW m \in Msg, DeliverGivenUp(d, m) PROVE LockInv'
<1>1. d \in Task
  BY DEF Task
<1>2. OthersKeep(d)
  BY ConstantAssumption, <1>1
     DEF OthersKeep, DeliverGivenUp, Goto, TypeOK, Take, ledger, users
<1>3. LockAt(d)'
  BY ConstantAssumption, <1>1
     DEF LockInv, LockAt, Holds, LocklessPC, SenderPC, RowPC, DeliverGivenUp,
         At, Goto, TypeOK, Take, ledger, users
<1> QED
  BY <1>1, <1>2, <1>3, LockFrame

LEMMA LockReceive ==
    ASSUME TypeOK, LockInv, NEW h \in Handler, NEW m \in Msg, Receive(h, m)
    PROVE  LockInv'
<1>1. h \in Task
  BY DEF Task
<1>2. OthersKeep(h)
  BY <1>1 DEF OthersKeep, Receive, Goto, TypeOK, ledger, users
<1>3. LockAt(h)'
  BY <1>1 DEF LockInv, LockAt, Holds, LocklessPC, SenderPC, RowPC, Receive, At,
         Goto, TypeOK, ledger, users
<1> QED
  BY <1>1, <1>2, <1>3, LockFrame

LEMMA LockDies ==
    ASSUME TypeOK, LockInv, NEW p \in Process, Dies(p) PROVE LockInv'
<1> SUFFICES ASSUME NEW t \in Task PROVE LockAt(t)'
  BY DEF LockInv
<1>1. pc[t] \in RowPC => cur[t] \in Msg
  BY DEF TypeOK, RowPC, DaemonPC, Task
<1>2. CASE Host[t] = p
  BY <1>2, ConstantAssumption
     DEF Dies, LockAt, Holds, LocklessPC, SenderPC, RowPC, TypeOK
<1>3. CASE Host[t] # p
  <2>1. pc'[t] = pc[t] /\ cur'[t] = cur[t]
    BY <1>3 DEF Dies
  <2>2. \A m \in Msg : rowLock'[m] = t <=> rowLock[m] = t
    BY <1>3, ConstantAssumption DEF Dies
  <2>3. \A u \in User : (userLock'[u] = t => userLock[u] = t)
                        /\ (t \in userShare'[u] => t \in userShare[u])
    BY <1>3, ConstantAssumption DEF Dies
  <2> QED
    BY <1>1, <2>1, <2>2, <2>3 DEF LockInv, LockAt, Holds
<1> QED
  BY <1>2, <1>3

LEMMA LockInit == Init => LockInv
  BY ConstantAssumption
     DEF Init, LockInv, LockAt, Holds, LocklessPC, SenderPC, RowPC, Task

LEMMA LockStep == TypeOK /\ LockInv /\ [Next]_vars => LockInv'
<1> SUFFICES ASSUME TypeOK, LockInv, [Next]_vars PROVE LockInv'
  OBVIOUS
<1>1. ASSUME NEW h \in Handler, HandlerStep(h) PROVE LockInv'
  BY <1>1, LockGetOrCreateUser, LockApologised, LockRateLimited, LockExtracted,
     LockPhase1Fails, LockLockUserForDispatch, LockStartSelect, LockStartInsert,
     LockDispatch, LockDispatchFails, LockLaneTaken, LockDispatchSuppressed,
     LockKycDownloaded, LockKycStore, LockKycCommit, LockKycFails, LockMarkFailed,
     LockSafeFallback, LockSendResponse, LockMarkDelivered DEF HandlerStep
<1>2. ASSUME NEW h \in Handler, NEW m \in Msg, Receive(h, m) PROVE LockInv'
  BY <1>2, LockReceive
<1>3. ASSUME NEW d \in Daemon, DaemonStep(d) PROVE LockInv'
  BY <1>3, LockWakeUp, LockScanAndReclaim, LockScanAndReplay, LockReplayNext,
     LockReplayDone, LockLoadFailedReplay, LockRecordReplayFailure,
     LockMoveToDeadLetter, LockScanAndDeliver, LockDeliverMark, LockDeliverDone,
     LockDeliverSent, LockDeliverSkipped, LockDeliverGivenUp DEF DaemonStep
<1>4. CASE UNCHANGED <<pc, cur, rowLock, userLock, userShare>>
  BY <1>4 DEF LockInv, LockAt, Holds
<1>5. ASSUME NEW m \in Msg, Elapse(m) \/ GuardExpires(m) PROVE LockInv'
  BY <1>4, <1>5 DEF Elapse, GuardExpires, ledger, users, local
<1>6. ASSUME NEW p \in Process, Crash(p) \/ WorkerTimeout(p) PROVE LockInv'
  BY <1>6, LockDies DEF Crash, WorkerTimeout
<1>7. CASE UNCHANGED vars
  BY <1>4, <1>7 DEF vars, ledger, users, local
<1> QED
  BY <1>1, <1>2, <1>3, <1>5, <1>6, <1>7 DEF Next

\* The lock invariant holds in every reachable state.
LEMMA LockAlways == Spec => [](TypeOK /\ LockInv)
<1>1. Init => TypeOK /\ LockInv
  BY TypeInit, LockInit
<1>2. TypeOK /\ LockInv /\ [Next]_vars => (TypeOK /\ LockInv)'
  BY TypeStep, LockStep
<1> QED
  BY <1>1, <1>2, PTL DEF Spec

\* Only three awaits can freeze the worker of another task: those of a new
\* sender's first request, of an upload, and of the delivery scan.
THEOREM LockedAwaits == Spec => []LocksAcrossAwaits
<1>1. TypeOK /\ LockInv => LocksAcrossAwaits
  <2> SUFFICES ASSUME TypeOK, LockInv, NEW t \in Task, Holds(t), pc[t] \notin SyncPC
               PROVE  \/ pc[t] \in {"extract", "apology"} /\ userLock[UserOf[cur[t]]] = t
                      \/ pc[t] \in {"kyc", "kycConfirm", "sending"}
    BY DEF LocksAcrossAwaits
  <2>1. LockAt(t) /\ pc[t] \in HandlerPC \cup DaemonPC
    BY DEF LockInv, TypeOK
  <2>2. pc[t] \notin LocklessPC
    BY <2>1 DEF LockAt
  <2>3. CASE pc[t] \in {"extract", "apology"}
    BY <2>1, <2>3 DEF LockAt, SenderPC, Holds
  <2> QED
    BY <2>1, <2>2, <2>3 DEF LocklessPC, SyncPC, HandlerPC, DaemonPC
<1> QED
  BY LockAlways, <1>1, PTL

\* Whoever carries an upload out holds its ledger row, so that nobody else does.
THEOREM UploadExclusion == Spec => []OneUploadAtATime
<1>1. TypeOK /\ LockInv => OneUploadAtATime
  BY DEF LockInv, LockAt, RowPC, OneUploadAtATime, Task
<1> QED
  BY LockAlways, <1>1, PTL
=============================================================================
