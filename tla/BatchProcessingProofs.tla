------------------------ MODULE BatchProcessingProofs ------------------------
(***************************************************************************)
(* Proofs about BatchProcessing, for every set of jobs, any number of stop *)
(* requests and any number of faults.                                      *)
(***************************************************************************)
EXTENDS BatchProcessing, FiniteSetTheorems, TLAPS

-----------------------------------------------------------------------------
(* Lemmas on the operators.                                                *)

\* The totals of any sequence of row statuses are natural numbers.
LEMMA TallyType ==
    ASSUME NEW s \in Seq(RowStatuses)
    PROVE  Tally(s) \in [TotalFields -> Nat]
<1>1. ASSUME NEW field \in TotalFields
      PROVE  Cardinality({k \in DOMAIN s : s[k] \in Counted(field)}) \in Nat
  <2> DEFINE S == {k \in DOMAIN s : s[k] \in Counted(field)}
  <2>1. DOMAIN s = 1..Len(s) /\ Len(s) \in Nat
    OBVIOUS
  <2>2. IsFiniteSet(1..Len(s))
    BY <2>1, FS_Interval
  <2>3. S \subseteq 1..Len(s)
    BY <2>1
  <2>4. IsFiniteSet(S)
    BY <2>2, <2>3, FS_Subset
  <2> QED BY <2>4, FS_CardinalityType
<1> QED BY <1>1 DEF Tally

\* Replacing one entry keeps a ledger a ledger of the same length.
LEMMA ReplaceType ==
    ASSUME NEW s \in Seq(RowStatuses), NEW k, NEW v \in RowStatuses
    PROVE  /\ [s EXCEPT ![k] = v] \in Seq(RowStatuses)
           /\ Len([s EXCEPT ![k] = v]) = Len(s)
<1> DEFINE t == [s EXCEPT ![k] = v]
<1>1. DOMAIN t = 1..Len(s) /\ Len(s) \in Nat
  OBVIOUS
<1>2. \A j \in 1..Len(s) : t[j] \in RowStatuses
  OBVIOUS
<1>3. t \in [1..Len(s) -> RowStatuses]
  BY <1>1, <1>2
<1> HIDE DEF t
<1>4. t \in Seq(RowStatuses) /\ Len(t) = Len(s)
  BY <1>1, <1>3
<1> QED BY <1>4 DEF t

\* A row gets one of the declared statuses, and "pending" or "dry_run" only
\* with a valid number.
LEMMA RowStatusType ==
    ASSUME NEW item \in Item
    PROVE  /\ RowStatus(item) \in RowStatuses
           /\ RowStatus(item) \in {"dry_run", "pending"} => item.phone \in Phones
BY DEF RowStatus, RowStatuses, ApiResults, Item

\* A report file that is opened or filled is still one; who has it open is a
\* matter of positions.
Reports == [shows : Seq(RowStatuses), whole : BOOLEAN, mixed : BOOLEAN]

LEMMA ReportType ==
    ASSUME NEW file \in Reports, NEW busy \in BOOLEAN, NEW s \in Seq(RowStatuses)
    PROVE  /\ Opened(file, busy) \in Reports
           /\ Filled(file, s, busy) \subseteq Reports
<1>1. Opened(file, busy) \in Reports
  BY DEF Opened, Reports
<1>2. ASSUME NEW w \in BOOLEAN PROVE [file EXCEPT !.shows = s, !.whole = w] \in Reports
  BY DEF Reports
<1> QED BY <1>1, <1>2 DEF Filled

LEMMA WritersType ==
    ASSUME NEW c
    PROVE  StopIsWriting \in BOOLEAN /\ OtherIsWriting(c) \in BOOLEAN
BY DEF StopIsWriting, OtherIsWriting

-----------------------------------------------------------------------------
(* Type correctness.  TypeOK alone is not inductive: unless the row in     *)
(* hand is a row of the sheet, what is added to seen need not be a number. *)

LEMMA JobType ==
    ASSUME TypeOK
    PROVE  job \in Job /\ Len(job.rows) \in Nat /\ Len(recipients) \in Nat
BY JobsAssumption DEF TypeOK, Job

LEMMA InitTypeInv == Init => TypeInv
<1> SUFFICES ASSUME Init PROVE TypeInv
  OBVIOUS
<1>1. totals \in [TotalFields -> Nat] BY DEF Init
<1>2. <<>> \in Seq(RowStatuses)
  OBVIOUS
<1>3. /\ recipients \in Seq(RowStatuses)
      /\ report \in Reports
      /\ cancel_view \in [Cancellers -> Seq(RowStatuses)]
  BY <1>2 DEF Init, NoReport, Reports
<1>4. result \in RowStatuses BY DEF Init, RowStatuses
<1>5. batch \in [status : BatchActive \cup BatchTerminal,
                 cancel_requested : BOOLEAN, error_message : Errors,
                 finished : BOOLEAN, report_path : BOOLEAN, file_id : BOOLEAN]
  BY DEF Init, BatchActive, Errors
<1>6. faults \in 0..MaxFaults
  <2>1. faults = 0 BY DEF Init
  <2> QED BY <2>1, MaxFaultsAssumption
<1>7. cancel_pc \in [Cancellers -> {"idle"} \cup InFlight \cup Answered] BY DEF Init
<1>8. pc \in Prologue /\ job \in Jobs /\ RowInHand BY DEF Init, RowInHand, Prologue
<1>9. mem_cancel \in BOOLEAN /\ configured \in BOOLEAN BY DEF Init
<1>10. seen \subseteq Phones /\ posted \subseteq Nat /\ late \subseteq Nat BY DEF Init
<1> QED
  BY <1>1, <1>3, <1>4, <1>5, <1>6, <1>7, <1>8, <1>9, <1>10
  DEF TypeInv, TypeOK, Reports

LEMMA NextTypeInv == TypeInv /\ [Next]_vars => TypeInv'
<1> SUFFICES ASSUME TypeInv, [Next]_vars PROVE TypeInv'
  OBVIOUS
<1> USE DEF TypeInv, TypeOK, RowInHand, NextRow, LastRow, vars, row_vars, cancel_vars,
            Prologue, TryBody, Handler, Ended, Goto
<1>0. Len(job.rows) \in Nat /\ Len(recipients) \in Nat /\ job \in Job
  BY JobType
<1>1. CASE Load BY <1>1 DEF Load
<1>2. CASE CloseCancelled BY <1>2 DEF CloseCancelled, BatchTerminal
<1>3. CASE Announce BY <1>3 DEF Announce, AnnouncedRow, BatchActive, Errors
<1>4. CASE Read BY <1>4 DEF Read
<1>5. CASE Upload BY <1>5 DEF Upload
<1>6. CASE ReadOrUploadFails BY <1>6 DEF ReadOrUploadFails
<1>7. CASE Check BY <1>0, <1>7 DEF Check, RowsEnd, Job
<1>8. CASE Row
  <2> DEFINE item == job.rows[NextRow]
  <2>1. item \in Item BY <1>0, <1>8 DEF Row, Job
  <2>2. RowStatus(item) \in RowStatuses BY <2>1, RowStatusType
  <2>3. recipients' \in Seq(RowStatuses) BY <1>8, <2>2 DEF Row
  <2>4. seen' \subseteq Phones
    <3>1. CASE RowStatus(item) \in {"dry_run", "pending"}
      <4>1. item.phone \in Phones BY <2>1, <3>1, RowStatusType
      <4>2. seen' = seen \cup {item.phone} BY <1>8, <3>1 DEF Row
      <4> QED BY <4>1, <4>2
    <3>2. CASE RowStatus(item) \notin {"dry_run", "pending"}
      <4>1. seen' = seen BY <1>8, <3>2 DEF Row
      <4> QED BY <4>1
    <3> QED BY <3>1, <3>2
  <2>5. late' \subseteq Nat BY <1>0, <1>8 DEF Row, LateWith
  <2>6. pc' \in {"send", "check"} BY <1>8 DEF Row
  <2> QED BY <1>8, <2>3, <2>4, <2>5, <2>6 DEF Row
<1>9. CASE Send
  <2>1. result' \in RowStatuses BY <1>9 DEF Send, RowStatuses
  <2>2. posted' \subseteq Nat /\ late' \subseteq Nat BY <1>0, <1>9 DEF Send, LateWith
  <2> QED BY <1>9, <2>1, <2>2 DEF Send
<1>10. CASE RecordResult
  <2>1. recipients' \in Seq(RowStatuses) BY <1>10, ReplaceType DEF RecordResult, WithResult
  <2> QED BY <1>10, <2>1 DEF RecordResult
<1>11. CASE Pause BY <1>11 DEF Pause
<1>12. CASE SavePath BY <1>12 DEF SavePath
<1>13. CASE WriteReport \/ FillReport
  <2>1. report' \in Reports
    BY <1>13, ReportType, WritersType DEF WriteReport, FillReport, Reports
  <2> QED BY <1>13, <2>1 DEF WriteReport, FillReport, Reports
<1>14. CASE RefreshTotals BY <1>14, TallyType DEF RefreshTotals
<1>15. CASE Finish
  BY <1>15 DEF Finish, FinalStatus, FinalError, BatchTerminal, Errors
<1>16. CASE FailTotals BY <1>16, TallyType DEF FailTotals
<1>17. CASE FailSave BY <1>17 DEF FailSave, FailedRow, BatchTerminal, Errors
<1>18. CASE TryRaises
  <2>1. posted' \subseteq Nat /\ late' \subseteq Nat BY <1>0, <1>18 DEF TryRaises, LateWith
  <2>2. faults' \in 0..MaxFaults BY <1>18, MaxFaultsAssumption DEF TryRaises, Fault
  <2> QED BY <1>18, <2>1, <2>2 DEF TryRaises
<1>19. CASE ThreadLost
  <2>1. faults' \in 0..MaxFaults BY <1>19, MaxFaultsAssumption DEF ThreadLost, Fault
  <2> QED BY <1>19, <2>1 DEF ThreadLost
<1>20. CASE Restart
  <2>1. posted' \subseteq Nat /\ late' \subseteq Nat BY <1>0, <1>20 DEF Restart, LateWith
  <2>2. faults' \in 0..MaxFaults BY <1>20, MaxFaultsAssumption DEF Restart, Fault
  <2>3. cancel_pc' \in [Cancellers -> {"idle"} \cup InFlight \cup Answered]
    BY <1>20 DEF Restart, Answered
  <2> QED BY <1>20, <2>1, <2>2, <2>3 DEF Restart
<1>21. ASSUME NEW c \in Cancellers, CancelRead(c) PROVE TypeInv'
  BY <1>21 DEF CancelRead, CancelGoto, InFlight, Answered
<1>22. ASSUME NEW c \in Cancellers, CancelSave(c) PROVE TypeInv'
  BY <1>22 DEF CancelSave, StoppedRow, CancelGoto, InFlight, BatchTerminal, Errors
<1>23. ASSUME NEW c \in Cancellers, CancelCount(c) PROVE TypeInv'
  BY <1>23 DEF CancelCount, CancelGoto, InFlight
<1>24. ASSUME NEW c \in Cancellers, CancelTotals(c) PROVE TypeInv'
  BY <1>24, TallyType DEF CancelTotals, CancelGoto, InFlight
<1>25. ASSUME NEW c \in Cancellers, CancelReadReport(c) PROVE TypeInv'
  BY <1>25 DEF CancelReadReport, CancelGoto, InFlight
<1>26. ASSUME NEW c \in Cancellers, CancelSaveReport(c) \/ CancelFillReport(c) PROVE TypeInv'
  <2>1. report' \in Reports
    BY <1>26, ReportType, WritersType DEF CancelSaveReport, CancelFillReport, Reports
  <2> QED
    BY <1>26, <2>1 DEF CancelSaveReport, CancelFillReport, CancelGoto, InFlight, Answered,
       Reports
<1>27. ASSUME NEW c \in Cancellers, CancelRaises(c) PROVE TypeInv'
  <2>1. faults' \in 0..MaxFaults BY <1>27, MaxFaultsAssumption DEF CancelRaises, Fault
  <2> QED BY <1>27, <2>1 DEF CancelRaises, Answered
<1>28. CASE Quiet \/ UNCHANGED vars BY <1>28 DEF Quiet
<1> QED
  BY <1>1, <1>2, <1>3, <1>4, <1>5, <1>6, <1>7, <1>8, <1>9, <1>10, <1>11, <1>12, <1>13,
     <1>14, <1>15, <1>16, <1>17, <1>18, <1>19, <1>20, <1>21, <1>22, <1>23, <1>24, <1>25,
     <1>26, <1>27, <1>28
  DEF Next, Worker, CancelStep

\* Every reachable state is well typed.
THEOREM TypeCorrect == Spec => []TypeOK
<1>1. TypeInv => TypeOK BY DEF TypeInv
<1> QED BY <1>1, InitTypeInv, NextTypeInv, PTL DEF Spec

-----------------------------------------------------------------------------
(* The status and the late rows follow the thread.                         *)

LEMMA NextStatus ==
    TypeOK /\ StatusFollowsThread /\ [Next]_vars => StatusFollowsThread'
<1> SUFFICES ASSUME TypeOK, StatusFollowsThread, [Next]_vars PROVE StatusFollowsThread'
  OBVIOUS
<1> USE DEF TypeOK, StatusFollowsThread, vars, row_vars, cancel_vars, TryBody, Handler,
            Prologue, Ended, Goto
<1>1. CASE Load BY <1>1 DEF Load
<1>2. CASE CloseCancelled BY <1>2 DEF CloseCancelled
<1>3. CASE Announce BY <1>3 DEF Announce, AnnouncedRow
<1>4. CASE Read BY <1>4 DEF Read
<1>5. CASE Upload BY <1>5 DEF Upload
<1>6. CASE ReadOrUploadFails BY <1>6 DEF ReadOrUploadFails
<1>7. CASE Check BY <1>7 DEF Check, RowsEnd
<1>8. CASE Row BY <1>8 DEF Row, LateWith
<1>9. CASE Send BY <1>9 DEF Send, LateWith
<1>10. CASE RecordResult BY <1>10 DEF RecordResult
<1>11. CASE Pause BY <1>11 DEF Pause
<1>12. CASE SavePath BY <1>12 DEF SavePath
<1>13. CASE WriteReport \/ FillReport BY <1>13 DEF WriteReport, FillReport
<1>14. CASE RefreshTotals BY <1>14 DEF RefreshTotals
<1>15. CASE Finish BY <1>15 DEF Finish, FinalStatus
<1>16. CASE FailTotals BY <1>16 DEF FailTotals
<1>17. CASE FailSave BY <1>17 DEF FailSave, FailedRow
<1>18. CASE TryRaises BY <1>18 DEF TryRaises, LateWith
<1>19. CASE ThreadLost BY <1>19 DEF ThreadLost
<1>20. CASE Restart BY <1>20 DEF Restart, LateWith
<1>21. ASSUME NEW c \in Cancellers, CancelRead(c) PROVE StatusFollowsThread'
  BY <1>21 DEF CancelRead, CancelGoto
<1>22. ASSUME NEW c \in Cancellers, CancelSave(c) PROVE StatusFollowsThread'
  BY <1>22 DEF CancelSave, StoppedRow, CancelGoto
<1>23. ASSUME NEW c \in Cancellers, CancelCount(c) PROVE StatusFollowsThread'
  BY <1>23 DEF CancelCount, CancelGoto
<1>24. ASSUME NEW c \in Cancellers, CancelTotals(c) PROVE StatusFollowsThread'
  BY <1>24 DEF CancelTotals, CancelGoto
<1>25. ASSUME NEW c \in Cancellers, CancelReadReport(c) PROVE StatusFollowsThread'
  BY <1>25 DEF CancelReadReport, CancelGoto
<1>26. ASSUME NEW c \in Cancellers, CancelSaveReport(c) \/ CancelFillReport(c)
       PROVE  StatusFollowsThread'
  BY <1>26 DEF CancelSaveReport, CancelFillReport, CancelGoto
<1>27. ASSUME NEW c \in Cancellers, CancelRaises(c) PROVE StatusFollowsThread'
  BY <1>27 DEF CancelRaises
<1>28. CASE Quiet \/ UNCHANGED vars BY <1>28 DEF Quiet
<1> QED
  BY <1>1, <1>2, <1>3, <1>4, <1>5, <1>6, <1>7, <1>8, <1>9, <1>10, <1>11, <1>12,
     <1>13, <1>14, <1>15, <1>16, <1>17, <1>18, <1>19, <1>20, <1>21, <1>22, <1>23,
     <1>24, <1>25, <1>26, <1>27, <1>28
  DEF Next, Worker, CancelStep

LateInv == LateFollowsThread /\ StopsWithinOneRow

LEMMA NextLate ==
    TypeInv /\ StatusFollowsThread /\ LateInv /\ [Next]_vars => LateInv'
<1> SUFFICES ASSUME TypeInv, StatusFollowsThread, LateInv, [Next]_vars PROVE LateInv'
  OBVIOUS
<1>0. Len(recipients) \in Nat /\ mem_cancel \in BOOLEAN
  BY JobType DEF TypeInv, TypeOK
<1> USE DEF LateInv, LateFollowsThread, StopsWithinOneRow, LastRow, NextRow, vars, row_vars,
            cancel_vars, TryBody, Handler, Prologue, Ended, Goto
<1>1. CASE Load BY <1>1 DEF Load
<1>2. CASE CloseCancelled BY <1>2 DEF CloseCancelled
<1>3. CASE Announce BY <1>3 DEF Announce, AnnouncedRow
<1>4. CASE Read BY <1>4 DEF Read
<1>5. CASE Upload BY <1>5 DEF Upload
<1>6. CASE ReadOrUploadFails BY <1>6 DEF ReadOrUploadFails
<1>7. CASE Check BY <1>7 DEF Check, RowsEnd
<1>8. CASE Row
  <2>1. late = {} BY <1>8 DEF Row
  <2>2. late' \subseteq {LastRow'} /\ (~batch.cancel_requested => late' = {})
    <3>1. Len(recipients') = Len(recipients) + 1 BY <1>8 DEF Row, TypeInv, TypeOK
    <3> QED BY <2>1, <3>1, <1>8 DEF Row, LateWith
  <2> QED BY <2>2, <1>8 DEF Row
<1>9. CASE Send BY <1>9 DEF Send, LateWith
<1>10. CASE RecordResult
  <2>1. Len(recipients') = Len(recipients)
    BY <1>10, ReplaceType DEF RecordResult, WithResult, TypeInv, TypeOK
  <2> QED BY <2>1, <1>10 DEF RecordResult
<1>11. CASE Pause BY <1>11 DEF Pause
<1>12. CASE SavePath BY <1>12 DEF SavePath
<1>13. CASE WriteReport \/ FillReport BY <1>13 DEF WriteReport, FillReport
<1>14. CASE RefreshTotals BY <1>14 DEF RefreshTotals
<1>15. CASE Finish BY <1>15 DEF Finish, FinalStatus
<1>16. CASE FailTotals BY <1>16 DEF FailTotals
<1>17. CASE FailSave BY <1>17 DEF FailSave, FailedRow
<1>18. CASE TryRaises BY <1>18 DEF TryRaises, LateWith
<1>19. CASE ThreadLost BY <1>19 DEF ThreadLost
<1>20. CASE Restart BY <1>20 DEF Restart, LateWith
<1>21. ASSUME NEW c \in Cancellers, CancelRead(c) PROVE LateInv'
  BY <1>21 DEF CancelRead, CancelGoto
<1>22. ASSUME NEW c \in Cancellers, CancelSave(c) PROVE LateInv'
  BY <1>22 DEF CancelSave, StoppedRow, CancelGoto, TypeInv, TypeOK
<1>23. ASSUME NEW c \in Cancellers, CancelCount(c) PROVE LateInv'
  BY <1>23 DEF CancelCount, CancelGoto
<1>24. ASSUME NEW c \in Cancellers, CancelTotals(c) PROVE LateInv'
  BY <1>24 DEF CancelTotals, CancelGoto
<1>25. ASSUME NEW c \in Cancellers, CancelReadReport(c) PROVE LateInv'
  BY <1>25 DEF CancelReadReport, CancelGoto
<1>26. ASSUME NEW c \in Cancellers, CancelSaveReport(c) \/ CancelFillReport(c)
       PROVE  LateInv'
  BY <1>26 DEF CancelSaveReport, CancelFillReport, CancelGoto
<1>27. ASSUME NEW c \in Cancellers, CancelRaises(c) PROVE LateInv'
  BY <1>27 DEF CancelRaises
<1>28. CASE Quiet \/ UNCHANGED vars BY <1>28 DEF Quiet
<1> QED
  BY <1>1, <1>2, <1>3, <1>4, <1>5, <1>6, <1>7, <1>8, <1>9, <1>10, <1>11, <1>12,
     <1>13, <1>14, <1>15, <1>16, <1>17, <1>18, <1>19, <1>20, <1>21, <1>22, <1>23,
     <1>24, <1>25, <1>26, <1>27, <1>28
  DEF Next, Worker, CancelStep

LEMMA InitIInv == Init => IInv
<1> SUFFICES ASSUME Init PROVE IInv
  OBVIOUS
<1>1. pc = "load" /\ batch.status = "pending" BY DEF Init
<1>2. StatusFollowsThread BY <1>1 DEF StatusFollowsThread, TryBody, Handler
<1>3. LateFollowsThread /\ StopsWithinOneRow
  BY DEF Init, LateFollowsThread, StopsWithinOneRow
<1> QED BY <1>2, <1>3, InitTypeInv DEF IInv

LEMMA NextIInv == IInv /\ [Next]_vars => IInv'
BY NextTypeInv, NextStatus, NextLate DEF IInv, TypeInv, LateInv

\* core.py 871-1045 with views.py 567-586: where the thread is, what the status
\* says and what can be late stay tied together.
THEOREM Invariance == Spec => []IInv
BY InitIInv, NextIInv, PTL DEF Spec

\* At most one row is recorded or posted after a stop was registered.
THEOREM StopWithinOneRow == Spec => []StopsWithinOneRow
<1>1. IInv => StopsWithinOneRow BY DEF IInv
<1> QED BY <1>1, Invariance, PTL

-----------------------------------------------------------------------------
(* The batch page.                                                         *)

\* Without a stop a terminal status means that the thread is gone; so neither
\* the thread nor a request can make an inactive batch active.
LEMMA ActiveOnlyBefore ==
    IInv /\ [Next]_vars => (~IsActive => ~IsActive')
<1> SUFFICES ASSUME IInv, [Next]_vars, ~IsActive PROVE ~IsActive'
  OBVIOUS
<1>1. TypeOK /\ StatusFollowsThread BY DEF IInv, TypeInv
<1>2. CASE batch.cancel_requested
  <2>1. batch'.cancel_requested
    BY <1>1, <1>2 DEF TypeOK, Next, Worker, CancelStep, vars, row_vars, cancel_vars,
       Load, CloseCancelled, Announce, AnnouncedRow, Read, Upload, ReadOrUploadFails, Check,
       Row, Send, RecordResult, Pause, SavePath, WriteReport, FillReport, RefreshTotals, Finish,
       FailTotals, FailSave, FailedRow, TryRaises, ThreadLost, Restart, CancelRead,
       CancelSave, StoppedRow, CancelCount, CancelTotals, CancelReadReport,
       CancelSaveReport, CancelFillReport, CancelRaises, Quiet
  <2> QED BY <2>1 DEF IsActive
<1>3. CASE ~batch.cancel_requested
  <2>1. batch.status \notin BatchActive BY <1>3 DEF IsActive
  <2>2. pc \in Ended
    BY <1>1, <1>3, <2>1 DEF TypeOK, StatusFollowsThread, BatchActive, Prologue
  <2>3. batch' = batch \/ (\E c \in Cancellers : CancelSave(c))
    BY <2>2 DEF Ended, Next, Worker, CancelStep, vars, row_vars, cancel_vars, Goto,
       Load, CloseCancelled, Announce, Read, Upload, ReadOrUploadFails, Check,
       Row, Send, RecordResult, Pause, SavePath, WriteReport, FillReport, RefreshTotals, Finish,
       FailTotals, FailSave, TryRaises, ThreadLost, Restart, CancelRead,
       CancelCount, CancelTotals, CancelReadReport, CancelSaveReport, CancelFillReport, CancelRaises, Quiet
  <2>4. ASSUME NEW c \in Cancellers, CancelSave(c) PROVE ~IsActive'
    BY <1>1, <2>4 DEF CancelSave, StoppedRow, IsActive, TypeOK
  <2>5. CASE batch' = batch BY <2>1, <2>5 DEF IsActive
  <2> QED BY <2>3, <2>4, <2>5
<1> QED BY <1>2, <1>3

\* A batch that was shown as over is never shown as active again.
THEOREM InactiveForever == Spec => InactiveStaysInactive
<1>1. IInv /\ [Next]_vars => [~IsActive => ~IsActive']_vars
  BY ActiveOnlyBefore
<1> QED BY <1>1, Invariance, PTL DEF Spec, InactiveStaysInactive

Told == (InFlight \ {"save"}) \cup {"stopped", "not_running"}

\* What a request is told, it is told by a step that finds or leaves the batch
\* inactive; it stays so.
LEMMA NextReplies ==
    IInv /\ RepliesAreTrue /\ [Next]_vars => RepliesAreTrue'
<1> SUFFICES ASSUME IInv, RepliesAreTrue, [Next]_vars,
                    NEW c \in Cancellers, cancel_pc'[c] \in Told
             PROVE  ~IsActive'
  BY DEF RepliesAreTrue, Told
<1>1. TypeOK
  BY DEF IInv, TypeInv
<1>2. CASE cancel_pc[c] \in Told
  BY <1>2, ActiveOnlyBefore DEF RepliesAreTrue, Told
<1>3. CASE CancelRead(c)
  <2>1. batch.status \notin BatchActive
    BY <1>1, <1>3 DEF CancelRead, CancelGoto, TypeOK, Told
  <2> QED BY <1>3, <2>1 DEF CancelRead, IsActive
<1>4. CASE CancelSave(c)
  BY <1>1, <1>4 DEF CancelSave, StoppedRow, IsActive, TypeOK
<1>5. cancel_pc[c] \in Told \/ CancelRead(c) \/ CancelSave(c)
  <2>1. CASE cancel_pc'[c] = cancel_pc[c]
    BY <2>1
  <2>2. CASE Restart
    BY <1>1, <2>2 DEF Restart, TypeOK, Told, InFlight
  <2>3. ASSUME NEW d \in Cancellers, CancelRead(d) \/ CancelStep(d) \/ CancelRaises(d)
        PROVE  cancel_pc[c] \in Told \/ CancelRead(c) \/ CancelSave(c)
    <3>1. CASE d # c
      BY <1>1, <2>3, <3>1 DEF TypeOK, CancelRead, CancelStep, CancelRaises, CancelSave,
         CancelCount, CancelTotals, CancelReadReport, CancelSaveReport, CancelFillReport, CancelGoto
    <3>2. CASE d = c
      BY <1>1, <2>3, <3>2 DEF TypeOK, Told, InFlight, CancelStep, CancelRaises,
         CancelCount, CancelTotals, CancelReadReport, CancelSaveReport, CancelFillReport, CancelGoto
    <3> QED BY <3>1, <3>2
  <2>4. CASE Worker \/ TryRaises \/ ThreadLost \/ Quiet \/ UNCHANGED vars
    <3>1. cancel_pc' = cancel_pc
      BY <2>4 DEF Worker, vars, cancel_vars, Load, CloseCancelled, Announce, Read, Upload,
         ReadOrUploadFails, Check, Row, Send, RecordResult, Pause, SavePath, WriteReport, FillReport,
         RefreshTotals, Finish, FailTotals, FailSave, TryRaises, ThreadLost, Quiet
    <3> QED BY <3>1
  <2> QED BY <2>2, <2>3, <2>4 DEF Next
<1> QED BY <1>2, <1>3, <1>4, <1>5

\* views.py cancel_batch answers "stop registered" or "no longer running" only
\* for a batch that is inactive from then on.
THEOREM RepliesTrue == Spec => []RepliesAreTrue
<1>1. Init => RepliesAreTrue
  BY DEF Init, RepliesAreTrue, InFlight
<1> QED BY <1>1, NextReplies, Invariance, PTL DEF Spec

-----------------------------------------------------------------------------
(* The columns of the batch row.                                           *)

\* A flag the thread has not passed yet was set together with the status.
StopSetsStatus ==
    pc \in {"load", "close"} /\ batch.cancel_requested => batch.status = "cancelled"

LEMMA NextColumns ==
    IInv /\ StopSetsStatus /\ RowColumnsAgree /\ [Next]_vars
        => StopSetsStatus' /\ RowColumnsAgree'
<1> SUFFICES ASSUME IInv, StopSetsStatus, RowColumnsAgree, [Next]_vars
             PROVE  StopSetsStatus' /\ RowColumnsAgree'
  OBVIOUS
<1> USE DEF StopSetsStatus, RowColumnsAgree, BatchTerminal, Goto
<1>0. TypeOK /\ StatusFollowsThread
  BY DEF IInv, TypeInv
<1>1. CASE Load
  BY <1>1 DEF Load
<1>2. CASE CloseCancelled
  <2>1. batch.status = "cancelled"
    BY <1>0, <1>2 DEF CloseCancelled, StatusFollowsThread
  <2> QED BY <1>0, <1>2, <2>1 DEF CloseCancelled, TypeOK
<1>3. CASE Announce
  BY <1>0, <1>3 DEF Announce, AnnouncedRow, TypeOK
<1>4. CASE Upload \/ SavePath
  BY <1>0, <1>4 DEF Upload, SavePath, TypeOK
<1>5. CASE Finish
  BY <1>0, <1>5 DEF Finish, FinalStatus, FinalError, TypeOK
<1>6. CASE FailSave
  BY <1>0, <1>6 DEF FailSave, FailedRow, TypeOK
<1>7. ASSUME NEW c \in Cancellers, CancelSave(c) PROVE StopSetsStatus' /\ RowColumnsAgree'
  BY <1>0, <1>7 DEF CancelSave, StoppedRow, TypeOK
<1>8. CASE batch' = batch /\ (pc' = pc \/ pc' \notin {"load", "close"})
  BY <1>8
<1>9. CASE \/ Read \/ ReadOrUploadFails \/ Check \/ Row \/ Send \/ RecordResult \/ Pause
           \/ WriteReport \/ FillReport \/ RefreshTotals \/ FailTotals
  <2>1. batch' = batch /\ pc' \notin {"load", "close"}
    BY <1>9 DEF Read, ReadOrUploadFails, Check, Row, Send, RecordResult, Pause,
       WriteReport, FillReport, RefreshTotals, FailTotals
  <2> QED BY <2>1, <1>8
<1>10. CASE TryRaises \/ ThreadLost \/ Restart
  <2>1. batch' = batch /\ (pc' = pc \/ pc' \notin {"load", "close"})
    BY <1>10 DEF TryRaises, ThreadLost, Restart
  <2> QED BY <2>1, <1>8
<1>11. ASSUME NEW c \in Cancellers,
              \/ CancelRead(c) \/ CancelCount(c) \/ CancelTotals(c) \/ CancelReadReport(c)
              \/ CancelSaveReport(c) \/ CancelFillReport(c) \/ CancelRaises(c)
       PROVE  StopSetsStatus' /\ RowColumnsAgree'
  <2>1. batch' = batch /\ pc' = pc
    BY <1>11 DEF CancelRead, CancelCount, CancelTotals, CancelReadReport,
       CancelSaveReport, CancelFillReport, CancelRaises
  <2> QED BY <2>1, <1>8
<1>12. CASE Quiet \/ UNCHANGED vars
  BY <1>12, <1>8 DEF Quiet, vars
<1> QED
  BY <1>1, <1>2, <1>3, <1>4, <1>5, <1>6, <1>7, <1>9, <1>10, <1>11, <1>12
  DEF Next, Worker, CancelStep

\* status, error_message and finished_at fit each other at every moment,
\* although core.py 838-861 and 882-1043 write them in different statements.
THEOREM ColumnsAgree == Spec => []RowColumnsAgree
<1>1. ASSUME Init PROVE StopSetsStatus /\ RowColumnsAgree
  <2>1. /\ batch.status = "pending" /\ batch.finished = FALSE
        /\ batch.error_message = "" /\ batch.cancel_requested = FALSE
    BY <1>1 DEF Init
  <2> QED BY <2>1 DEF StopSetsStatus, RowColumnsAgree, BatchTerminal
<1> QED BY <1>1, NextColumns, Invariance, PTL DEF Spec

-----------------------------------------------------------------------------
(* BatchProcessing implements StoppableBatch.                              *)

LEMMA InitContract == Init => Promise!Init
<1> SUFFICES ASSUME Init PROVE Promise!Init
  OBVIOUS
<1>1. IsActive = TRUE /\ batch.cancel_requested = FALSE BY DEF Init, IsActive, BatchActive
<1>2. LastRow = 0 /\ (pc = "row") = FALSE BY DEF Init, LastRow
<1> QED BY <1>1, <1>2 DEF Promise!Init

\* A step that leaves the page's four values alone.
LEMMA Stutter ==
    ASSUME IsActive' = IsActive, batch'.cancel_requested = batch.cancel_requested,
           LastRow' = LastRow, pc' # "row", pc # "row"
    PROVE  UNCHANGED Promise!vars
BY DEF Promise!vars

LEMMA NextContract ==
    IInv /\ [Next]_vars => [Promise!Next]_Promise!vars
<1> SUFFICES ASSUME IInv, [Next]_vars PROVE [Promise!Next]_Promise!vars
  OBVIOUS
<1>0. TypeInv /\ TypeOK /\ StatusFollowsThread /\ Len(recipients) \in Nat
  BY JobType DEF IInv, TypeInv
<1>a. IsActive \in BOOLEAN /\ IsActive' \in BOOLEAN
  BY DEF IsActive
<1> USE DEF Goto
<1>1. CASE Load
  BY <1>0, <1>1, Stutter DEF Load, IsActive, LastRow, vars, row_vars, cancel_vars
<1>2. CASE CloseCancelled
  BY <1>0, <1>2, Stutter DEF CloseCancelled, StatusFollowsThread, TypeOK, BatchActive, IsActive, LastRow, vars, row_vars, cancel_vars
<1>3. CASE Announce
  BY <1>0, <1>3, Stutter DEF Announce, AnnouncedRow, StatusFollowsThread, TypeOK, BatchActive, IsActive, LastRow, vars, row_vars, cancel_vars
<1>4. CASE Read
  BY <1>0, <1>4, Stutter DEF Read, IsActive, LastRow, vars, row_vars, cancel_vars
<1>5. CASE Upload
  BY <1>0, <1>5, Stutter DEF Upload, TypeOK, IsActive, LastRow, vars, row_vars, cancel_vars
<1>6. CASE ReadOrUploadFails
  BY <1>0, <1>6, Stutter DEF ReadOrUploadFails, IsActive, LastRow, vars, row_vars, cancel_vars
<1>7. CASE Check
  <2>1. CASE pc' = "row"
    <3>1. ~batch.cancel_requested /\ batch.status = "running"
      BY <1>0, <1>7, <2>1 DEF Check, StatusFollowsThread, TypeOK, TryBody
    <3>2. Promise!TakeUp
      BY <1>7, <2>1, <3>1 DEF Check, Promise!TakeUp, IsActive, BatchActive, LastRow, row_vars
    <3> QED BY <3>2 DEF Promise!Next
  <2>2. CASE pc' # "row"
    BY <1>7, <2>2, Stutter DEF Check, IsActive, LastRow, row_vars
  <2> QED BY <2>1, <2>2
<1>8. CASE Row
  <2>1. Len(recipients') = Len(recipients) + 1
    BY <1>0, <1>8 DEF Row, TypeOK
  <2>2. pc = "row" /\ pc' # "row" /\ batch' = batch
    BY <1>8 DEF Row
  <2>3. Promise!Record
    BY <2>1, <2>2 DEF Promise!Record, IsActive, LastRow
  <2> QED BY <2>3 DEF Promise!Next
<1>9. CASE Send
  BY <1>0, <1>9, Stutter DEF Send, IsActive, LastRow, vars, row_vars, cancel_vars
<1>10. CASE RecordResult
  <2>1. Len(recipients') = Len(recipients)
    BY <1>0, <1>10, ReplaceType DEF RecordResult, WithResult, TypeOK
  <2> QED BY <2>1, <1>10, Stutter DEF RecordResult, IsActive, LastRow
<1>11. CASE Pause
  BY <1>0, <1>11, Stutter DEF Pause, IsActive, LastRow, vars, row_vars, cancel_vars
<1>12. CASE SavePath
  BY <1>0, <1>12, Stutter DEF SavePath, TypeOK, IsActive, LastRow, vars, row_vars, cancel_vars
<1>13. CASE WriteReport \/ FillReport
  BY <1>0, <1>13, Stutter DEF WriteReport, FillReport, IsActive, LastRow, vars, row_vars, cancel_vars
<1>14. CASE RefreshTotals
  BY <1>0, <1>14, Stutter DEF RefreshTotals, IsActive, LastRow, vars, row_vars, cancel_vars
<1>15. CASE Finish
  <2>1. ~IsActive' /\ pc # "row" /\ pc' # "row" /\ LastRow' = LastRow
        /\ batch'.cancel_requested = batch.cancel_requested
    BY <1>0, <1>15 DEF Finish, FinalStatus, IsActive, TypeOK, BatchActive, LastRow, row_vars
  <2>2. Promise!End
    BY <2>1, <1>a DEF Promise!End
  <2> QED BY <2>2 DEF Promise!Next
<1>16. CASE FailTotals
  BY <1>0, <1>16, Stutter DEF FailTotals, IsActive, LastRow, vars, row_vars, cancel_vars
<1>17. CASE FailSave
  <2>1. ~IsActive' /\ pc # "row" /\ pc' # "row" /\ LastRow' = LastRow
        /\ batch'.cancel_requested = batch.cancel_requested
    BY <1>0, <1>17 DEF FailSave, FailedRow, IsActive, TypeOK, BatchActive, LastRow, row_vars
  <2>2. Promise!End
    BY <2>1, <1>a DEF Promise!End
  <2> QED BY <2>2 DEF Promise!Next
<1>18. CASE TryRaises
  <2>1. batch' = batch /\ recipients' = recipients /\ pc' # "row"
    BY <1>18 DEF TryRaises, Ended
  <2>2. CASE pc = "row"
    <3>1. Promise!Abandon
      BY <2>1, <2>2 DEF Promise!Abandon, IsActive, LastRow
    <3> QED BY <3>1 DEF Promise!Next
  <2>3. CASE pc # "row"
    BY <2>1, <2>3, Stutter DEF IsActive, LastRow
  <2> QED BY <2>2, <2>3
<1>19. CASE ThreadLost
  BY <1>0, <1>19, Stutter DEF ThreadLost, Prologue, Handler, IsActive, LastRow, vars, row_vars, cancel_vars
<1>20. CASE Restart
  <2>1. batch' = batch /\ recipients' = recipients /\ pc' # "row"
    BY <1>20 DEF Restart, Ended
  <2>2. CASE pc = "row"
    <3>1. Promise!Abandon
      BY <2>1, <2>2 DEF Promise!Abandon, IsActive, LastRow
    <3> QED BY <3>1 DEF Promise!Next
  <2>3. CASE pc # "row"
    BY <2>1, <2>3, Stutter DEF IsActive, LastRow
  <2> QED BY <2>2, <2>3
<1>21. ASSUME NEW c \in Cancellers, CancelRead(c) PROVE [Promise!Next]_Promise!vars
  BY <1>21 DEF CancelRead, Promise!vars, IsActive, LastRow, row_vars
<1>22. ASSUME NEW c \in Cancellers, CancelCount(c) PROVE [Promise!Next]_Promise!vars
  BY <1>22 DEF CancelCount, Promise!vars, IsActive, LastRow, row_vars
<1>23. ASSUME NEW c \in Cancellers, CancelTotals(c) PROVE [Promise!Next]_Promise!vars
  BY <1>23 DEF CancelTotals, Promise!vars, IsActive, LastRow, row_vars
<1>24. ASSUME NEW c \in Cancellers, CancelReadReport(c) PROVE [Promise!Next]_Promise!vars
  BY <1>24 DEF CancelReadReport, Promise!vars, IsActive, LastRow, row_vars
<1>25. ASSUME NEW c \in Cancellers, CancelSaveReport(c) \/ CancelFillReport(c)
       PROVE  [Promise!Next]_Promise!vars
  BY <1>25 DEF CancelSaveReport, CancelFillReport, Promise!vars, IsActive, LastRow, row_vars
<1>26. ASSUME NEW c \in Cancellers, CancelRaises(c) PROVE [Promise!Next]_Promise!vars
  BY <1>26 DEF CancelRaises, Promise!vars, IsActive, LastRow, row_vars
<1>27. ASSUME NEW c \in Cancellers, CancelSave(c) PROVE [Promise!Next]_Promise!vars
  <2>1. ~IsActive' /\ batch'.cancel_requested = TRUE
    BY <1>0, <1>27 DEF CancelSave, StoppedRow, IsActive, TypeOK
  <2>2. LastRow' = LastRow /\ pc' = pc
    BY <1>27 DEF CancelSave, LastRow, row_vars
  <2>3. Promise!Stop
    BY <2>1, <2>2, <1>a DEF Promise!Stop
  <2> QED BY <2>3 DEF Promise!Next
<1>28. CASE Quiet \/ UNCHANGED vars
  BY <1>28 DEF Quiet, vars, Promise!vars, IsActive, LastRow, row_vars
<1> QED
  BY <1>1, <1>2, <1>3, <1>4, <1>5, <1>6, <1>7, <1>8, <1>9, <1>10, <1>11, <1>12,
     <1>13, <1>14, <1>15, <1>16, <1>17, <1>18, <1>19, <1>20, <1>21, <1>22, <1>23,
     <1>24, <1>25, <1>26, <1>27, <1>28
  DEF Next, Worker, CancelStep

\* The batch page's contract holds of every behaviour of the processing.
THEOREM KeepsContract == Spec => Contract
BY InitContract, NextContract, Invariance, PTL DEF Spec, Contract, Promise!Spec
=============================================================================
