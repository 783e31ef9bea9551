-------------------------- MODULE BatchLedgerProofs --------------------------
(***************************************************************************)
(* Proofs about BatchProcessing: which messages leave, what the recipient  *)
(* rows tell of them, and how a batch ends, for every set of sheets, any   *)
(* number of stop requests and any number of faults.                       *)
(***************************************************************************)
EXTENDS BatchProcessingProofs

\* What both invariants need of the types.
LEMMA Types ==
    ASSUME TypeInv
    PROVE  /\ job \in Job /\ Len(job.rows) \in Nat
           /\ recipients \in Seq(RowStatuses) /\ Len(recipients) \in Nat
           /\ DOMAIN recipients = 1..Len(recipients)
           /\ posted \subseteq Nat
<1> TypeOK
  BY DEF TypeInv
<1>1. recipients \in Seq(RowStatuses) /\ posted \subseteq Nat
  BY DEF TypeOK
<1> QED BY <1>1, JobType

\* The steps that neither record a row nor hand one over.
Aside ==
    /\ UNCHANGED <<job, recipients, posted>>
    /\ batch'.file_id = batch.file_id \/ batch'.file_id = TRUE
    /\ \/ pc' = pc /\ UNCHANGED <<result, seen>>
       \/ /\ pc \notin {"row", "send", "record"} \cup Handler \cup Ended
          /\ pc' \notin {"send", "record"}
          /\ seen' = seen
       \/ /\ pc \in Handler \cup TryBody \cup Prologue
          /\ pc' \in {"raised", "lost", "killed"} \cup Handler
          /\ seen' = seen

LEMMA AsideLedger ==
    ASSUME TypeInv, LedgerFollowsThread, LedgerMatchesPosts, Aside
    PROVE  LedgerFollowsThread' /\ LedgerMatchesPosts'
<1> USE DEF Aside, LedgerFollowsThread, LedgerMatchesPosts, LastRow,
            Handler, TryBody, Prologue, Ended
<1>1. CASE pc' = pc
  BY <1>1
<1>2. CASE pc' \in {"raised", "lost", "killed"} \cup Handler
  BY <1>2
<1>3. CASE /\ pc \notin {"row", "send", "record"} \cup Handler \cup Ended
           /\ pc' \notin {"send", "record"}
  <2>1. \A r \in DOMAIN recipients : recipients[r] # "pending"
    BY <1>3
  <2> QED BY <1>3, <2>1
<1> QED BY <1>1, <1>2, <1>3

\* The loop is entered with the attachment uploaded.
EntersPrepared ==
    (pc' \in {"check", "row", "pause"} /\ job.attachment /\ ~job.dry_run)
        => pc \in {"check", "row", "record", "pause"} \/ batch'.file_id

LEMMA AsideSends ==
    ASSUME TypeInv, SendsFollowThread, PostsAreLegitimate, Aside, EntersPrepared
    PROVE  SendsFollowThread' /\ PostsAreLegitimate'
<1> USE DEF Aside, EntersPrepared, LastRow, Handler, TryBody, Prologue, Ended
<1>1. PostsAreLegitimate'
  BY DEF PostsAreLegitimate
<1>2. SendsFollowThread'
  BY DEF SendsFollowThread
<1> QED BY <1>1, <1>2
\* The steps that hand over a row or record one.
Posting == \/ Row \/ Send \/ RecordResult
           \/ pc = "send" /\ posted' # posted /\ (TryRaises \/ Restart)

LEMMA OtherStepsAreAside ==
    ASSUME TypeInv, [Next]_vars, ~Posting
    PROVE  Aside /\ EntersPrepared
<1> USE DEF Aside, EntersPrepared, TryBody, Handler, Prologue, Ended, Goto
<1>0. TypeOK
  BY DEF TypeInv
<1>1. CASE Load
  BY <1>1 DEF Load, row_vars
<1>2. CASE CloseCancelled
  BY <1>0, <1>2 DEF CloseCancelled, row_vars, TypeOK
<1>3. CASE Announce
  BY <1>0, <1>3 DEF Announce, AnnouncedRow, row_vars, TypeOK
<1>4. CASE Read \/ ReadOrUploadFails
  BY <1>4 DEF Read, ReadOrUploadFails, row_vars
<1>5. CASE Upload
  BY <1>0, <1>5 DEF Upload, row_vars, TypeOK
<1>6. CASE Check \/ Pause
  BY <1>6 DEF Check, Pause, row_vars
<1>7. CASE SavePath
  BY <1>0, <1>7 DEF SavePath, row_vars, TypeOK
<1>8. CASE WriteReport \/ FillReport \/ RefreshTotals \/ FailTotals
  BY <1>8 DEF WriteReport, FillReport, RefreshTotals, FailTotals, row_vars
<1>9. CASE Finish
  BY <1>0, <1>9 DEF Finish, row_vars, TypeOK
<1>10. CASE FailSave
  BY <1>0, <1>10 DEF FailSave, FailedRow, row_vars, TypeOK
<1>11. CASE TryRaises
  BY <1>11 DEF TryRaises, Posting
<1>12. CASE ThreadLost
  BY <1>12 DEF ThreadLost, row_vars
<1>13. CASE Restart
  BY <1>0, <1>13 DEF Restart, Posting, TypeOK
<1>14. ASSUME NEW c \in Cancellers, CancelSave(c) PROVE Aside /\ EntersPrepared
  BY <1>0, <1>14 DEF CancelSave, StoppedRow, row_vars, SendsFollowThread, TypeOK
<1>15. ASSUME NEW c \in Cancellers,
              \/ CancelRead(c) \/ CancelCount(c) \/ CancelTotals(c) \/ CancelReadReport(c)
              \/ CancelSaveReport(c) \/ CancelFillReport(c) \/ CancelRaises(c)
       PROVE  Aside /\ EntersPrepared
  BY <1>15 DEF CancelRead, CancelCount, CancelTotals, CancelReadReport,
     CancelSaveReport, CancelFillReport, CancelRaises, row_vars
<1>16. CASE Quiet \/ UNCHANGED vars
  BY <1>16 DEF Quiet, vars, row_vars
<1> QED
  BY <1>1, <1>2, <1>3, <1>4, <1>5, <1>6, <1>7, <1>8, <1>9, <1>10, <1>11, <1>12, <1>13,
     <1>14, <1>15, <1>16 DEF Next, Worker, CancelStep, Posting
-----------------------------------------------------------------------------
(* A row is recorded.                                                      *)

\* The statuses a row is recorded with; it is "pending" only if its message
\* may leave.
LEMMA RowStatusCases ==
    ASSUME NEW item \in Item
    PROVE  /\ RowStatus(item) \in {"failed", "invalid_phone", "duplicate", "dry_run", "pending"}
           /\ RowStatus(item) = "pending" =>
                 /\ ~job.dry_run /\ item.renders /\ item.phone \in Phones
                 /\ job.skip_duplicates => item.phone \notin seen
BY DEF RowStatus, Item

\* The ledger grows by one entry, which no message stands for yet.
LEMMA RowAppends ==
    ASSUME TypeInv, Row
    PROVE  /\ job.rows[NextRow] \in Item /\ NextRow <= Len(job.rows)
           /\ Len(recipients') = NextRow /\ DOMAIN recipients' = 1..NextRow
           /\ \A r \in DOMAIN recipients : recipients'[r] = recipients[r]
           /\ recipients'[NextRow] = RowStatus(job.rows[NextRow])
           /\ job' = job /\ posted' = posted /\ pc = "row"
           /\ pc' = IF recipients'[NextRow] = "pending" THEN "send" ELSE "check"
<1>1. pc = "row" /\ NextRow \in DOMAIN job.rows /\ job \in Job
  BY Types DEF Row, TypeInv, RowInHand
<1>2. job.rows[NextRow] \in Item /\ NextRow <= Len(job.rows)
  BY <1>1 DEF Job
<1>3. RowStatus(job.rows[NextRow]) \in RowStatuses
  BY <1>2, RowStatusType
<1>4. recipients' = Append(recipients, RowStatus(job.rows[NextRow]))
  BY DEF Row
<1>5. /\ Len(recipients') = NextRow /\ DOMAIN recipients' = 1..NextRow
      /\ \A r \in DOMAIN recipients : recipients'[r] = recipients[r]
      /\ recipients'[NextRow] = RowStatus(job.rows[NextRow])
  BY <1>3, <1>4, Types DEF NextRow
<1>6. /\ job' = job /\ posted' = posted
      /\ pc' = IF RowStatus(job.rows[NextRow]) = "pending" THEN "send" ELSE "check"
  BY DEF Row
<1> QED BY <1>1, <1>2, <1>5, <1>6

LEMMA RowLedger ==
    ASSUME TypeInv, LedgerFollowsThread, LedgerMatchesPosts, Row
    PROVE  LedgerFollowsThread' /\ LedgerMatchesPosts'
<1> DEFINE status == recipients'[NextRow]
<1>1. status \in {"failed", "invalid_phone", "duplicate", "dry_run", "pending"}
  BY RowAppends, RowStatusCases
<1>2. /\ \A r \in DOMAIN recipients : recipients[r] # "pending"
      /\ posted \subseteq DOMAIN recipients
  BY RowAppends DEF LedgerFollowsThread, LedgerMatchesPosts, Handler
<1>3. LastRow' = NextRow /\ NextRow \notin posted /\ NextRow > 0
      /\ DOMAIN recipients' = DOMAIN recipients \cup {NextRow}
  BY <1>2, RowAppends, Types DEF LastRow, NextRow
<1>4. LedgerMatchesPosts'
  BY <1>1, <1>2, <1>3, RowAppends DEF LedgerMatchesPosts, ApiResults
<1>5. LedgerFollowsThread'
  BY <1>1, <1>2, <1>3, RowAppends DEF LedgerFollowsThread, LastRow
<1> QED BY <1>4, <1>5

LEMMA RowSends ==
    ASSUME TypeInv, LedgerMatchesPosts, SendsFollowThread, PostsAreLegitimate, Row
    PROVE  SendsFollowThread' /\ PostsAreLegitimate'
<1> DEFINE item == job.rows[NextRow]
<1>1. /\ seen' = IF RowStatus(item) \in {"dry_run", "pending"}
                   THEN seen \cup {item.phone} ELSE seen
      /\ batch' = batch
  BY DEF Row
<1>2. PostsAreLegitimate'
  BY <1>1, RowAppends DEF PostsAreLegitimate
<1>3. \A r \in posted : job.rows[r].phone \in seen /\ job.rows[r].phone \in seen'
  BY <1>1 DEF SendsFollowThread
<1>4. CASE RowStatus(item) = "pending"
  <2>1. LastRow' = NextRow
    BY RowAppends DEF LastRow
  <2>2. /\ ~job.dry_run /\ item.renders /\ item.phone \in seen'
        /\ job.skip_duplicates => \A q \in posted : job.rows[q].phone # item.phone
    BY <1>1, <1>3, <1>4, RowAppends, RowStatusCases
  <2> QED BY <1>1, <1>2, <1>3, <1>4, <2>1, <2>2, RowAppends DEF SendsFollowThread
<1>5. CASE RowStatus(item) # "pending"
  BY <1>1, <1>2, <1>3, <1>5, RowAppends DEF SendsFollowThread
<1> QED BY <1>4, <1>5

\* The numbers remembered and the duplicates found by them.
LEMMA RowDuplicates ==
    ASSUME TypeInv, SeenFollowsRows, DuplicatesAreHeldBack, Row
    PROVE  SeenFollowsRows' /\ DuplicatesAreHeldBack'
<1> DEFINE item == job.rows[NextRow]
           status == recipients'[NextRow]
           earlier == {k \in DOMAIN recipients : Addressed(k)}
<1>1. /\ seen' = IF RowStatus(item) \in {"dry_run", "pending"}
                   THEN seen \cup {item.phone} ELSE seen
      /\ status = RowStatus(item) /\ item \in Item
  BY RowAppends DEF Row
<1>2. /\ NextRow \in Nat /\ DOMAIN recipients = 1..NextRow-1
      /\ DOMAIN recipients' = DOMAIN recipients \cup {NextRow}
      /\ NextRow \notin DOMAIN recipients
  BY RowAppends, Types DEF NextRow
<1>3. \A k : Addressed(k)' <=> Addressed(k)
  BY RowAppends DEF Addressed
<1>4. item.phone \in seen <=> \E j \in 1..NextRow-1 : Addressed(j) /\ job.rows[j].phone = item.phone
  BY <1>2 DEF SeenFollowsRows
<1>5. status = "duplicate" <=> job.skip_duplicates /\ Addressed(NextRow) /\ item.phone \in seen
  BY <1>1 DEF RowStatus, Addressed
<1>6. DuplicatesAreHeldBack'
  <2> SUFFICES ASSUME NEW k \in DOMAIN recipients'
               PROVE  recipients'[k] = "duplicate" <=>
                        /\ job.skip_duplicates /\ Addressed(k)
                        /\ \E j \in 1..k-1 : Addressed(j) /\ job.rows[j].phone = job.rows[k].phone
    BY <1>3, RowAppends DEF DuplicatesAreHeldBack
  <2>1. CASE k = NextRow
    BY <2>1, <1>4, <1>5
  <2>2. CASE k \in DOMAIN recipients
    BY <2>2, RowAppends DEF DuplicatesAreHeldBack
  <2> QED BY <1>2, <2>1, <2>2
<1>7. seen' = {job.rows[j].phone : j \in earlier \cup {k \in {NextRow} : Addressed(k)}}
  <2>1. CASE Addressed(NextRow)
    <3>1. item.phone \in seen \/ RowStatus(item) \in {"dry_run", "pending"}
      BY <2>1 DEF RowStatus, Addressed
    <3>2. seen' = seen \cup {item.phone}
      BY <1>1, <3>1
    <3> QED BY <2>1, <3>2 DEF SeenFollowsRows
  <2>2. CASE ~Addressed(NextRow)
    <3>1. RowStatus(item) \notin {"dry_run", "pending"}
      BY <2>2 DEF RowStatus, Addressed
    <3> QED BY <1>1, <2>2, <3>1 DEF SeenFollowsRows
  <2> QED BY <2>1, <2>2
<1>8. {k \in DOMAIN recipients' : Addressed(k)'} = earlier \cup {k \in {NextRow} : Addressed(k)}
  BY <1>2, <1>3
<1>9. SeenFollowsRows'
  BY <1>7, <1>8, RowAppends DEF SeenFollowsRows
<1> QED BY <1>6, <1>9

\* Every other step leaves them alone: a result is never "duplicate".
LEMMA OtherDuplicates ==
    ASSUME SeenFollowsRows, DuplicatesAreHeldBack, job' = job, seen' = seen,
           DOMAIN recipients' = DOMAIN recipients,
           \A k \in DOMAIN recipients :
               recipients'[k] = "duplicate" <=> recipients[k] = "duplicate"
    PROVE  SeenFollowsRows' /\ DuplicatesAreHeldBack'
<1>1. \A k : Addressed(k)' <=> Addressed(k)
  BY DEF Addressed
<1>2. SeenFollowsRows'
  <2>1. {k \in DOMAIN recipients' : Addressed(k)'} = {k \in DOMAIN recipients : Addressed(k)}
    BY <1>1
  <2> QED BY <2>1 DEF SeenFollowsRows
<1>3. DuplicatesAreHeldBack'
  BY <1>1 DEF DuplicatesAreHeldBack
<1> QED BY <1>2, <1>3

-----------------------------------------------------------------------------
(* A message leaves, in Send or in a step that then fails.                 *)

\* The row in hand is handed over, and the thread goes where its entry may be
\* "pending".
HandsOver ==
    /\ pc = "send"
    /\ pc' \in {"record", "fail_totals", "killed"}
    /\ posted' = posted \cup {LastRow}
    /\ pc' = "record" => result' \in ApiResults
    /\ UNCHANGED <<job, batch, recipients, seen>>

LEMMA HandsOverLedger ==
    ASSUME TypeInv, LedgerFollowsThread, LedgerMatchesPosts, HandsOver
    PROVE  LedgerFollowsThread' /\ LedgerMatchesPosts'
<1>1. LastRow \in DOMAIN recipients /\ recipients[LastRow] = "pending" /\ LastRow' = LastRow
  BY Types DEF LedgerFollowsThread, HandsOver, LastRow
<1>2. LedgerMatchesPosts'
  BY <1>1 DEF LedgerMatchesPosts, HandsOver
<1>3. LedgerFollowsThread'
  BY <1>1 DEF LedgerFollowsThread, HandsOver, Handler, ApiResults
<1> QED BY <1>2, <1>3

LEMMA HandsOverSends ==
    ASSUME TypeInv, LedgerFollowsThread, SendsFollowThread, PostsAreLegitimate, HandsOver,
           job.rows[LastRow].phone \in Phones
    PROVE  SendsFollowThread' /\ PostsAreLegitimate'
<1>1. /\ ~job.dry_run /\ job.rows[LastRow].renders /\ job.rows[LastRow].phone \in seen
      /\ job.attachment => batch.file_id
      /\ job.skip_duplicates =>
            \A q \in posted : job.rows[q].phone # job.rows[LastRow].phone
  BY DEF SendsFollowThread, HandsOver
<1>2. PostsAreLegitimate'
  BY <1>1 DEF PostsAreLegitimate, HandsOver
<1>3. SendsFollowThread'
  BY <1>1 DEF SendsFollowThread, HandsOver
<1> QED BY <1>2, <1>3

\* A send without a key or a bot id: nothing leaves.
LEMMA ConfigErrorStep ==
    ASSUME TypeInv, LedgerInv, Send, ~configured
    PROVE  LedgerInv'
<1> USE DEF Send, Goto, LastRow
<1>1. /\ pc = "send" /\ pc' = "record" /\ result' = "config_error"
      /\ UNCHANGED <<job, batch, recipients, seen, posted>>
  OBVIOUS
<1>2. LedgerMatchesPosts' /\ LedgerFollowsThread'
  BY <1>1 DEF LedgerInv, LedgerMatchesPosts, LedgerFollowsThread
<1>3. PostsAreLegitimate' /\ SendsFollowThread'
  BY <1>1 DEF LedgerInv, PostsAreLegitimate, SendsFollowThread
<1>4. SeenFollowsRows' /\ DuplicatesAreHeldBack'
  BY <1>1, OtherDuplicates DEF LedgerInv
<1> QED BY <1>2, <1>3, <1>4 DEF LedgerInv

-----------------------------------------------------------------------------
(* The result is stored.                                                   *)

LEMMA RecordStep ==
    ASSUME TypeInv, LedgerInv, RecordResult
    PROVE  LedgerInv'
<1>0. /\ pc = "record" /\ pc' = "pause" /\ recipients' = [recipients EXCEPT ![LastRow] = result]
      /\ UNCHANGED <<job, batch, seen, posted>>
  BY DEF RecordResult, Goto, WithResult
<1>1. /\ LastRow \in DOMAIN recipients /\ recipients[LastRow] = "pending"
      /\ result \in ApiResults \cup {"config_error"}
      /\ result = "config_error" <=> LastRow \notin posted
  BY <1>0, Types DEF LedgerInv, LedgerFollowsThread, LastRow
<1>2. /\ recipients'[LastRow] = result /\ DOMAIN recipients' = DOMAIN recipients
      /\ \A r \in DOMAIN recipients : r # LastRow => recipients'[r] = recipients[r]
  BY <1>0, <1>1
<1>3. Len(recipients') = Len(recipients) /\ LastRow' = LastRow
  <2>1. result \in RowStatuses
    BY <1>1 DEF RowStatuses
  <2> QED BY <1>0, <2>1, ReplaceType, Types DEF LastRow
<1>4. \A r \in DOMAIN recipients' : recipients'[r] # "pending"
  BY <1>1, <1>2 DEF LedgerInv, LedgerMatchesPosts, ApiResults
<1>5. LedgerMatchesPosts'
  BY <1>0, <1>1, <1>2, <1>4 DEF LedgerInv, LedgerMatchesPosts, ApiResults
<1>6. LedgerFollowsThread'
  BY <1>0, <1>3, <1>4 DEF LedgerInv, LedgerFollowsThread
<1>7. PostsAreLegitimate'
  BY <1>0 DEF LedgerInv, PostsAreLegitimate
<1>8. SendsFollowThread'
  BY <1>0, <1>3 DEF LedgerInv, SendsFollowThread
<1>9. SeenFollowsRows' /\ DuplicatesAreHeldBack'
  BY <1>0, <1>1, <1>2, OtherDuplicates DEF LedgerInv, ApiResults
<1> QED BY <1>5, <1>6, <1>7, <1>8, <1>9 DEF LedgerInv
-----------------------------------------------------------------------------
(* The invariant and what it gives.                                        *)

LEMMA InitLedger == Init => LedgerInv
<1> SUFFICES ASSUME Init PROVE LedgerInv
  OBVIOUS
<1>1. recipients = <<>> /\ posted = {} /\ pc = "load"
  BY DEF Init
<1>2. Len(recipients) = 0 /\ DOMAIN recipients = {}
  BY <1>1
<1>3. Len(job.rows) \in Nat
  BY InitTypeInv, Types
<1>4. seen = {}
  BY DEF Init
<1>5. SeenFollowsRows /\ DuplicatesAreHeldBack
  BY <1>2, <1>4 DEF SeenFollowsRows, DuplicatesAreHeldBack
<1> QED
  BY <1>1, <1>2, <1>3, <1>5 DEF LedgerInv, LedgerFollowsThread, LedgerMatchesPosts,
     SendsFollowThread, PostsAreLegitimate

LEMMA NextLedger == TypeInv /\ LedgerInv /\ [Next]_vars => LedgerInv'
<1> SUFFICES ASSUME TypeInv, LedgerInv, [Next]_vars PROVE LedgerInv'
  OBVIOUS
<1>0. /\ LedgerFollowsThread /\ LedgerMatchesPosts
      /\ SendsFollowThread /\ PostsAreLegitimate
      /\ SeenFollowsRows /\ DuplicatesAreHeldBack
  BY DEF LedgerInv
<1>1. CASE ~Posting
  <2>1. Aside /\ EntersPrepared
    BY <1>1, OtherStepsAreAside
  <2>2. SeenFollowsRows' /\ DuplicatesAreHeldBack'
    BY <1>0, <2>1, OtherDuplicates DEF Aside
  <2> QED BY <1>0, <2>1, <2>2, AsideLedger, AsideSends DEF LedgerInv
<1>2. CASE Row
  BY <1>0, <1>2, RowLedger, RowSends, RowDuplicates DEF LedgerInv
<1>3. CASE RecordResult
  BY <1>3, RecordStep
<1>4. CASE Send /\ ~configured
  BY <1>4, ConfigErrorStep
<1>5. ASSUME HandsOver PROVE LedgerInv'
  <2>1. job.rows[LastRow].phone \in Phones
    BY <1>0, <1>5 DEF HandsOver, SendsFollowThread, TypeInv, TypeOK
  <2>2. SeenFollowsRows' /\ DuplicatesAreHeldBack'
    BY <1>0, <1>5, OtherDuplicates DEF HandsOver
  <2> QED BY <1>0, <1>5, <2>1, <2>2, HandsOverLedger, HandsOverSends DEF LedgerInv
<1>6. CASE Send /\ configured
  <2>1. HandsOver
    BY <1>6 DEF Send, Goto, HandsOver
  <2> QED BY <1>5, <2>1
<1>7. CASE pc = "send" /\ posted' # posted /\ (TryRaises \/ Restart)
  <2>1. HandsOver
    BY <1>7 DEF TryRaises, Restart, Ended, HandsOver
  <2> QED BY <1>5, <2>1
<1> QED BY <1>1, <1>2, <1>3, <1>4, <1>6, <1>7 DEF Posting

\* core.py 949-1014: the row in hand, the rows recorded and the messages handed
\* over stay tied together at every step of the loop, also one that fails.
THEOREM LedgerInvariance == Spec => []LedgerInv
<1>1. TypeInv /\ LedgerInv /\ [Next]_vars => (TypeInv /\ LedgerInv)'
  BY NextTypeInv, NextLedger
<1> QED BY InitTypeInv, InitLedger, <1>1, PTL DEF Spec

\* core.py 926-1003: a message leaves only for a row that may be sent, and
\* once per number when duplicates are skipped, whatever stops, raises or dies.
THEOREM OnlyLegitimateSends == Spec => []SendsAreLegitimate
<1>1. LedgerInv => SendsAreLegitimate BY DEF LedgerInv, SendsAreLegitimate
<1> QED BY <1>1, LedgerInvariance, PTL

\* core.py 977-1012: a row is in the database before its message leaves, and
\* its status tells what became of it.
THEOREM LedgerIsTrue == Spec => []LedgerMatchesPosts
<1>1. LedgerInv => LedgerMatchesPosts BY DEF LedgerInv
<1> QED BY <1>1, LedgerInvariance, PTL

-----------------------------------------------------------------------------
(* How a batch ends: its status, its report and its totals, with a stop    *)
(* and without one.                                                        *)

\* What the invariants so far give every step.
Known == IInv /\ LedgerInv

LEMMA KnownTypes == Known => TypeInv /\ TypeOK
BY DEF Known, IInv, TypeInv

LEMMA KnownInvariance == Spec => []Known
BY Invariance, LedgerInvariance, PTL DEF Known

-----------------------------------------------------------------------------
(* The flag.                                                               *)

\* A request that has saved its stop.
HasStopped(c) ==
    cancel_pc[c] \in {"count", "totals", "read_report", "save_report", "fill_report", "stopped"}

FlagInv ==
    /\ mem_cancel => batch.cancel_requested
    /\ \A c \in Cancellers : HasStopped(c) => batch.cancel_requested

\* No step takes a stop back.
LEMMA FlagStays ==
    ASSUME TypeOK, [Next]_vars, batch.cancel_requested
    PROVE  batch'.cancel_requested
<1>1. CASE CloseCancelled \/ Announce \/ Upload \/ SavePath \/ Finish \/ FailSave
  BY <1>1 DEF CloseCancelled, Announce, AnnouncedRow, Upload, SavePath, Finish,
     FailSave, FailedRow, TypeOK
<1>2. ASSUME NEW c \in Cancellers, CancelSave(c) PROVE batch'.cancel_requested
  BY <1>2 DEF CancelSave, StoppedRow, TypeOK
<1>3. CASE batch' = batch
  BY <1>3
<1>4. \/ CloseCancelled \/ Announce \/ Upload \/ SavePath \/ Finish \/ FailSave
      \/ \E c \in Cancellers : CancelSave(c)
      \/ batch' = batch
  BY DEF Next, Worker, CancelStep, Load, Read, ReadOrUploadFails, Check, Row, Send,
     RecordResult, Pause, WriteReport, FillReport, RefreshTotals, FailTotals, TryRaises,
     ThreadLost, Restart, CancelRead, CancelCount, CancelTotals, CancelReadReport,
     CancelSaveReport, CancelFillReport, CancelRaises, Quiet, vars
<1> QED BY <1>1, <1>2, <1>3, <1>4

LEMMA NextFlag == TypeOK /\ FlagInv /\ [Next]_vars => FlagInv'
<1> SUFFICES ASSUME TypeOK, FlagInv, [Next]_vars PROVE FlagInv'
  OBVIOUS
<1>1. mem_cancel' = mem_cancel \/ mem_cancel' = batch.cancel_requested
  BY DEF Next, Worker, CancelStep, Load, CloseCancelled, Announce, Read, Upload,
     ReadOrUploadFails, Check, Row, Send, RecordResult, Pause, SavePath, WriteReport, FillReport,
     RefreshTotals, Finish, FailTotals, FailSave, TryRaises, ThreadLost, Restart,
     CancelRead, CancelSave, CancelCount, CancelTotals, CancelReadReport,
     CancelSaveReport, CancelFillReport, CancelRaises, Quiet, vars
<1>2. mem_cancel' => batch'.cancel_requested
  BY <1>1, FlagStays DEF FlagInv
<1>3. ASSUME NEW d \in Cancellers, HasStopped(d)' PROVE batch'.cancel_requested
  <2>1. CASE HasStopped(d)
    BY <2>1, FlagStays DEF FlagInv
  <2>2. CASE ~HasStopped(d)
    <3>1. ASSUME NEW c \in Cancellers, CancelSave(c) PROVE batch'.cancel_requested
      BY <3>1 DEF CancelSave, StoppedRow, TypeOK
    <3>2. ASSUME NEW c \in Cancellers,
                 \/ CancelCount(c) \/ CancelTotals(c) \/ CancelReadReport(c)
                 \/ CancelSaveReport(c) \/ CancelFillReport(c)
          PROVE  HasStopped(c)
      BY <3>2 DEF CancelCount, CancelTotals, CancelReadReport, CancelSaveReport, CancelFillReport,
         CancelGoto, HasStopped
    <3>3. ASSUME NEW c \in Cancellers,
                 \/ CancelCount(c) \/ CancelTotals(c) \/ CancelReadReport(c)
                 \/ CancelSaveReport(c) \/ CancelFillReport(c)
          PROVE  c # d => cancel_pc'[d] = cancel_pc[d]
      BY <3>3 DEF CancelCount, CancelTotals, CancelReadReport, CancelSaveReport, CancelFillReport,
         CancelGoto, TypeOK
    <3>4. ASSUME NEW c \in Cancellers, CancelRead(c) \/ CancelRaises(c) PROVE FALSE
      <4>1. cancel_pc'[d] \in {cancel_pc[d], "save", "not_running", "unreported"}
        BY <3>4 DEF CancelRead, CancelRaises, CancelGoto, TypeOK
      <4> QED BY <4>1, <2>2, <1>3 DEF HasStopped
    <3>5. CASE cancel_pc' = cancel_pc
      BY <3>5, <2>2, <1>3 DEF HasStopped
    <3>6. CASE Restart
      <4>1. cancel_pc'[d] \in {cancel_pc[d], "dropped"}
        BY <3>6 DEF Restart, TypeOK
      <4> QED BY <4>1, <2>2, <1>3 DEF HasStopped
    <3>7. cancel_pc' = cancel_pc \/ Restart \/ \E c \in Cancellers :
             CancelRead(c) \/ CancelStep(c) \/ CancelRaises(c)
      BY DEF Next, Worker, Load, CloseCancelled, Announce, Read, Upload,
         ReadOrUploadFails, Check, Row, Send, RecordResult, Pause, SavePath,
         WriteReport, FillReport, RefreshTotals, Finish, FailTotals, FailSave, TryRaises,
         ThreadLost, Quiet, vars, cancel_vars
    <3>8. ASSUME NEW c \in Cancellers,
                 \/ CancelCount(c) \/ CancelTotals(c) \/ CancelReadReport(c)
                 \/ CancelSaveReport(c) \/ CancelFillReport(c)
          PROVE  batch'.cancel_requested
      BY <3>8, <3>2, FlagStays DEF FlagInv
    <3> QED BY <3>1, <3>4, <3>5, <3>6, <3>7, <3>8 DEF CancelStep
  <2> QED BY <2>1, <2>2
<1> QED BY <1>2, <1>3 DEF FlagInv

LEMMA FlagInvariance == Spec => [](Known /\ FlagInv)
<1>1. Init => FlagInv
  BY DEF Init, FlagInv, HasStopped
<1>2. Known /\ FlagInv /\ [Next]_vars => FlagInv'
  BY KnownTypes, NextFlag
<1> QED BY <1>1, <1>2, KnownInvariance, PTL DEF Spec

-----------------------------------------------------------------------------
(* The end of a thread that saw the stop.                                  *)

\* core.py 884-886 and 1029-1033: whatever rows failed, a thread that saw the
\* flag leaves the batch CANCELLED.
THEOREM SeenStopEndsCancelled == Spec => []ObservedStopEndsCancelled
<1>1. Init => ObservedStopEndsCancelled
  BY DEF Init, ObservedStopEndsCancelled
<1>2. TypeOK /\ ObservedStopEndsCancelled /\ [Next]_vars => ObservedStopEndsCancelled'
  <2> SUFFICES ASSUME TypeOK, ObservedStopEndsCancelled, [Next]_vars
               PROVE  ObservedStopEndsCancelled'
    OBVIOUS
  <2> USE DEF ObservedStopEndsCancelled, Goto
  <2>1. CASE CloseCancelled \/ Finish
    BY <2>1 DEF CloseCancelled, Finish, FinalStatus, TypeOK
  <2>2. ASSUME NEW c \in Cancellers, CancelSave(c) PROVE ObservedStopEndsCancelled'
    BY <2>2 DEF CancelSave, StoppedRow, TypeOK
  <2>3. CASE pc' # "returned"
    BY <2>3
  <2>4. CASE pc' = pc /\ mem_cancel' = mem_cancel /\ batch' = batch
    BY <2>4
  <2>5. \/ CloseCancelled \/ Finish \/ \E c \in Cancellers : CancelSave(c)
        \/ pc' # "returned"
        \/ pc' = pc /\ mem_cancel' = mem_cancel /\ batch' = batch
    BY DEF Next, Worker, CancelStep, Load, Announce, Read, Upload,
       ReadOrUploadFails, Check, Row, Send, RecordResult, Pause, SavePath, WriteReport, FillReport,
       RefreshTotals, FailTotals, FailSave, TryRaises, ThreadLost, Restart,
       CancelRead, CancelCount, CancelTotals, CancelReadReport,
       CancelSaveReport, CancelFillReport, CancelRaises, Quiet, vars
  <2> QED BY <2>1, <2>2, <2>3, <2>4, <2>5
<1>3. Known => TypeOK BY KnownTypes
<1> QED BY <1>1, <1>2, <1>3, KnownInvariance, PTL DEF Spec
-----------------------------------------------------------------------------
(* The end of a run nobody stopped.                                        *)

Ending == {"save_path", "write_report", "fill_report", "refresh_totals", "finish", "returned"}

\* After the loop every row is there; each step then adds its part.
EndingIsExact ==
    /\ pc \in Ending => Len(recipients) = Len(job.rows)
    /\ pc \in Ending \ {"save_path"} => batch.report_path
    /\ pc = "fill_report" => ~report.mixed
    /\ pc \in {"refresh_totals", "finish", "returned"} =>
          report.whole /\ report.shows = recipients
    /\ pc \in {"finish", "returned"} => totals = Tally(recipients)
    /\ pc = "returned" =>
          batch.status = IF ~job.dry_run /\ SomeFailed THEN "failed" ELSE "finished"

UndisturbedInv == ~batch.cancel_requested => EndingIsExact

\* What a save that nothing overlapped leaves is what it wrote.
LEMMA FillAlone ==
    ASSUME NEW file \in Reports, NEW s \in Seq(RowStatuses), NEW busy,
           NEW after \in Filled(file, s, busy)
    PROVE  /\ after.shows = s /\ after.mixed = file.mixed
           /\ ~file.mixed => after.whole
<1>1. PICK w \in BOOLEAN : /\ after = [file EXCEPT !.shows = s, !.whole = w]
                           /\ ~w => file.mixed
  BY DEF Filled
<1> QED BY <1>1 DEF Reports

\* The totals count a failure if there is one.
LEMMA TallyShowsFailures ==
    ASSUME recipients \in Seq(RowStatuses)
    PROVE  Tally(recipients)["total_failed"] + Tally(recipients)["total_config_error"] > 0
             <=> SomeFailed
<1> DEFINE At(x) == {k \in DOMAIN recipients : recipients[k] \in {x}}
<1>1. \A x : IsFiniteSet(At(x))
  <2>1. IsFiniteSet(1..Len(recipients))
    BY FS_Interval
  <2>2. \A x : At(x) \subseteq 1..Len(recipients)
    OBVIOUS
  <2> QED BY <2>1, <2>2, FS_Subset
<1>2. \A x : Cardinality(At(x)) \in Nat /\ (Cardinality(At(x)) = 0 <=> At(x) = {})
  BY <1>1, FS_CardinalityType, FS_EmptySet
<1>3. /\ Tally(recipients)["total_failed"] = Cardinality(At("failed"))
      /\ Tally(recipients)["total_config_error"] = Cardinality(At("config_error"))
  BY DEF Tally, TotalFields, Counted
<1>4. SomeFailed <=> At("failed") # {} \/ At("config_error") # {}
  BY DEF SomeFailed
<1> HIDE DEF At
<1> QED BY <1>2, <1>3, <1>4

LEMMA NextUndisturbed ==
    Known /\ FlagInv /\ UndisturbedInv /\ [Next]_vars => UndisturbedInv'
<1> SUFFICES ASSUME Known, FlagInv, UndisturbedInv, [Next]_vars, ~batch'.cancel_requested
             PROVE  EndingIsExact'
  BY DEF UndisturbedInv
<1>0. TypeOK /\ TypeInv /\ StatusFollowsThread /\ LedgerFollowsThread
  BY DEF Known, IInv, LedgerInv, TypeInv
<1>1. ~batch.cancel_requested
  BY <1>0, FlagStays
<1>2. ~mem_cancel /\ \A c \in Cancellers : ~HasStopped(c)
  BY <1>1 DEF FlagInv
<1>3. EndingIsExact
  BY <1>1 DEF UndisturbedInv
<1> USE DEF EndingIsExact, Ending, Goto
<1>4. CASE Check
  <2>1. Len(recipients) \in Nat /\ Len(job.rows) \in Nat
    BY <1>0, Types
  <2>2. RowsEnd => Len(recipients) = Len(job.rows)
    BY <1>0, <2>1 DEF LedgerFollowsThread, RowsEnd, NextRow
  <2> QED BY <1>1, <1>4, <2>2 DEF Check, row_vars
<1>5. CASE SavePath
  <2>1. batch'.report_path
    BY <1>0, <1>5 DEF SavePath, TypeOK
  <2>2. /\ pc = "save_path" /\ pc' = "write_report"
        /\ UNCHANGED <<job, recipients>>
    BY <1>5 DEF SavePath, row_vars
  <2> QED BY <1>3, <2>1, <2>2
<1>a. ~StopIsWriting
  BY <1>2 DEF StopIsWriting, HasStopped
<1>b. report \in Reports /\ recipients \in Seq(RowStatuses)
  BY <1>0 DEF TypeOK, Reports
<1>6. CASE WriteReport
  <2>1. ~report'.mixed
    BY <1>a, <1>b, <1>6 DEF WriteReport, Opened, Reports
  <2> QED BY <1>3, <1>6, <2>1 DEF WriteReport, row_vars
<1>c. CASE FillReport
  <2>1. report'.whole /\ report'.shows = recipients
    BY <1>3, <1>b, <1>c, FillAlone DEF FillReport
  <2>2. /\ pc = "fill_report" /\ pc' = "refresh_totals"
        /\ UNCHANGED <<job, batch, recipients>>
    BY <1>c DEF FillReport, row_vars
  <2> QED BY <1>3, <2>1, <2>2
<1>7. CASE RefreshTotals
  BY <1>3, <1>7 DEF RefreshTotals, row_vars, Tally
<1>8. CASE Finish
  <2>1. /\ batch'.status = (IF ~job.dry_run /\ SomeFailed THEN "failed" ELSE "finished")
        /\ batch'.report_path = batch.report_path
    BY <1>0, <1>2, <1>8 DEF Finish, FinalStatus, TypeOK
  <2>2. /\ pc = "finish" /\ pc' = "returned"
        /\ UNCHANGED <<job, recipients, report, totals>>
    BY <1>8 DEF Finish, row_vars
  <2>3. SomeFailed' = SomeFailed /\ Tally(recipients)' = Tally(recipients)
    BY <2>2 DEF SomeFailed, Tally
  <2> QED BY <1>3, <2>1, <2>2, <2>3
<1>9. CASE CloseCancelled
  BY <1>0, <1>1, <1>9 DEF CloseCancelled, StatusFollowsThread
<1>10. CASE pc' \notin Ending
  BY <1>10
<1>11. CASE UNCHANGED <<pc, job, recipients, report, totals, batch>>
  <2>1. SomeFailed' = SomeFailed /\ Tally(recipients)' = Tally(recipients)
    BY <1>11 DEF SomeFailed, Tally
  <2> QED BY <1>3, <1>11, <2>1
<1>12. CASE Pause
  BY <1>1, <1>12 DEF Pause
<1>13. ASSUME NEW c \in Cancellers, CancelSave(c) PROVE FALSE
  <2>1. batch'.cancel_requested
    BY <1>0, <1>13 DEF CancelSave, StoppedRow, TypeOK
  <2> QED BY <2>1
<1>14. ASSUME NEW c \in Cancellers,
              CancelTotals(c) \/ CancelSaveReport(c) \/ CancelFillReport(c)
       PROVE  FALSE
  BY <1>2, <1>14 DEF CancelTotals, CancelSaveReport, CancelFillReport, CancelGoto, HasStopped
<1>15. CASE \/ Load \/ Announce \/ Read \/ Upload \/ ReadOrUploadFails \/ Row \/ Send
            \/ RecordResult \/ FailTotals \/ FailSave \/ TryRaises \/ ThreadLost
  <2>1. pc' \notin Ending
    BY <1>15 DEF Load, Announce, Read, Upload, ReadOrUploadFails, Row, Send,
       RecordResult, FailTotals, FailSave, TryRaises, ThreadLost
  <2> QED BY <1>10, <2>1
<1>16. CASE Restart
  <2>1. pc' \notin Ending \/ UNCHANGED <<pc, job, recipients, report, totals, batch>>
    BY <1>16 DEF Restart
  <2> QED BY <1>10, <1>11, <2>1
<1>17. ASSUME NEW c \in Cancellers,
              CancelRead(c) \/ CancelCount(c) \/ CancelReadReport(c) \/ CancelRaises(c)
       PROVE  EndingIsExact'
  <2>1. UNCHANGED <<pc, job, recipients, report, totals, batch>>
    BY <1>17 DEF CancelRead, CancelCount, CancelReadReport, CancelRaises, row_vars
  <2> QED BY <1>11, <2>1
<1>18. CASE Quiet \/ UNCHANGED vars
  <2>1. UNCHANGED <<pc, job, recipients, report, totals, batch>>
    BY <1>18 DEF Quiet, vars, row_vars
  <2> QED BY <1>11, <2>1
<1> HIDE DEF EndingIsExact, Ending, Goto
<1> QED
  BY <1>4, <1>5, <1>6, <1>c, <1>7, <1>8, <1>9, <1>12, <1>13, <1>14, <1>15, <1>16, <1>17, <1>18
  DEF Next, Worker, CancelStep

\* core.py 1018-1043: a run that no stop disturbed records every row, and its
\* report, totals and status are of exactly those rows.
THEOREM UndisturbedEndIsExact == Spec => []UndisturbedRunIsExact
<1>1. Init => UndisturbedInv
  BY DEF Init, UndisturbedInv, EndingIsExact, Ending
<1>2. TypeOK /\ UndisturbedInv => UndisturbedRunIsExact
  <2> SUFFICES ASSUME TypeOK, UndisturbedInv, pc = "returned", ~batch.cancel_requested
               PROVE  UndisturbedRunIsExact
    BY DEF UndisturbedRunIsExact
  <2>1. EndingIsExact
    BY DEF UndisturbedInv
  <2>2. totals["total_failed"] + totals["total_config_error"] > 0 <=> SomeFailed
    BY <2>1, TallyShowsFailures DEF EndingIsExact, TypeOK
  <2> QED BY <2>1, <2>2 DEF EndingIsExact, Ending, UndisturbedRunIsExact
<1>3. Known => TypeOK BY KnownTypes
<1> QED BY <1>1, <1>2, <1>3, NextUndisturbed, FlagInvariance, PTL DEF Spec
-----------------------------------------------------------------------------
(* The report of a stop.                                                   *)

\* s was read after the stop: at most the row in hand has been recorded since,
\* and at most the last one has got a result.
Covers(s) ==
    /\ batch.cancel_requested
    /\ s \in Seq(RowStatuses)
    /\ Len(s) + 1 >= Len(recipients) + (IF pc = "row" THEN 1 ELSE 0)
    /\ Len(s) <= Len(recipients)
    /\ \A k \in DOMAIN s : s[k] \in {recipients[k], "pending"}

ReportInv ==
    /\ \A c \in Cancellers :
          cancel_pc[c] \in {"save_report", "fill_report"} => Covers(cancel_view[c])
    /\ (\E c \in Cancellers : cancel_pc[c] = "stopped") => Covers(report.shows)

\* An unreadable report has a reason.
Excused == pc = "fill_report" \/ StopIsWriting \/ report.mixed \/ faults > 0

FileInv ==
    (\E c \in Cancellers : cancel_pc[c] = "stopped") => report.whole \/ Excused

\* Before the stop the thread may take up a row, after it only end.
LEMMA RecordingSteps ==
    ASSUME Known, [Next]_vars
    PROVE  \/ recipients' = recipients /\ (pc' = "row" => pc = "row" \/ ~batch.cancel_requested)
           \/ Row \/ RecordResult
<1>1. CASE Check
  BY <1>1 DEF Check, row_vars
<1>2. CASE ~Check
  BY <1>2 DEF Next, Worker, CancelStep, Load, CloseCancelled, Announce, Read, Upload,
     ReadOrUploadFails, Send, Pause, SavePath, WriteReport, FillReport, RefreshTotals, Finish,
     FailTotals, FailSave, TryRaises, ThreadLost, Restart, CancelRead, CancelSave,
     CancelCount, CancelTotals, CancelReadReport, CancelSaveReport, CancelFillReport, CancelRaises, Quiet,
     vars, row_vars, Goto
<1> QED BY <1>1, <1>2

LEMMA CoversStays ==
    ASSUME Known, [Next]_vars, NEW s, Covers(s)
    PROVE  Covers(s)'
<1>0. TypeOK /\ TypeInv /\ LedgerFollowsThread
  BY DEF Known, IInv, LedgerInv, TypeInv
<1>1. batch'.cancel_requested
  BY <1>0, FlagStays DEF Covers
<1>2. Len(recipients) \in Nat /\ DOMAIN recipients = 1..Len(recipients)
  BY <1>0, Types
<1>3. CASE recipients' = recipients /\ (pc' = "row" => pc = "row" \/ ~batch.cancel_requested)
  BY <1>1, <1>2, <1>3 DEF Covers
<1>4. CASE Row
  <2>1. /\ pc = "row" /\ pc' # "row"
        /\ recipients' = Append(recipients, RowStatus(job.rows[NextRow]))
    BY <1>4 DEF Row
  <2>2. recipients \in Seq(RowStatuses)
    BY <1>0 DEF TypeOK
  <2>3. /\ Len(recipients') = Len(recipients) + 1
        /\ \A k \in DOMAIN recipients : recipients'[k] = recipients[k]
    BY <2>1, <2>2
  <2>4. \A k \in DOMAIN s : k \in DOMAIN recipients
    BY <1>2 DEF Covers
  <2> QED BY <1>1, <1>2, <2>1, <2>3, <2>4 DEF Covers
<1>5. CASE RecordResult
  <2>1. /\ pc = "record" /\ pc' = "pause"
        /\ recipients' = [recipients EXCEPT ![LastRow] = result]
    BY <1>5 DEF RecordResult, WithResult, Goto
  <2>2. recipients[LastRow] = "pending"
    BY <1>0, <2>1 DEF LedgerFollowsThread
  <2>3. recipients \in Seq(RowStatuses) /\ result \in RowStatuses
    BY <1>0 DEF TypeOK
  <2>4. Len(recipients') = Len(recipients)
    BY <2>1, <2>3, ReplaceType
  <2>5. \A k \in DOMAIN recipients : k # LastRow => recipients'[k] = recipients[k]
    BY <2>1
  <2>6. \A k \in DOMAIN s : k \in DOMAIN recipients
    BY <1>2 DEF Covers
  <2> QED BY <1>1, <1>2, <2>1, <2>2, <2>4, <2>5, <2>6 DEF Covers
<1> QED BY <1>3, <1>4, <1>5, RecordingSteps

\* What a stop request, or the thread, reads after the stop.
LEMMA CoversRecipients ==
    ASSUME TypeInv, batch.cancel_requested PROVE Covers(recipients)
BY Types DEF Covers

LEMMA NextReport == Known /\ FlagInv /\ ReportInv /\ [Next]_vars => ReportInv'
<1> SUFFICES ASSUME Known, FlagInv, ReportInv, [Next]_vars PROVE ReportInv'
  OBVIOUS
<1>0. TypeOK /\ TypeInv
  BY KnownTypes
<1>1. \A s : Covers(s) => Covers(s)'
  BY CoversStays
<1>2. batch.cancel_requested => Covers(recipients)
  BY <1>0, CoversRecipients
<1>3. ASSUME NEW d \in Cancellers, cancel_pc'[d] \in {"save_report", "fill_report"}
      PROVE  Covers(cancel_view[d])'
  <2>1. \/ /\ cancel_pc[d] \in {"save_report", "fill_report"}
           /\ cancel_view'[d] = cancel_view[d]
        \/ CancelReadReport(d)
    BY <1>0, <1>3 DEF Next, Worker, CancelStep, Load, CloseCancelled, Announce, Read, Upload,
       ReadOrUploadFails, Check, Row, Send, RecordResult, Pause, SavePath, WriteReport,
       FillReport, RefreshTotals, Finish, FailTotals, FailSave, TryRaises, ThreadLost,
       Restart, CancelRead, CancelSave, CancelCount, CancelTotals, CancelReadReport,
       CancelSaveReport, CancelFillReport, CancelRaises, CancelGoto, Quiet, vars,
       cancel_vars, TypeOK
  <2>2. CASE /\ cancel_pc[d] \in {"save_report", "fill_report"}
             /\ cancel_view'[d] = cancel_view[d]
    <3>1. PICK s : s = cancel_view[d]
      OBVIOUS
    <3>2. Covers(s)
      BY <2>2, <3>1 DEF ReportInv
    <3>3. Covers(s)'
      BY <3>2, <1>1
    <3> QED BY <2>2, <3>1, <3>3 DEF Covers
  <2>3. CASE CancelReadReport(d)
    <3>1. cancel_view'[d] = recipients /\ HasStopped(d)
      BY <1>0, <2>3 DEF CancelReadReport, CancelGoto, HasStopped, TypeOK
    <3>2. PICK s : s = recipients
      OBVIOUS
    <3>3. Covers(s)'
      BY <1>1, <1>2, <3>1, <3>2 DEF FlagInv
    <3> QED BY <3>1, <3>2, <3>3 DEF Covers
  <2> QED BY <2>1, <2>2, <2>3
<1>4. ASSUME NEW d \in Cancellers, cancel_pc'[d] = "stopped" PROVE Covers(report.shows)'
  <2>1. CASE FillReport
    <3>1. report'.shows = recipients /\ cancel_pc' = cancel_pc
      BY <1>0, <2>1, FillAlone DEF FillReport, cancel_vars, TypeOK, Reports
    <3>2. PICK s : s = recipients
      OBVIOUS
    <3>3. Covers(s)'
      BY <1>1, <1>2, <1>4, <3>1, <3>2 DEF FlagInv, HasStopped
    <3> QED BY <3>1, <3>2, <3>3 DEF Covers
  <2>2. ASSUME NEW c \in Cancellers, CancelFillReport(c) PROVE Covers(report.shows)'
    <3>1. report'.shows = cancel_view[c] /\ cancel_pc[c] = "fill_report"
      BY <1>0, <2>2, FillAlone DEF CancelFillReport, CancelGoto, TypeOK, Reports
    <3>2. PICK s : s = cancel_view[c]
      OBVIOUS
    <3>3. Covers(s)'
      BY <1>1, <3>1, <3>2 DEF ReportInv
    <3> QED BY <3>1, <3>2, <3>3 DEF Covers
  <2>3. CASE report'.shows = report.shows /\ \A c \in Cancellers : ~CancelFillReport(c)
    <3>1. cancel_pc[d] = "stopped"
      BY <1>0, <1>4, <2>3 DEF Next, Worker, CancelStep, Load, CloseCancelled, Announce,
         Read, Upload, ReadOrUploadFails, Check, Row, Send, RecordResult, Pause, SavePath,
         WriteReport, FillReport, RefreshTotals, Finish, FailTotals, FailSave, TryRaises,
         ThreadLost, Restart, CancelRead, CancelSave, CancelCount, CancelTotals,
         CancelReadReport, CancelSaveReport, CancelRaises, CancelGoto, Quiet, vars,
         cancel_vars, TypeOK
    <3>2. PICK s : s = report.shows
      OBVIOUS
    <3>3. Covers(s)'
      BY <1>1, <3>1, <3>2 DEF ReportInv
    <3> QED BY <2>3, <3>2, <3>3 DEF Covers
  <2>4. \/ FillReport \/ \E c \in Cancellers : CancelFillReport(c)
        \/ report'.shows = report.shows
    <3>1. CASE WriteReport \/ \E c \in Cancellers : CancelSaveReport(c)
      BY <1>0, <3>1 DEF WriteReport, CancelSaveReport, Opened, TypeOK
    <3>2. CASE report' = report
      BY <3>2
    <3> QED
      BY <3>1, <3>2 DEF Next, Worker, CancelStep, Load, CloseCancelled, Announce, Read,
         Upload, ReadOrUploadFails, Check, Row, Send, RecordResult, Pause, SavePath,
         RefreshTotals, Finish, FailTotals, FailSave, TryRaises, ThreadLost, Restart,
         CancelRead, CancelSave, CancelCount, CancelTotals, CancelReadReport,
         CancelRaises, Quiet, vars
  <2> QED BY <2>1, <2>2, <2>3, <2>4
<1> QED BY <1>3, <1>4 DEF ReportInv

\* A save that finishes leaves the file readable unless saves overlapped; one
\* that does not finish is still under way, or a failure.
LEMMA NextFile == TypeOK /\ FileInv /\ [Next]_vars => FileInv'
<1> SUFFICES ASSUME TypeOK, FileInv, [Next]_vars PROVE FileInv'
  OBVIOUS
<1> USE DEF FileInv, Excused, StopIsWriting
<1>0. report \in Reports /\ recipients \in Seq(RowStatuses) /\ faults \in Nat
  BY MaxFaultsAssumption DEF TypeOK, Reports
<1>1. CASE TryRaises \/ ThreadLost \/ Restart \/ \E c \in Cancellers : CancelRaises(c)
  BY <1>0, <1>1 DEF TryRaises, ThreadLost, Restart, CancelRaises, Fault
<1>2. CASE WriteReport
  BY <1>2 DEF WriteReport, Goto
<1>3. ASSUME NEW c \in Cancellers, CancelSaveReport(c) PROVE FileInv'
  BY <1>3 DEF CancelSaveReport, CancelGoto, TypeOK
<1>4. CASE FillReport \/ \E c \in Cancellers : CancelFillReport(c)
  <2>1. report'.whole \/ report'.mixed
    <3>1. CASE FillReport
      BY <1>0, <3>1, FillAlone DEF FillReport, Reports
    <3>2. ASSUME NEW c \in Cancellers, CancelFillReport(c)
          PROVE  report'.whole \/ report'.mixed
      BY <1>0, <3>2, FillAlone DEF CancelFillReport, TypeOK, Reports
    <3> QED BY <1>4, <3>1, <3>2
  <2> QED BY <2>1
<1>5. CASE /\ report' = report /\ faults' = faults
           /\ pc = "fill_report" => pc' = "fill_report"
           /\ \A d \in Cancellers :
                 /\ cancel_pc[d] = "fill_report" => cancel_pc'[d] = "fill_report"
                 /\ cancel_pc'[d] = "stopped" => cancel_pc[d] = "stopped"
  BY <1>5
<1>6. CASE \/ Load \/ CloseCancelled \/ Announce \/ Read \/ Upload \/ ReadOrUploadFails
           \/ Check \/ Row \/ Send \/ RecordResult \/ Pause \/ SavePath \/ RefreshTotals
           \/ Finish \/ FailTotals \/ FailSave \/ Quiet \/ UNCHANGED vars
  <2>1. report' = report /\ faults' = faults /\ cancel_pc' = cancel_pc
        /\ (pc = "fill_report" => pc' = "fill_report")
    BY <1>6 DEF Load, CloseCancelled, Announce, Read, Upload, ReadOrUploadFails, Check, Row,
       Send, RecordResult, Pause, SavePath, RefreshTotals, Finish, FailTotals, FailSave,
       Quiet, vars, cancel_vars, Goto
  <2> QED BY <2>1, <1>5
<1>7. ASSUME NEW c \in Cancellers,
             \/ CancelRead(c) \/ CancelSave(c) \/ CancelCount(c) \/ CancelTotals(c)
             \/ CancelReadReport(c)
      PROVE  FileInv'
  <2>1. /\ report' = report /\ faults' = faults /\ pc' = pc
        /\ cancel_pc[c] # "fill_report" /\ cancel_pc'[c] # "stopped"
        /\ \A d \in Cancellers \ {c} : cancel_pc'[d] = cancel_pc[d]
    BY <1>7 DEF CancelRead, CancelSave, CancelCount, CancelTotals, CancelReadReport,
       CancelGoto, TypeOK
  <2> QED BY <2>1, <1>5
<1> QED BY <1>1, <1>2, <1>3, <1>4, <1>6, <1>7 DEF Next, Worker, CancelStep

\* core.py 838-861 and 1018-1026: once a stop was answered, a report that can be
\* read misses at most one row and shows at most one without its result,
\* whoever wrote it last; one that cannot be read is being written, was mixed by
\* saves that overlapped, or given up.
THEOREM StopReportNearlyComplete == Spec => []StopReportIsNearlyComplete
<1>1. Init => ReportInv /\ FileInv
  BY DEF Init, ReportInv, FileInv
<1>2. TypeOK /\ ReportInv /\ FileInv => StopReportIsNearlyComplete
  <2>1. ASSUME TypeOK, Covers(report.shows)
        PROVE  /\ Len(report.shows) >= Len(recipients) - 1
               /\ \A k \in DOMAIN report.shows : report.shows[k] \in {recipients[k], "pending"}
    <3>1. Len(report.shows) \in Nat /\ Len(recipients) \in Nat
      BY <2>1 DEF TypeOK
    <3> QED BY <2>1, <3>1 DEF Covers
  <2> QED BY <2>1 DEF ReportInv, FileInv, Excused, StopReportIsNearlyComplete
<1>3. Known => TypeOK BY KnownTypes
<1> QED BY <1>1, <1>2, <1>3, NextReport, NextFile, FlagInvariance, PTL DEF Spec

-----------------------------------------------------------------------------
(* The life of a batch with one stop request s, as BatchLife tells it.     *)

\* The stop request alone has written the flag; a thread that has returned or
\* raised has left a final status; rows come after the start.
LifeKnown(s) ==
    /\ cancel_pc[s] \in {"idle", "save", "not_running"} => ~batch.cancel_requested
    /\ HasStopped(s) => batch.cancel_requested
    /\ pc \in {"returned", "raised"} => batch.status \notin BatchActive
    /\ pc \in Prologue => recipients = <<>>

LEMMA InitLifeKnown ==
    ASSUME NEW s, Cancellers = {s}
    PROVE  Init => LifeKnown(s)
<1>1. s \in Cancellers
  OBVIOUS
<1>2. Init => cancel_pc[s] = "idle"
  BY <1>1 DEF Init
<1>3. ASSUME Init PROVE ~batch.cancel_requested
  <2>1. batch.cancel_requested = FALSE
    BY <1>3 DEF Init
  <2> QED BY <2>1
<1> QED BY <1>2, <1>3 DEF Init, LifeKnown, HasStopped

LEMMA NextLifeKnown ==
    ASSUME NEW s, Cancellers = {s}, Known, LifeKnown(s), [Next]_vars
    PROVE  LifeKnown(s)'
<1>1. /\ TypeOK /\ s \in Cancellers
      /\ cancel_pc \in [Cancellers -> {"idle"} \cup InFlight \cup Answered]
  BY KnownTypes DEF TypeOK
<1> USE DEF LifeKnown, HasStopped, Goto
<1>2. CASE Load
  BY <1>1, <1>2 DEF Load, TypeOK, BatchActive, Prologue, TryBody, Handler, Ended, InFlight, row_vars, cancel_vars
<1>3. CASE CloseCancelled
  BY <1>1, <1>3 DEF CloseCancelled, TypeOK, BatchActive, Prologue, TryBody, Handler, Ended, InFlight, row_vars, cancel_vars
<1>4. CASE Announce
  BY <1>1, <1>4 DEF Announce, AnnouncedRow, TypeOK, BatchActive, Prologue, TryBody, Handler, Ended, InFlight, row_vars, cancel_vars
<1>5. CASE Read
  BY <1>1, <1>5 DEF Read, TypeOK, BatchActive, Prologue, TryBody, Handler, Ended, InFlight, row_vars, cancel_vars
<1>6. CASE Upload
  BY <1>1, <1>6 DEF Upload, TypeOK, BatchActive, Prologue, TryBody, Handler, Ended, InFlight, row_vars, cancel_vars
<1>7. CASE ReadOrUploadFails
  BY <1>1, <1>7 DEF ReadOrUploadFails, TypeOK, BatchActive, Prologue, TryBody, Handler, Ended, InFlight, row_vars, cancel_vars
<1>8. CASE Check
  BY <1>1, <1>8 DEF Check, TypeOK, BatchActive, Prologue, TryBody, Handler, Ended, InFlight, row_vars, cancel_vars
<1>9. CASE Row
  BY <1>1, <1>9 DEF Row, TypeOK, BatchActive, Prologue, TryBody, Handler, Ended, InFlight, row_vars, cancel_vars
<1>10. CASE Send
  BY <1>1, <1>10 DEF Send, TypeOK, BatchActive, Prologue, TryBody, Handler, Ended, InFlight, row_vars, cancel_vars
<1>11. CASE RecordResult
  BY <1>1, <1>11 DEF RecordResult, TypeOK, BatchActive, Prologue, TryBody, Handler, Ended, InFlight, row_vars, cancel_vars
<1>12. CASE Pause
  BY <1>1, <1>12 DEF Pause, TypeOK, BatchActive, Prologue, TryBody, Handler, Ended, InFlight, row_vars, cancel_vars
<1>13. CASE SavePath
  BY <1>1, <1>13 DEF SavePath, TypeOK, BatchActive, Prologue, TryBody, Handler, Ended, InFlight, row_vars, cancel_vars
<1>14. CASE WriteReport \/ FillReport
  BY <1>1, <1>14 DEF WriteReport, FillReport, TypeOK, BatchActive, Prologue, TryBody, Handler, Ended, InFlight, row_vars, cancel_vars
<1>15. CASE RefreshTotals
  BY <1>1, <1>15 DEF RefreshTotals, TypeOK, BatchActive, Prologue, TryBody, Handler, Ended, InFlight, row_vars, cancel_vars
<1>16. CASE Finish
  BY <1>1, <1>16 DEF Finish, FinalStatus, TypeOK, BatchActive, Prologue, TryBody, Handler, Ended, InFlight, row_vars, cancel_vars
<1>17. CASE FailTotals
  BY <1>1, <1>17 DEF FailTotals, TypeOK, BatchActive, Prologue, TryBody, Handler, Ended, InFlight, row_vars, cancel_vars
<1>18. CASE FailSave
  BY <1>1, <1>18 DEF FailSave, FailedRow, TypeOK, BatchActive, Prologue, TryBody, Handler, Ended, InFlight, row_vars, cancel_vars
<1>19. CASE TryRaises
  BY <1>1, <1>19 DEF TryRaises, TypeOK, BatchActive, Prologue, TryBody, Handler, Ended, InFlight, row_vars, cancel_vars
<1>20. CASE ThreadLost
  BY <1>1, <1>20 DEF ThreadLost, TypeOK, BatchActive, Prologue, TryBody, Handler, Ended, InFlight, row_vars, cancel_vars
<1>21. CASE Restart
  BY <1>1, <1>21 DEF Restart, TypeOK, BatchActive, Prologue, TryBody, Handler, Ended, InFlight, row_vars, cancel_vars
<1>22. CASE CancelRead(s)
  BY <1>1, <1>22 DEF CancelRead, CancelGoto, TypeOK, BatchActive, Prologue, InFlight, row_vars, cancel_vars
<1>23. CASE CancelSave(s)
  BY <1>1, <1>23 DEF CancelSave, CancelGoto, StoppedRow, TypeOK, BatchActive, Prologue, InFlight, row_vars, cancel_vars
<1>24. CASE CancelCount(s)
  BY <1>1, <1>24 DEF CancelCount, CancelGoto, TypeOK, BatchActive, Prologue, InFlight, row_vars, cancel_vars
<1>25. CASE CancelTotals(s)
  BY <1>1, <1>25 DEF CancelTotals, CancelGoto, TypeOK, BatchActive, Prologue, InFlight, row_vars, cancel_vars
<1>26. CASE CancelReadReport(s)
  BY <1>1, <1>26 DEF CancelReadReport, CancelGoto, TypeOK, BatchActive, Prologue, InFlight, row_vars, cancel_vars
<1>27. CASE CancelSaveReport(s) \/ CancelFillReport(s)
  BY <1>1, <1>27 DEF CancelSaveReport, CancelFillReport, CancelGoto, TypeOK, BatchActive, Prologue, InFlight, row_vars, cancel_vars
<1>28. CASE CancelRaises(s)
  BY <1>1, <1>28 DEF CancelRaises, CancelGoto, TypeOK, BatchActive, Prologue, InFlight, row_vars, cancel_vars
<1>29. CASE Quiet \/ UNCHANGED vars
  BY <1>29 DEF Quiet, vars, row_vars, cancel_vars
<1> QED
  BY <1>2, <1>3, <1>4, <1>5, <1>6, <1>7, <1>8, <1>9, <1>10, <1>11, <1>12, <1>13, <1>14, <1>15, <1>16, <1>17, <1>18, <1>19, <1>20, <1>21, <1>22, <1>23, <1>24, <1>25, <1>26, <1>27, <1>28, <1>29
  DEF Next, Worker, CancelStep

\* total_rows counts the rows.
LEMMA TallyCountsRows ==
    ASSUME NEW q \in Seq(RowStatuses)
    PROVE  Tally(q)["total_rows"] = Len(q)
<1>1. {k \in DOMAIN q : q[k] \in RowStatuses} = 1..Len(q)
  OBVIOUS
<1>2. Tally(q)["total_rows"] = Cardinality({k \in DOMAIN q : q[k] \in RowStatuses})
  BY DEF Tally, TotalFields, Counted
<1>3. Len(q) \in Nat
  OBVIOUS
<1>4. Cardinality(1..Len(q)) = Len(q)
  BY <1>3, FS_Interval
<1> QED BY <1>1, <1>2, <1>4

\* The life of these parts, and the changes of two or three of them at once.
ALife(p, r, h, t, c, w) ==
    [phase |-> p, recorded |-> r, in_hand |-> h, stop |-> t, counted |-> c, total_rows |-> w]
WithPhaseAndHand(m, x, y)  == [m EXCEPT !.phase = x, !.in_hand = y]
WithPhaseAndTotal(m, x, y) == [m EXCEPT !.phase = x, !.total_rows = y]
WithHandAndRows(m, x, y)   == [m EXCEPT !.in_hand = x, !.recorded = y]
WithStopAndCount(m, x, y)  == [m EXCEPT !.stop = x, !.counted = y]
WithStopAndTotal(m, x, y)  == [m EXCEPT !.stop = x, !.total_rows = y, !.counted = 0]

LEMMA Changes ==
    ASSUME NEW p, NEW r, NEW h, NEW t, NEW c, NEW w, NEW x, NEW y
    PROVE  /\ WithPhaseAndHand(ALife(p, r, h, t, c, w), x, y) = ALife(x, r, y, t, c, w)
           /\ WithPhaseAndTotal(ALife(p, r, h, t, c, w), x, y) = ALife(x, r, h, t, c, y)
           /\ WithHandAndRows(ALife(p, r, h, t, c, w), x, y) = ALife(p, y, x, t, c, w)
           /\ WithStopAndCount(ALife(p, r, h, t, c, w), x, y) = ALife(p, r, h, x, y, w)
           /\ WithStopAndTotal(ALife(p, r, h, t, c, w), x, y) = ALife(p, r, h, x, 0, y)
<1>1. PICK m : m = ALife(p, r, h, t, c, w)
  OBVIOUS
<1>2. PICK i : i = [m EXCEPT !.phase = x]
  OBVIOUS
<1>3. PICK j : j = [m EXCEPT !.stop = x]
  OBVIOUS
<1>4. PICK k : k = [m EXCEPT !.in_hand = x]
  OBVIOUS
<1>5. /\ i = ALife(x, r, h, t, c, w)
      /\ j = ALife(p, r, h, x, c, w)
      /\ k = ALife(p, r, x, t, c, w)
  BY <1>1, <1>2, <1>3, <1>4 DEF ALife
<1>6. PICK q : q = [j EXCEPT !.total_rows = y]
  OBVIOUS
<1>7. /\ [i EXCEPT !.in_hand = y] = ALife(x, r, y, t, c, w)
      /\ [i EXCEPT !.total_rows = y] = ALife(x, r, h, t, c, y)
      /\ [k EXCEPT !.recorded = y] = ALife(p, y, x, t, c, w)
      /\ [j EXCEPT !.counted = y] = ALife(p, r, h, x, y, w)
      /\ q = ALife(p, r, h, x, c, y)
  BY <1>5, <1>6 DEF ALife
<1>8. [q EXCEPT !.counted = 0] = ALife(p, r, h, x, 0, y)
  BY <1>7 DEF ALife
<1> QED
  BY <1>1, <1>2, <1>3, <1>4, <1>6, <1>7, <1>8
  DEF WithPhaseAndHand, WithPhaseAndTotal, WithHandAndRows, WithStopAndCount, WithStopAndTotal

\* Every step is one of the batch's life or leaves it alone.
LEMMA NextLife ==
    ASSUME NEW s, Cancellers = {s}, Known, LifeKnown(s), [Next]_vars
    PROVE  LifeOf(s)' \in {LifeOf(s)} \cup Life!LifeSteps(LifeOf(s), Len(job.rows))
<1> DEFINE l == LifeOf(s)
           n == Len(job.rows)
<1>1. /\ s \in Cancellers /\ recipients \in Seq(RowStatuses) /\ job \in Job
      /\ cancel_pc \in [Cancellers -> {"idle"} \cup InFlight \cup Answered]
      /\ cancel_view \in [Cancellers -> Seq(RowStatuses)]
      /\ batch.cancel_requested \in BOOLEAN
      /\ pc \in Prologue \cup TryBody \cup Handler \cup Ended
  BY KnownTypes, Types DEF TypeOK
<1>2. /\ l.phase = PhaseAt /\ l.recorded = LastRow /\ l.in_hand = (IF pc = "row" THEN 1 ELSE 0)
      /\ l.stop = StopAt(s) /\ l.total_rows = totals["total_rows"]
      /\ l.counted = IF cancel_pc[s] = "totals" THEN Len(cancel_view[s]) ELSE 0
  BY DEF LifeOf
<1>0. l = ALife(PhaseAt, LastRow, IF pc = "row" THEN 1 ELSE 0, StopAt(s),
                IF cancel_pc[s] = "totals" THEN Len(cancel_view[s]) ELSE 0,
                totals["total_rows"])
  BY DEF LifeOf, ALife
<1>a. LifeOf(s)' = ALife(PhaseAt', LastRow', IF pc' = "row" THEN 1 ELSE 0, StopAt(s)',
                IF cancel_pc'[s] = "totals" THEN Len(cancel_view'[s]) ELSE 0,
                totals'["total_rows"])
  BY DEF LifeOf, ALife
<1>3. LastRow \in Nat /\ LastRow <= n /\ n \in Nat
  BY KnownTypes, Types DEF Known, LedgerInv, LedgerFollowsThread, LastRow
<1>4. Life!Stopped(l) <=> (batch.cancel_requested /\ cancel_pc[s] # "save")
  BY <1>1, <1>2 DEF Life!Stopped, StopAt, LifeKnown, HasStopped
<1>5. cancel_pc[s] = "save" => ~batch.cancel_requested
  BY DEF LifeKnown
<1> HIDE DEF l, n
<1>6. CASE Load
  <2>1. LifeOf(s)' = LifeOf(s)
    BY <1>1, <1>6 DEF Load, LifeOf, PhaseAt, StopAt, LastRow, Goto, row_vars, cancel_vars
  <2> QED BY <2>1
<1>7. CASE Announce
  <2>1. LifeOf(s)' = LifeOf(s)
    BY <1>1, <1>7 DEF Announce, AnnouncedRow, LifeOf, PhaseAt, StopAt, LastRow, Goto, row_vars, cancel_vars
  <2> QED BY <2>1
<1>8. CASE Read
  <2>1. LifeOf(s)' = LifeOf(s)
    BY <1>1, <1>8 DEF Read, LifeOf, PhaseAt, StopAt, LastRow, Goto, row_vars, cancel_vars
  <2> QED BY <2>1
<1>9. CASE Upload
  <2>1. LifeOf(s)' = LifeOf(s)
    BY <1>1, <1>9 DEF Upload, LifeOf, PhaseAt, StopAt, LastRow, Goto, row_vars, cancel_vars
  <2> QED BY <2>1
<1>10. CASE Send
  <2>1. LifeOf(s)' = LifeOf(s)
    BY <1>1, <1>10 DEF Send, LifeOf, PhaseAt, StopAt, LastRow, Goto, row_vars, cancel_vars
  <2> QED BY <2>1
<1>11. CASE RecordResult
  <2>1. LifeOf(s)' = LifeOf(s)
    BY <1>1, <1>11 DEF RecordResult, WithResult, LifeOf, PhaseAt, StopAt, LastRow, Goto, row_vars, cancel_vars
  <2> QED BY <2>1
<1>12. CASE SavePath
  <2>1. LifeOf(s)' = LifeOf(s)
    BY <1>1, <1>12 DEF SavePath, LifeOf, PhaseAt, StopAt, LastRow, Goto, row_vars, cancel_vars
  <2> QED BY <2>1
<1>13. CASE WriteReport \/ FillReport
  <2>1. LifeOf(s)' = LifeOf(s)
    BY <1>1, <1>13 DEF WriteReport, FillReport, LifeOf, PhaseAt, StopAt, LastRow, Goto, row_vars, cancel_vars
  <2> QED BY <2>1
<1>14. CASE CloseCancelled
  <2>1. LifeOf(s)' = [l EXCEPT !.phase = "finished"]
    BY <1>1, <1>2, <1>14 DEF CloseCancelled, Known, IInv, StatusFollowsThread, LifeKnown, Prologue, LastRow, l, LifeOf, PhaseAt, StopAt, LastRow, Goto, row_vars, cancel_vars
  <2>2. l.phase = "active" /\ l.in_hand = 0 /\ Life!Stopped(l) /\ l.recorded = 0
    BY <1>1, <1>2, <1>3, <1>4, <1>5, <1>14 DEF CloseCancelled, Known, IInv, StatusFollowsThread, LifeKnown, Prologue, LastRow, PhaseAt, StopAt, Goto
  <2> QED BY <2>1, <2>2 DEF l, n, Life!Close, Life!When, Life!LifeSteps
<1>15. CASE ReadOrUploadFails
  <2>1. LifeOf(s)' = [l EXCEPT !.phase = "failing", !.in_hand = 0]
    <3>1. /\ PhaseAt' = "failing"
          /\ LastRow' = LastRow
          /\ pc' # "row"
          /\ StopAt(s)' = StopAt(s)
          /\ cancel_pc' = cancel_pc /\ cancel_view' = cancel_view
          /\ totals' = totals
      BY <1>1, <1>15 DEF ReadOrUploadFails, PhaseAt, StopAt, LastRow, row_vars, cancel_vars
    <3>2. LifeOf(s)' = WithPhaseAndHand(l, "failing", 0)
      BY <1>0, <1>a, <3>1, Changes
    <3> QED BY <3>2 DEF WithPhaseAndHand
  <2>2. l.phase \in {"active", "ending", "counted"}
    BY <1>1, <1>2, <1>3, <1>4, <1>5, <1>15 DEF ReadOrUploadFails, PhaseAt, StopAt, Goto
  <2> QED BY <2>1, <2>2 DEF l, n, Life!Raise, Life!When, Life!LifeSteps
<1>16. CASE Check /\ pc' = "row"
  <2>1. LifeOf(s)' = [l EXCEPT !.in_hand = 1]
    BY <1>1, <1>2, <1>16 DEF Check, RowsEnd, NextRow, LastRow, n, l, LifeOf, PhaseAt, StopAt, LastRow, Goto, row_vars, cancel_vars
  <2>2. l.phase = "active" /\ l.in_hand = 0 /\ ~Life!Stopped(l) /\ l.recorded < n
    BY <1>1, <1>2, <1>3, <1>4, <1>5, <1>16 DEF Check, RowsEnd, NextRow, LastRow, n, PhaseAt, StopAt, Goto
  <2> QED BY <2>1, <2>2 DEF l, n, Life!TakeUp, Life!When, Life!LifeSteps
<1>17. CASE (Check \/ Pause) /\ pc' = "save_path"
  <2>1. LifeOf(s)' = [l EXCEPT !.phase = "ending"]
    BY <1>1, <1>2, <1>17 DEF Check, Pause, RowsEnd, NextRow, LastRow, n, l, LifeOf, PhaseAt, StopAt, LastRow, Goto, row_vars, cancel_vars
  <2>2. l.phase = "active" /\ l.in_hand = 0 /\ (Life!Stopped(l) \/ l.recorded = n)
    BY <1>1, <1>2, <1>3, <1>4, <1>5, <1>17 DEF Check, Pause, RowsEnd, NextRow, LastRow, n, PhaseAt, StopAt, Goto
  <2> QED BY <2>1, <2>2 DEF l, n, Life!Leave, Life!When, Life!LifeSteps
<1>18. CASE Pause /\ pc' = "check"
  <2>1. LifeOf(s)' = LifeOf(s)
    BY <1>1, <1>18 DEF Pause, LifeOf, PhaseAt, StopAt, LastRow, row_vars, cancel_vars
  <2> QED BY <2>1
<1>19. CASE Row
  <2>1. LifeOf(s)' = [l EXCEPT !.in_hand = 0, !.recorded = l.recorded + 1]
    <3>1. /\ PhaseAt' = PhaseAt
          /\ LastRow' = l.recorded + 1
          /\ pc' # "row"
          /\ StopAt(s)' = StopAt(s)
          /\ cancel_pc' = cancel_pc /\ cancel_view' = cancel_view
          /\ totals' = totals
      BY <1>1, <1>2, <1>19 DEF Row, PhaseAt, StopAt, LastRow, row_vars, cancel_vars
    <3>2. LifeOf(s)' = WithHandAndRows(l, 0, l.recorded + 1)
      BY <1>0, <1>a, <3>1, Changes
    <3> QED BY <3>2 DEF WithHandAndRows
  <2>2. l.phase = "active" /\ l.in_hand = 1
    BY <1>1, <1>2, <1>3, <1>4, <1>5, <1>19 DEF Row, PhaseAt, StopAt, Goto
  <2> QED BY <2>1, <2>2 DEF l, n, Life!Record, Life!When, Life!LifeSteps
<1>20. CASE RefreshTotals
  <2>1. LifeOf(s)' = [l EXCEPT !.phase = "counted", !.total_rows = l.recorded]
    <3>1. /\ PhaseAt' = "counted"
          /\ LastRow' = LastRow
          /\ pc' # "row" /\ pc # "row"
          /\ StopAt(s)' = StopAt(s)
          /\ cancel_pc' = cancel_pc /\ cancel_view' = cancel_view
          /\ totals'["total_rows"] = l.recorded
      BY <1>1, <1>2, <1>20, TallyCountsRows DEF RefreshTotals, Goto, PhaseAt, StopAt, LastRow, row_vars, cancel_vars
    <3>2. LifeOf(s)' = WithPhaseAndTotal(l, "counted", l.recorded)
      BY <1>0, <1>a, <3>1, Changes
    <3> QED BY <3>2 DEF WithPhaseAndTotal
  <2>2. l.phase = "ending"
    BY <1>1, <1>2, <1>3, <1>4, <1>5, <1>20 DEF RefreshTotals, PhaseAt, StopAt, Goto
  <2> QED BY <2>1, <2>2 DEF l, n, Life!SaveTotal, Life!When, Life!LifeSteps
<1>21. CASE Finish
  <2>1. LifeOf(s)' = [l EXCEPT !.phase = "finished"]
    BY <1>1, <1>2, <1>21 DEF Finish, l, LifeOf, PhaseAt, StopAt, LastRow, Goto, row_vars, cancel_vars
  <2>2. l.phase = "counted"
    BY <1>1, <1>2, <1>3, <1>4, <1>5, <1>21 DEF Finish, PhaseAt, StopAt, Goto
  <2> QED BY <2>1, <2>2 DEF l, n, Life!End, Life!When, Life!LifeSteps
<1>22. CASE FailTotals
  <2>1. LifeOf(s)' = [l EXCEPT !.phase = "noted", !.total_rows = l.recorded]
    <3>1. /\ PhaseAt' = "noted"
          /\ LastRow' = LastRow
          /\ pc' # "row" /\ pc # "row"
          /\ StopAt(s)' = StopAt(s)
          /\ cancel_pc' = cancel_pc /\ cancel_view' = cancel_view
          /\ totals'["total_rows"] = l.recorded
      BY <1>1, <1>2, <1>22, TallyCountsRows DEF FailTotals, Goto, PhaseAt, StopAt, LastRow, row_vars, cancel_vars
    <3>2. LifeOf(s)' = WithPhaseAndTotal(l, "noted", l.recorded)
      BY <1>0, <1>a, <3>1, Changes
    <3> QED BY <3>2 DEF WithPhaseAndTotal
  <2>2. l.phase = "failing"
    BY <1>1, <1>2, <1>3, <1>4, <1>5, <1>22 DEF FailTotals, PhaseAt, StopAt, Goto
  <2> QED BY <2>1, <2>2 DEF l, n, Life!SaveTotal, Life!When, Life!LifeSteps
<1>23. CASE FailSave
  <2>1. LifeOf(s)' = [l EXCEPT !.phase = "failed"]
    BY <1>1, <1>2, <1>23 DEF FailSave, FailedRow, l, LifeOf, PhaseAt, StopAt, LastRow, Goto, row_vars, cancel_vars
  <2>2. l.phase = "noted"
    BY <1>1, <1>2, <1>3, <1>4, <1>5, <1>23 DEF FailSave, FailedRow, PhaseAt, StopAt, Goto
  <2> QED BY <2>1, <2>2 DEF l, n, Life!End, Life!When, Life!LifeSteps
<1>24. CASE TryRaises
  <2>1. LifeOf(s)' = [l EXCEPT !.phase = "failing", !.in_hand = 0]
    <3>1. /\ PhaseAt' = "failing"
          /\ LastRow' = LastRow
          /\ pc' # "row"
          /\ StopAt(s)' = StopAt(s)
          /\ cancel_pc' = cancel_pc /\ cancel_view' = cancel_view
          /\ totals' = totals
      BY <1>1, <1>24 DEF TryRaises, PhaseAt, StopAt, LastRow, row_vars, cancel_vars
    <3>2. LifeOf(s)' = WithPhaseAndHand(l, "failing", 0)
      BY <1>0, <1>a, <3>1, Changes
    <3> QED BY <3>2 DEF WithPhaseAndHand
  <2>2. l.phase \in {"active", "ending", "counted"}
    BY <1>1, <1>2, <1>3, <1>4, <1>5, <1>24 DEF TryRaises, TryBody, PhaseAt, StopAt, Goto
  <2> QED BY <2>1, <2>2 DEF l, n, Life!Raise, Life!When, Life!LifeSteps
<1>25. CASE ThreadLost
  <2>1. LifeOf(s)' = [l EXCEPT !.phase = "lost", !.in_hand = 0]
    <3>1. /\ PhaseAt' = "lost"
          /\ LastRow' = LastRow
          /\ pc' # "row"
          /\ StopAt(s)' = StopAt(s)
          /\ cancel_pc' = cancel_pc /\ cancel_view' = cancel_view
          /\ totals' = totals
      BY <1>1, <1>25 DEF ThreadLost, PhaseAt, StopAt, LastRow, row_vars, cancel_vars
    <3>2. LifeOf(s)' = WithPhaseAndHand(l, "lost", 0)
      BY <1>0, <1>a, <3>1, Changes
    <3> QED BY <3>2 DEF WithPhaseAndHand
  <2>2. l.phase \notin Life!Over
    BY <1>1, <1>2, <1>3, <1>4, <1>5, <1>25 DEF ThreadLost, Prologue, Handler, Life!Over, PhaseAt, StopAt, Goto
  <2> QED BY <2>1, <2>2 DEF l, n, Life!Lose, Life!When, Life!LifeSteps, Life!WithoutThread
<1>26. CASE CancelRead(s)
  <2>1. CASE cancel_pc'[s] = "save"
    <3>1. LifeOf(s)' = [l EXCEPT !.stop = "accepted"]
      BY <1>1, <1>2, <1>26, <2>1 DEF CancelRead, CancelGoto, LifeKnown, HasStopped, l, LifeOf, PhaseAt, StopAt, LastRow, row_vars
    <3>2. batch.status \in BatchActive
      BY <1>1, <1>26, <2>1 DEF CancelRead, CancelGoto
    <3>3. l.phase \notin {"finished", "failed"} /\ l.stop = "none"
      BY <1>1, <1>2, <1>26, <3>2 DEF CancelRead, CancelGoto, LifeKnown, PhaseAt, StopAt
    <3> QED BY <3>1, <3>3 DEF l, n, Life!StopAccept, Life!When, Life!LifeSteps
  <2>2. CASE cancel_pc'[s] # "save"
    <3>1. LifeOf(s)' = LifeOf(s)
      BY <1>1, <1>26, <2>2 DEF CancelRead, CancelGoto, LifeOf, PhaseAt, StopAt, LastRow, row_vars
    <3> QED BY <3>1
  <2> QED BY <2>1, <2>2
<1>27. CASE CancelSave(s)
  <2>1. LifeOf(s)' = [l EXCEPT !.stop = "saved"]
    BY <1>1, <1>2, <1>27 DEF CancelSave, CancelGoto, StoppedRow, l, LifeOf, PhaseAt, StopAt, LastRow, Goto, row_vars, cancel_vars
  <2>2. l.stop = "accepted"
    BY <1>1, <1>2, <1>3, <1>4, <1>5, <1>27 DEF CancelSave, CancelGoto, StoppedRow, PhaseAt, StopAt, Goto
  <2> QED BY <2>1, <2>2 DEF l, n, Life!StopSave, Life!When, Life!LifeSteps
<1>28. CASE CancelCount(s)
  <2>1. LifeOf(s)' = [l EXCEPT !.stop = "counted", !.counted = l.recorded]
    <3>1. /\ PhaseAt' = PhaseAt /\ pc' = pc
          /\ LastRow' = LastRow
          /\ StopAt(s)' = "counted"
          /\ cancel_pc'[s] = "totals"
          /\ Len(cancel_view'[s]) = l.recorded
          /\ totals' = totals
      BY <1>1, <1>2, <1>28 DEF CancelCount, CancelGoto, PhaseAt, StopAt, LastRow, row_vars, cancel_vars
    <3>2. LifeOf(s)' = WithStopAndCount(l, "counted", l.recorded)
      BY <1>0, <1>a, <3>1, Changes
    <3> QED BY <3>2 DEF WithStopAndCount
  <2>2. l.stop = "saved"
    BY <1>1, <1>2, <1>3, <1>4, <1>5, <1>28 DEF CancelCount, CancelGoto, PhaseAt, StopAt, Goto
  <2> QED BY <2>1, <2>2 DEF l, n, Life!StopCount, Life!When, Life!LifeSteps
<1>29. CASE CancelTotals(s)
  <2>1. LifeOf(s)' = [l EXCEPT !.stop = "done", !.total_rows = l.counted, !.counted = 0]
    <3>1. /\ PhaseAt' = PhaseAt /\ pc' = pc
          /\ LastRow' = LastRow
          /\ StopAt(s)' = "done"
          /\ cancel_pc'[s] # "totals"
          /\ totals'["total_rows"] = l.counted
      BY <1>1, <1>2, <1>29, TallyCountsRows DEF CancelTotals, CancelGoto, LifeKnown, HasStopped, PhaseAt, StopAt, LastRow, row_vars, cancel_vars
    <3>2. LifeOf(s)' = WithStopAndTotal(l, "done", l.counted)
      BY <1>0, <1>a, <3>1, Changes
    <3> QED BY <3>2 DEF WithStopAndTotal
  <2>2. l.stop = "counted"
    BY <1>1, <1>2, <1>3, <1>4, <1>5, <1>29 DEF CancelTotals, CancelGoto, LifeKnown, HasStopped, PhaseAt, StopAt, Goto
  <2> QED BY <2>1, <2>2 DEF l, n, Life!StopTotal, Life!When, Life!LifeSteps
<1>30. CASE CancelReadReport(s)
  <2>1. LifeOf(s)' = LifeOf(s)
    BY <1>1, <1>30 DEF CancelReadReport, CancelGoto, LifeOf, PhaseAt, StopAt, LastRow, row_vars
  <2> QED BY <2>1
<1>31. CASE CancelSaveReport(s) \/ CancelFillReport(s)
  <2>1. LifeOf(s)' = LifeOf(s)
    BY <1>1, <1>31 DEF CancelSaveReport, CancelFillReport, CancelGoto, LifeOf, PhaseAt, StopAt, LastRow, row_vars
  <2> QED BY <2>1
<1>32. CASE CancelRaises(s)
  <2>1. LifeOf(s)' = Life!WithoutStop(l)
    <3>1. CASE cancel_pc[s] = "save"
      <4>1. l.stop = "accepted"
        BY <1>2, <3>1 DEF StopAt
      <4>2. LifeOf(s)' = [l EXCEPT !.stop = "none"]
        BY <1>1, <1>2, <1>5, <1>32, <3>1 DEF CancelRaises, l, LifeOf, PhaseAt, StopAt, LastRow, row_vars
      <4> QED BY <4>1, <4>2 DEF Life!WithoutStop
    <3>2. CASE cancel_pc[s] # "save"
      <4>1. cancel_pc[s] \in InFlight /\ batch.cancel_requested
        BY <1>32, <3>2 DEF CancelRaises, LifeKnown, HasStopped, InFlight
      <4>2. l.stop # "accepted" /\ Life!Stopped(l)
        BY <1>2, <1>4, <3>2, <4>1 DEF StopAt
      <4>3. LifeOf(s)' = [l EXCEPT !.stop = "done", !.counted = 0]
        <5>1. /\ PhaseAt' = PhaseAt /\ pc' = pc
              /\ LastRow' = LastRow
              /\ StopAt(s)' = "done"
              /\ cancel_pc'[s] # "totals"
              /\ totals' = totals
          BY <1>1, <1>2, <1>32, <4>1 DEF CancelRaises, PhaseAt, StopAt, LastRow, row_vars, cancel_vars
        <5>2. LifeOf(s)' = WithStopAndCount(l, "done", 0)
          BY <1>0, <1>a, <5>1, Changes
        <5> QED BY <5>2 DEF WithStopAndCount
      <4> QED BY <4>2, <4>3 DEF Life!WithoutStop
    <3> QED BY <3>1, <3>2
  <2> QED BY <2>1 DEF l, Life!StopFails, Life!LifeSteps
<1>33. CASE Restart
  <2> DEFINE k == Life!WithoutStop(l)
  <2>1. /\ k = [phase |-> PhaseAt, recorded |-> LastRow, in_hand |-> IF pc = "row" THEN 1 ELSE 0,
               stop |-> StopAt(s)', counted |-> 0, total_rows |-> totals["total_rows"]]
    <3>1. CASE cancel_pc[s] = "save"
      <4>1. l.stop = "accepted" /\ StopAt(s)' = "none"
        BY <1>1, <1>2, <1>5, <1>33, <3>1 DEF Restart, InFlight, StopAt
      <4> QED BY <1>2, <3>1, <4>1 DEF Life!WithoutStop, l, LifeOf
    <3>2. CASE cancel_pc[s] # "save" /\ batch.cancel_requested
      <4>1. l.stop # "accepted" /\ Life!Stopped(l) /\ StopAt(s)' = "done"
        BY <1>1, <1>2, <1>4, <1>33, <3>2 DEF Restart, InFlight, StopAt
      <4> QED BY <1>2, <3>2, <4>1 DEF Life!WithoutStop, l, LifeOf
    <3>3. CASE cancel_pc[s] # "save" /\ ~batch.cancel_requested
      <4>1. cancel_pc[s] \notin {"count", "totals"}
        BY <3>3 DEF LifeKnown, HasStopped
      <4>2. l.stop = "none" /\ ~Life!Stopped(l) /\ StopAt(s)' = "none"
        BY <1>1, <1>2, <1>4, <1>33, <3>3, <4>1 DEF Restart, InFlight, StopAt
      <4> QED BY <1>2, <3>3, <4>1, <4>2 DEF Life!WithoutStop, l, LifeOf
    <3> QED BY <3>1, <3>2, <3>3
  <2>2. LifeOf(s)' = [phase |-> PhaseAt', recorded |-> LastRow, in_hand |-> IF pc' = "row" THEN 1 ELSE 0,
               stop |-> StopAt(s)', counted |-> 0, total_rows |-> totals["total_rows"]]
    BY <1>1, <1>33 DEF Restart, InFlight, LifeOf, LastRow, row_vars
  <2> HIDE DEF k
  <2>3. CASE pc \in Ended
    <3>1. pc' = pc /\ PhaseAt' = PhaseAt /\ PhaseAt \in Life!Over
      BY <1>33, <2>3 DEF Restart, Ended, PhaseAt, Life!Over
    <3> QED BY <2>1, <2>2, <3>1 DEF k, l, Life!WithoutThread, Life!Restart, Life!LifeSteps
  <2>4. CASE pc \notin Ended
    <3>1. pc' = "killed" /\ PhaseAt' = "lost"
      BY <1>33, <2>4 DEF Restart, PhaseAt
    <3>2. k.phase \notin Life!Over
      BY <1>1, <2>1, <2>4 DEF Ended, PhaseAt, Life!Over, Prologue, TryBody, Handler
    <3>3. LifeOf(s)' = [k EXCEPT !.phase = "lost", !.in_hand = 0]
      <4>1. k = ALife(PhaseAt, LastRow, IF pc = "row" THEN 1 ELSE 0, StopAt(s)', 0,
                      totals["total_rows"])
        BY <2>1 DEF ALife
      <4>2. LifeOf(s)' = ALife("lost", LastRow, 0, StopAt(s)', 0, totals["total_rows"])
        BY <2>2, <3>1 DEF ALife
      <4>3. LifeOf(s)' = WithPhaseAndHand(k, "lost", 0)
        BY <4>1, <4>2, Changes
      <4> QED BY <4>3 DEF WithPhaseAndHand
    <3> QED BY <3>2, <3>3 DEF k, l, Life!WithoutThread, Life!Restart, Life!LifeSteps
  <2> QED BY <2>3, <2>4
<1>34. CASE Quiet \/ UNCHANGED vars
  <2>1. LifeOf(s)' = LifeOf(s)
    BY <1>34 DEF Quiet, vars, row_vars, cancel_vars, LifeOf, PhaseAt, StopAt, LastRow
  <2> QED BY <2>1
<1> QED
  BY <1>6, <1>7, <1>8, <1>9, <1>10, <1>11, <1>12, <1>13, <1>14, <1>15, <1>16, <1>17, <1>18, <1>19, <1>20, <1>21, <1>22, <1>23, <1>24, <1>25, <1>26, <1>27, <1>28, <1>29, <1>30, <1>31, <1>32, <1>33, <1>34
  DEF Next, Worker, CancelStep, Check, Pause

\* With one stop request the processing keeps to BatchLife, on which the next
\* ranges of the dashboard rest.
THEOREM KeepsItsLife ==
    ASSUME NEW CONSTANT s, Cancellers = {s}
    PROVE  Spec => LifeContract
<1>1. Init => \A c \in Cancellers : LifeOf(c) = Life!NewLife
  <2> SUFFICES ASSUME Init PROVE LifeOf(s) = Life!NewLife
    OBVIOUS
  <2>1. /\ PhaseAt = "active" /\ LastRow = 0 /\ pc # "row" /\ StopAt(s) = "none"
        /\ totals["total_rows"] = 0 /\ cancel_pc[s] # "totals"
    BY DEF Init, PhaseAt, LastRow, StopAt, TotalFields
  <2> QED BY <2>1 DEF LifeOf, Life!NewLife
<1>2. Init => LifeKnown(s)
  BY InitLifeKnown
<1>3. Known /\ LifeKnown(s) /\ [Next]_vars => LifeKnown(s)'
  BY NextLifeKnown
<1>4. Known /\ LifeKnown(s) /\ [Next]_vars =>
        [\A c \in Cancellers :
            LifeOf(c)' \in {LifeOf(c)} \cup Life!LifeSteps(LifeOf(c), Len(job.rows))]_vars
  BY NextLife
<1> QED BY <1>1, <1>2, <1>3, <1>4, KnownInvariance, PTL DEF Spec, LifeContract
=============================================================================
