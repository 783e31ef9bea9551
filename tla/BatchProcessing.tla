--------------------------- MODULE BatchProcessing ---------------------------
(***************************************************************************)
(* One MessageBatch: the background thread that processes it               *)
(* (core.py process_excel_batch, started by views.py                       *)
(* _run_batch_in_background) against the HTTP requests that stop it        *)
(* (views.py cancel_batch calling core.py cancel_batch_immediately).       *)
(*                                                                         *)
(* Both sides hold a MessageBatch object of their own and share only the   *)
(* database row, the recipient rows and the report file.  Every ORM call   *)
(* is one autocommitted SQL statement, so one action is one statement; the *)
(* columns it changes are the statement's update_fields.  A report is      *)
(* saved in two steps (see ReportFile).  Statements that only the thread   *)
(* can disturb are taken together with the next one: it alone writes       *)
(* recipient rows, so its SELECT of them commutes with every step of the   *)
(* requests.                                                               *)
(***************************************************************************)
EXTENDS Integers, Sequences, FiniteSets, ReportFile

CONSTANTS Phones,       \* normalised phone numbers
          NoPhone,      \* the cell holds no valid Iranian mobile number
          Jobs,         \* the uploaded sheets and options to consider
          Cancellers,   \* the stop requests that may be posted
          MaxFaults     \* how many unexpected failures may happen

Item == [phone : Phones \cup {NoPhone}, renders : BOOLEAN]

Job == [rows : Seq(Item),              \* after range and limit are applied
        dry_run : BOOLEAN,
        skip_duplicates : BOOLEAN,
        attachment : BOOLEAN]          \* attachment_path without a file id

ASSUME PhonesAssumption == NoPhone \notin Phones
ASSUME JobsAssumption == Jobs \subseteq Job
ASSUME MaxFaultsAssumption == MaxFaults \in Nat

-----------------------------------------------------------------------------
\* MessageBatch.Status and MessageRecipient.Status.
BatchActive == {"pending", "running"}
BatchTerminal == {"finished", "failed", "cancelled"}

\* What BaleSafirClient._status can make of an answer from Safir.
ApiResults == {"sent", "failed", "invalid_phone", "not_bale_user",
               "rate_limited", "payment_required"}
RowStatuses == ApiResults \cup {"pending", "dry_run", "duplicate", "config_error"}

\* error_message: empty, one of the two wordings of a stop, the summary of
\* failed rows, or the text of the exception.
Errors == {"", "stopped_by_request", "stopped", "some_failed", "exception"}

\* The thread's position: the label names the statement it will run next.
TryBody == {"read", "upload", "check", "row", "send", "record", "pause",
            "save_path", "write_report", "fill_report", "refresh_totals", "finish"}
Handler == {"fail_totals", "fail_save"}
Prologue == {"load", "close", "announce"}
Ended == {"returned", "raised", "lost", "killed"}
InFlight == {"save", "count", "totals", "read_report", "save_report", "fill_report"}
Answered == {"stopped", "unreported", "not_running", "dropped"}

VARIABLES
    job,            \* the sheet and options of this batch
    batch,          \* the MessageBatch row
    totals,         \* its total_* columns
    recipients,     \* statuses of the MessageRecipient rows, in row order
    report,         \* the report file
    pc,             \* the thread's position
    mem_cancel,     \* cancel_requested in the thread's own object
    seen,           \* phones already handled in this run
    configured,     \* the client found an API key and a bot id
    result,         \* the client's answer not yet stored
    cancel_pc,      \* position of each stop request
    cancel_view,    \* recipients as each stop request last read them
    posted,         \* history: rows whose message was handed to Safir
    late,           \* history: rows recorded or posted after a stop
    faults          \* unexpected failures so far

row_vars == <<recipients, seen, result, posted, late>>
cancel_vars == <<cancel_pc, cancel_view>>
vars == <<job, batch, totals, report, pc, mem_cancel, configured, faults,
          row_vars, cancel_vars>>

\* The columns written by _refresh_totals for the rows s it counted.
TotalFields == {"total_rows", "total_sent", "total_failed", "total_invalid",
                "total_duplicate", "total_not_bale_user", "total_rate_limited",
                "total_payment_required", "total_config_error"}

Counted(field) ==
    CASE field = "total_rows" -> RowStatuses
      [] field = "total_sent" -> {"sent"}
      [] field = "total_failed" -> {"failed"}
      [] field = "total_invalid" -> {"invalid_phone"}
      [] field = "total_duplicate" -> {"duplicate"}
      [] field = "total_not_bale_user" -> {"not_bale_user"}
      [] field = "total_rate_limited" -> {"rate_limited"}
      [] field = "total_payment_required" -> {"payment_required"}
      [] field = "total_config_error" -> {"config_error"}

Tally(s) == [field \in TotalFields |->
                Cardinality({k \in DOMAIN s : s[k] \in Counted(field)})]

\* batch_live_status: what the batch page is told.
IsActive == batch.status \in BatchActive /\ ~batch.cancel_requested

-----------------------------------------------------------------------------
\* The dashboard has created the row and committed; the thread is starting.
Init ==
    /\ job \in Jobs
    /\ batch = [status |-> "pending", cancel_requested |-> FALSE,
                error_message |-> "", finished |-> FALSE,
                report_path |-> FALSE, file_id |-> FALSE]
    /\ totals = [field \in TotalFields |-> 0]
    /\ recipients = <<>>
    /\ report = NoReport(<<>>)
    /\ pc = "load"
    /\ mem_cancel = FALSE
    /\ seen = {}
    /\ configured = FALSE
    /\ result = "pending"
    /\ cancel_pc = [c \in Cancellers |-> "idle"]
    /\ cancel_view = [c \in Cancellers |-> <<>>]
    /\ posted = {}
    /\ late = {}
    /\ faults = 0

Goto(from, to) == pc = from /\ pc' = to

----------------------------------------------------------------------------
\* Before the try block.

Load ==
    /\ pc = "load"
    /\ mem_cancel' = batch.cancel_requested
    /\ pc' = IF mem_cancel' THEN "close" ELSE "announce"
    /\ UNCHANGED <<job, batch, totals, report, configured, faults, row_vars, cancel_vars>>

CloseCancelled ==
    /\ Goto("close", "returned")
    /\ batch' = [batch EXCEPT !.status = "cancelled", !.finished = TRUE]
    /\ UNCHANGED <<job, totals, report, mem_cancel, configured, faults, row_vars, cancel_vars>>

\* Mutant: save() without update_fields, writing back the flag read earlier.
AnnouncedWholeRow == [batch EXCEPT !.status = "running", !.error_message = "",
                                   !.finished = FALSE, !.cancel_requested = mem_cancel]

\* Mutant: error_message missing from update_fields.
AnnouncedOldMessage == [batch EXCEPT !.status = "running", !.finished = FALSE]

AnnouncedRow == [batch EXCEPT !.status = "running", !.error_message = "",
                              !.finished = FALSE]

Announce ==
    /\ Goto("announce", "read")
    /\ batch' = AnnouncedRow
    /\ UNCHANGED <<job, totals, report, mem_cancel, configured, faults, row_vars, cancel_vars>>

----------------------------------------------------------------------------
\* Reading the sheet, building the client, uploading the attachment.

\* The settings may have changed since the dashboard checked them.
Read ==
    /\ pc = "read"
    /\ configured' \in BOOLEAN
    /\ pc' = IF job.attachment /\ ~job.dry_run THEN "upload" ELSE "check"
    /\ UNCHANGED <<job, batch, totals, report, mem_cancel, faults, row_vars, cancel_vars>>

Upload ==
    /\ Goto("upload", "check")
    /\ batch' = [batch EXCEPT !.file_id = TRUE]
    /\ UNCHANGED <<job, totals, report, mem_cancel, configured, faults, row_vars, cancel_vars>>

\* An unreadable sheet or a refused upload raises ValueError into the handler.
ReadOrUploadFails ==
    /\ pc \in {"read", "upload"}
    /\ pc' = "fail_totals"
    /\ UNCHANGED <<job, batch, totals, report, mem_cancel, configured, faults, row_vars, cancel_vars>>

----------------------------------------------------------------------------
\* The loop over the rows: every iteration inserts exactly one row, so the
\* row in hand is the one after the last recorded.
NextRow == Len(recipients) + 1
LastRow == Len(recipients)

\* Mutant: the last row is left out.
RowsEndEarly == NextRow >= Len(job.rows)

RowsEnd == NextRow > Len(job.rows)

\* Mutant: the flag is looked at during the pause only.
CheckWithoutFlag ==
    /\ Goto("check", IF RowsEnd THEN "save_path" ELSE "row")
    /\ UNCHANGED <<job, batch, totals, report, mem_cancel, configured, faults, row_vars, cancel_vars>>

\* The loop ends without reading the flag again; otherwise the flag decides.
Check ==
    /\ pc = "check"
    /\ IF RowsEnd
         THEN pc' = "save_path" /\ UNCHANGED mem_cancel
         ELSE /\ mem_cancel' = batch.cancel_requested
              /\ pc' = IF mem_cancel' THEN "save_path" ELSE "row"
    /\ UNCHANGED <<job, batch, totals, report, configured, faults, row_vars, cancel_vars>>

\* Mutant: a dry run goes on to the client.
RowStatusReallySent(item) ==
    IF ~item.renders THEN "failed"
    ELSE IF item.phone = NoPhone THEN "invalid_phone"
    ELSE IF job.skip_duplicates /\ item.phone \in seen THEN "duplicate"
    ELSE "pending"

\* The status a row is inserted with; "pending" means it is to be sent.
RowStatus(item) ==
    IF ~item.renders THEN "failed"
    ELSE IF item.phone = NoPhone THEN "invalid_phone"
    ELSE IF job.skip_duplicates /\ item.phone \in seen THEN "duplicate"
    ELSE IF job.dry_run THEN "dry_run"
    ELSE "pending"

\* History: row n is being recorded or posted.
LateWith(n) == IF batch.cancel_requested THEN late \cup {n} ELSE late

Row ==
    /\ pc = "row"
    /\ LET item == job.rows[NextRow]
           status == RowStatus(item)
       IN  /\ recipients' = Append(recipients, status)
           /\ seen' = IF status \in {"dry_run", "pending"}
                        THEN seen \cup {item.phone} ELSE seen
           /\ pc' = IF status = "pending" THEN "send" ELSE "check"
    /\ late' = LateWith(NextRow)
    /\ UNCHANGED <<job, batch, totals, report, mem_cancel, configured, faults,
                   result, posted, cancel_vars>>

\* client.send or client.send_data, with all its retries (see SafirClient).
Send ==
    /\ Goto("send", "record")
    /\ \/ /\ ~configured
          /\ result' = "config_error"
          /\ UNCHANGED <<posted, late>>
       \/ /\ configured
          /\ result' \in ApiResults
          /\ posted' = posted \cup {LastRow}
          /\ late' = LateWith(LastRow)
    /\ UNCHANGED <<job, batch, totals, report, mem_cancel, configured, faults,
                   recipients, seen, cancel_vars>>

\* Mutant: the result is stored in a second row.
WithResultInserted == Append(recipients, result)

WithResult == [recipients EXCEPT ![LastRow] = result]

RecordResult ==
    /\ Goto("record", "pause")
    /\ recipients' = WithResult
    /\ UNCHANGED <<job, batch, totals, report, mem_cancel, configured, faults,
                   seen, result, posted, late, cancel_vars>>

\* _sleep_until_cancel_or_timeout: the flag never goes back, so of its reads
\* the one that ends the pause stands for all.
Pause ==
    /\ pc = "pause"
    /\ mem_cancel' = batch.cancel_requested
    /\ pc' = IF mem_cancel' THEN "save_path" ELSE "check"
    /\ UNCHANGED <<job, batch, totals, report, configured, faults, row_vars, cancel_vars>>

----------------------------------------------------------------------------
\* After the loop: the report, the totals, the final status.

SavePath ==
    /\ Goto("save_path", "write_report")
    /\ batch' = [batch EXCEPT !.report_path = TRUE]
    /\ UNCHANGED <<job, totals, report, mem_cancel, configured, faults, row_vars, cancel_vars>>

\* A stop request has the report file open.
StopIsWriting == \E c \in Cancellers : cancel_pc[c] = "fill_report"

\* write_report: the rows are those it has recorded.
WriteReport ==
    /\ Goto("write_report", "fill_report")
    /\ report' = Opened(report, StopIsWriting)
    /\ UNCHANGED <<job, batch, totals, mem_cancel, configured, faults, row_vars, cancel_vars>>

FillReport ==
    /\ Goto("fill_report", "refresh_totals")
    /\ report' \in Filled(report, recipients, StopIsWriting)
    /\ UNCHANGED <<job, batch, totals, mem_cancel, configured, faults, row_vars, cancel_vars>>

RefreshTotals ==
    /\ Goto("refresh_totals", "finish")
    /\ totals' = Tally(recipients)
    /\ UNCHANGED <<job, batch, report, mem_cancel, configured, faults, row_vars, cancel_vars>>

\* Decided by the thread's own copies: mem_cancel ("cancelled or
\* batch.cancel_requested", which are equal here) and the totals it has just
\* computed, whatever the database holds by now.
SomeFailed == \E k \in DOMAIN recipients : recipients[k] \in {"failed", "config_error"}

\* Mutant: failed rows are looked at before the stop.
FinalStatusFailedFirst == IF ~job.dry_run /\ SomeFailed THEN "failed"
                          ELSE IF mem_cancel THEN "cancelled"
                          ELSE "finished"

FinalStatus == IF mem_cancel THEN "cancelled"
               ELSE IF ~job.dry_run /\ SomeFailed THEN "failed"
               ELSE "finished"

FinalError == IF mem_cancel THEN "stopped"
              ELSE IF ~job.dry_run /\ SomeFailed THEN "some_failed"
              ELSE ""

Finish ==
    /\ Goto("finish", "returned")
    /\ batch' = [batch EXCEPT !.status = FinalStatus, !.error_message = FinalError,
                              !.finished = TRUE]
    /\ UNCHANGED <<job, totals, report, mem_cancel, configured, faults, row_vars, cancel_vars>>

----------------------------------------------------------------------------
\* The exception handler.

\* Mutant: the handler leaves the totals as they are.
FailTotalsLeft ==
    /\ Goto("fail_totals", "fail_save")
    /\ UNCHANGED <<job, batch, totals, report, mem_cancel, configured, faults, row_vars, cancel_vars>>

FailTotals ==
    /\ Goto("fail_totals", "fail_save")
    /\ totals' = Tally(recipients)
    /\ UNCHANGED <<job, batch, report, mem_cancel, configured, faults, row_vars, cancel_vars>>

\* Mutant: only the message is stored.
ExplainedRow == [batch EXCEPT !.error_message = "exception"]

FailedRow == [batch EXCEPT !.status = "failed", !.error_message = "exception",
                           !.finished = TRUE]

FailSave ==
    /\ Goto("fail_save", "raised")
    /\ batch' = FailedRow
    /\ UNCHANGED <<job, totals, report, mem_cancel, configured, faults, row_vars, cancel_vars>>

Worker ==
    \/ Load \/ CloseCancelled \/ Announce
    \/ Read \/ Upload \/ ReadOrUploadFails
    \/ Check \/ Row \/ Send \/ RecordResult \/ Pause
    \/ SavePath \/ WriteReport \/ FillReport \/ RefreshTotals \/ Finish
    \/ FailTotals \/ FailSave

----------------------------------------------------------------------------
\* Unexpected failures: "database is locked", a full disk, an answer that
\* send_data does not expect, a server restart.

Fault == faults < MaxFaults /\ faults' = faults + 1

\* Inside the try block the handler runs next; the message in hand may or may
\* not have left.
TryRaises ==
    /\ Fault
    /\ pc \in TryBody
    /\ pc' = "fail_totals"
    /\ \/ UNCHANGED <<posted, late>>
       \/ /\ pc = "send" /\ configured
          /\ posted' = posted \cup {LastRow}
          /\ late' = LateWith(LastRow)
    /\ UNCHANGED <<job, batch, totals, report, mem_cancel, configured,
                   recipients, seen, result, cancel_vars>>

\* Before the try block, and inside the handler, nothing catches it but
\* _run_batch_in_background, which logs it.
ThreadLost ==
    /\ Fault
    /\ pc \in Prologue \cup Handler
    /\ pc' = "lost"
    /\ UNCHANGED <<job, batch, totals, report, mem_cancel, configured, row_vars, cancel_vars>>

\* The daemon thread and every request in flight die with the server process.
Restart ==
    /\ Fault
    /\ pc \notin Ended \/ \E c \in Cancellers : cancel_pc[c] \in InFlight
    /\ pc' = IF pc \in Ended THEN pc ELSE "killed"
    /\ cancel_pc' = [c \in Cancellers |->
                        IF cancel_pc[c] \in InFlight THEN "dropped" ELSE cancel_pc[c]]
    /\ \/ UNCHANGED <<posted, late>>
       \/ /\ pc = "send" /\ configured
          /\ posted' = posted \cup {LastRow}
          /\ late' = LateWith(LastRow)
    /\ UNCHANGED <<job, batch, totals, report, mem_cancel, configured,
                   recipients, seen, result, cancel_view>>

----------------------------------------------------------------------------
\* cancel_batch and cancel_batch_immediately, one stop request c.

CancelGoto(c, from, to) ==
    /\ cancel_pc[c] = from
    /\ cancel_pc' = [cancel_pc EXCEPT ![c] = to]

\* get_object_or_404 and the test of the status just read.
CancelRead(c) ==
    /\ CancelGoto(c, "idle", IF batch.status \in BatchActive
                               THEN "save" ELSE "not_running")
    /\ UNCHANGED <<job, batch, totals, report, pc, mem_cancel, configured, faults,
                   row_vars, cancel_view>>

StoppedRow == [batch EXCEPT !.cancel_requested = TRUE, !.status = "cancelled",
                            !.finished = TRUE, !.report_path = TRUE,
                            !.error_message = "stopped_by_request"]

\* Mutant: the UPDATE is filtered on status = RUNNING.
CancelSaveIfRunning(c) ==
    /\ CancelGoto(c, "save", "count")
    /\ batch' = IF batch.status = "running" THEN StoppedRow ELSE batch
    /\ UNCHANGED <<job, totals, report, pc, mem_cancel, configured, faults,
                   row_vars, cancel_view>>

CancelSave(c) ==
    /\ CancelGoto(c, "save", "count")
    /\ batch' = StoppedRow
    /\ UNCHANGED <<job, totals, report, pc, mem_cancel, configured, faults,
                   row_vars, cancel_view>>

\* _refresh_totals: the SELECT, then the UPDATE.
CancelCount(c) ==
    /\ CancelGoto(c, "count", "totals")
    /\ cancel_view' = [cancel_view EXCEPT ![c] = recipients]
    /\ UNCHANGED <<job, batch, totals, report, pc, mem_cancel, configured, faults, row_vars>>

CancelTotals(c) ==
    /\ CancelGoto(c, "totals", "read_report")
    /\ totals' = Tally(cancel_view[c])
    /\ UNCHANGED <<job, batch, report, pc, mem_cancel, configured, faults,
                   row_vars, cancel_view>>

\* write_report: the SELECT, then the file.
OtherIsWriting(c) ==
    pc = "fill_report" \/ \E d \in Cancellers \ {c} : cancel_pc[d] = "fill_report"

CancelReadReport(c) ==
    /\ CancelGoto(c, "read_report", "save_report")
    /\ cancel_view' = [cancel_view EXCEPT ![c] = recipients]
    /\ UNCHANGED <<job, batch, totals, report, pc, mem_cancel, configured, faults, row_vars>>

CancelSaveReport(c) ==
    /\ CancelGoto(c, "save_report", "fill_report")
    /\ report' = Opened(report, OtherIsWriting(c))
    /\ UNCHANGED <<job, batch, totals, pc, mem_cancel, configured, faults,
                   row_vars, cancel_view>>

CancelFillReport(c) ==
    /\ CancelGoto(c, "fill_report", "stopped")
    /\ report' \in Filled(report, cancel_view[c], OtherIsWriting(c))
    /\ UNCHANGED <<job, batch, totals, pc, mem_cancel, configured, faults,
                   row_vars, cancel_view>>

\* Any of these statements may raise; the view answers that the stop was
\* registered but its report was not written.
CancelRaises(c) ==
    /\ Fault
    /\ cancel_pc[c] \in InFlight
    /\ cancel_pc' = [cancel_pc EXCEPT ![c] = "unreported"]
    /\ UNCHANGED <<job, batch, totals, report, pc, mem_cancel, configured,
                   row_vars, cancel_view>>

\* The steps of a request once the view has accepted it.
CancelStep(c) ==
    \/ CancelSave(c) \/ CancelCount(c) \/ CancelTotals(c)
    \/ CancelReadReport(c) \/ CancelSaveReport(c) \/ CancelFillReport(c)

----------------------------------------------------------------------------
\* The thread has ended and every stop request has been answered.
Quiet ==
    /\ pc \in Ended
    /\ \A c \in Cancellers : cancel_pc[c] \in Answered
    /\ UNCHANGED vars

Next ==
    \/ Worker
    \/ TryRaises \/ ThreadLost \/ Restart
    \/ \E c \in Cancellers : CancelRead(c) \/ CancelStep(c) \/ CancelRaises(c)
    \/ Quiet

\* Threads are scheduled, statements and HTTP calls have timeouts; nobody is
\* obliged to press stop, and nothing is obliged to fail.
Fairness == WF_vars(Worker) /\ \A c \in Cancellers : WF_vars(CancelStep(c))

Spec == Init /\ [][Next]_vars
FairSpec == Spec /\ Fairness

-----------------------------------------------------------------------------
(* Properties.                                                             *)

\* The columns, the thread's locals and the history hold values of their types.
TypeOK ==
    /\ job \in Jobs
    /\ batch \in [status : BatchActive \cup BatchTerminal,
                  cancel_requested : BOOLEAN, error_message : Errors,
                  finished : BOOLEAN, report_path : BOOLEAN, file_id : BOOLEAN]
    /\ totals \in [TotalFields -> Nat]
    /\ recipients \in Seq(RowStatuses)
    /\ report \in [shows : Seq(RowStatuses), whole : BOOLEAN, mixed : BOOLEAN]
    /\ pc \in Prologue \cup TryBody \cup Handler \cup Ended
    /\ mem_cancel \in BOOLEAN
    /\ seen \subseteq Phones
    /\ configured \in BOOLEAN
    /\ result \in RowStatuses
    /\ cancel_pc \in [Cancellers -> {"idle"} \cup InFlight \cup Answered]
    /\ cancel_view \in [Cancellers -> Seq(RowStatuses)]
    /\ posted \subseteq Nat
    /\ late \subseteq Nat
    /\ faults \in 0..MaxFaults

\* The thread takes up a row of the sheet only.
RowInHand == pc = "row" => NextRow \in DOMAIN job.rows

TypeInv == TypeOK /\ RowInHand

\* A message leaves only for a row that may be sent: never in a dry run
\* (forms.py line 41), never for an invalid number or a text that does not
\* render, never twice to one number when duplicates are skipped, and never
\* before the attachment it refers to has been uploaded.
PostsAreLegitimate ==
    \A r \in posted :
        /\ ~job.dry_run
        /\ job.rows[r].renders
        /\ job.rows[r].phone \in Phones
        /\ job.attachment => batch.file_id
        /\ job.skip_duplicates =>
               \A q \in posted : job.rows[q].phone = job.rows[r].phone => q = r

\* Rows that render with a valid number.
Addressed(k) == job.rows[k].renders /\ job.rows[k].phone # NoPhone

\* A row is held back as a duplicate exactly if an earlier row of its number
\* was sent, or would have been in a dry run: a row that could not be rendered
\* or has no number keeps no later row from being sent.
DuplicatesAreHeldBack ==
    \A k \in DOMAIN recipients :
        recipients[k] = "duplicate" <=>
            /\ job.skip_duplicates /\ Addressed(k)
            /\ \E j \in 1..k-1 : Addressed(j) /\ job.rows[j].phone = job.rows[k].phone

\* core.py 949-976: messages leave only for rows that may be sent, and rows are
\* held back as duplicates only of such rows, whatever order the rows come in
\* and wherever a stop or a failure falls.
SendsAreLegitimate == PostsAreLegitimate /\ DuplicatesAreHeldBack

\* The recipient rows tell what was handed to Safir: a posted row has been
\* recorded before it left, a row with an answer of Safir's was posted, and a
\* row still "pending" is the one in hand, never one of a finished run.
LedgerMatchesPosts ==
    /\ \A r \in posted : r \in DOMAIN recipients
                         /\ recipients[r] \in ApiResults \cup {"pending"}
    /\ \A r \in DOMAIN recipients :
          /\ recipients[r] \in ApiResults \ {"failed", "invalid_phone"} => r \in posted
          /\ recipients[r] = "pending" => r = LastRow /\ pc # "returned"

\* batch_detail.html line 40: processing stops after the current send or wait.
\* Whatever the interleaving, at most one row is recorded or posted after a
\* stop was registered.
StopsWithinOneRow == \A r, q \in late : r = q

\* What the status says while no stop is registered: only the thread has
\* written it, so it tells where the thread is.
StatusFollowsThread ==
    /\ pc = "close" => batch.cancel_requested
    /\ ~batch.cancel_requested =>
          /\ pc \in {"load", "announce"} => batch.status = "pending"
          /\ pc \in TryBody \cup Handler => batch.status = "running"

\* What may be late, by where the thread is: nothing before it has passed the
\* flag, at most the last recorded row until it looks at the flag again.
LateFollowsThread ==
    /\ ~batch.cancel_requested => late = {}
    /\ pc \in Prologue \cup {"read", "upload", "row"} => late = {}
    /\ pc \in {"check", "send", "record", "pause"} => late \subseteq {LastRow}

\* The inductive invariant behind StopsWithinOneRow, InactiveStaysInactive and
\* Contract: the status and the late rows are tied to the thread's position.
IInv == TypeInv /\ StatusFollowsThread /\ LateFollowsThread /\ StopsWithinOneRow

\* What LedgerMatchesPosts rests on, by where the thread is: the row being sent
\* is the last one and still "pending", and is posted in "send" or not at all.
LedgerFollowsThread ==
    /\ Len(recipients) <= Len(job.rows)
    /\ \A r \in DOMAIN recipients :
          recipients[r] = "pending" =>
              pc \in {"send", "record", "raised", "lost", "killed"} \cup Handler
    /\ pc \in {"send", "record"} => LastRow > 0 /\ recipients[LastRow] = "pending"
    /\ pc = "send" => LastRow \notin posted
    /\ pc = "record" => /\ result \in ApiResults \cup {"config_error"}
                        /\ result = "config_error" <=> LastRow \notin posted

\* What SendsAreLegitimate rests on: the row being sent may be, and whatever
\* was posted has been remembered and found its attachment uploaded.
SendsFollowThread ==
    /\ \A r \in posted : job.rows[r].phone \in seen
    /\ (/\ pc \in {"check", "row", "send", "record", "pause"}
        /\ job.attachment /\ ~job.dry_run) => batch.file_id
    /\ pc = "send" =>
          /\ ~job.dry_run
          /\ job.rows[LastRow].renders
          /\ job.rows[LastRow].phone \in seen
          /\ job.skip_duplicates =>
                \A q \in posted : job.rows[q].phone # job.rows[LastRow].phone

\* The numbers remembered are those of the recorded rows that are addressed.
SeenFollowsRows ==
    seen = {job.rows[j].phone : j \in {k \in DOMAIN recipients : Addressed(k)}}

\* The inductive invariant behind LedgerMatchesPosts and SendsAreLegitimate.
LedgerInv == /\ LedgerFollowsThread /\ LedgerMatchesPosts
             /\ SendsFollowThread /\ PostsAreLegitimate
             /\ SeenFollowsRows /\ DuplicatesAreHeldBack

\* batch_detail.html line 98, "the complete Excel of this report": once a stop
\* was answered a readable report may be stale, but it misses at most one row
\* and shows at most the row in hand with an older status.  It is unreadable
\* only while somebody writes it, after saves of the thread and the stops that
\* overlapped, or after one that was given up.
StopReportIsNearlyComplete ==
    (\E c \in Cancellers : cancel_pc[c] = "stopped") =>
        IF report.whole
          THEN /\ Len(report.shows) >= Len(recipients) - 1
               /\ \A k \in DOMAIN report.shows : report.shows[k] \in {recipients[k], "pending"}
          ELSE pc = "fill_report" \/ StopIsWriting \/ report.mixed \/ faults > 0

\* A run that no stop disturbed ends with every row recorded, the report and
\* the totals of exactly those rows, and the status they call for.
UndisturbedRunIsExact ==
    (pc = "returned" /\ ~batch.cancel_requested) =>
        /\ Len(recipients) = Len(job.rows)
        /\ report.whole /\ report.shows = recipients /\ batch.report_path
        /\ totals = Tally(recipients)
        /\ batch.status = IF totals["total_failed"] + totals["total_config_error"] > 0
                             /\ ~job.dry_run
                          THEN "failed" ELSE "finished"

\* A thread that saw the flag and returned leaves the batch cancelled.
ObservedStopEndsCancelled ==
    (pc = "returned" /\ mem_cancel) => batch.status = "cancelled"

\* status, error_message and finished_at are written by two sides in several
\* statements and still fit each other at every moment.
RowColumnsAgree ==
    /\ batch.finished <=> batch.status \in BatchTerminal
    /\ batch.status = "cancelled" => batch.error_message \in {"stopped", "stopped_by_request"}
    /\ batch.status = "failed" => batch.error_message \in {"some_failed", "exception"}
    /\ batch.status \notin {"cancelled", "failed"} => batch.error_message = ""

\* Once the batch page is told that processing is over it is never told the
\* opposite, although the thread may overwrite CANCELLED with RUNNING.
InactiveStaysInactive == [][~IsActive => ~IsActive']_vars

\* A request answered "stop registered" or "no longer running" leaves a batch
\* that is inactive from then on.
RepliesAreTrue ==
    \A c \in Cancellers :
        cancel_pc[c] \in (InFlight \ {"save"}) \cup {"stopped", "not_running"} => ~IsActive

\* The batch ends by itself, with or without a stop and whatever the try block
\* raises, unless its thread dies outside the try block or with the server.
BatchSettles == <>[](~IsActive) \/ <>(pc \in {"lost", "killed"})

\* Also a batch whose thread is dead can be closed: a stop request the view has
\* accepted makes it inactive unless the request itself fails.
StopClosesEvenADeadBatch ==
    \A c \in Cancellers :
        cancel_pc[c] = "save" ~> (~IsActive \/ cancel_pc[c] \in {"unreported", "dropped"})

\* The refinement: the batch page's contract, see StoppableBatch.
Promise == INSTANCE StoppableBatch
             WITH active <- IsActive, stop <- batch.cancel_requested,
                  recorded <- LastRow, grace <- pc = "row"

Contract == Promise!Spec

Life == INSTANCE BatchLife

\* Where the thread is, and how far the one stop request c is, as BatchLife
\* sees it.
PhaseAt ==
    CASE pc \in {"save_path", "write_report", "fill_report", "refresh_totals"} -> "ending"
      [] pc = "finish"             -> "counted"
      [] pc = "fail_totals"        -> "failing"
      [] pc = "fail_save"          -> "noted"
      [] pc = "returned"           -> "finished"
      [] pc = "raised"             -> "failed"
      [] pc \in {"lost", "killed"} -> "lost"
      [] OTHER                     -> "active"

StopAt(c) ==
    CASE cancel_pc[c] = "save"   -> "accepted"
      [] cancel_pc[c] = "count"  -> "saved"
      [] cancel_pc[c] = "totals" -> "counted"
      [] OTHER -> IF batch.cancel_requested THEN "done" ELSE "none"

LifeOf(c) ==
    [phase |-> PhaseAt, recorded |-> LastRow, in_hand |-> IF pc = "row" THEN 1 ELSE 0,
     stop |-> StopAt(c),
     counted |-> IF cancel_pc[c] = "totals" THEN Len(cancel_view[c]) ELSE 0,
     total_rows |-> totals["total_rows"]]

\* What the dashboard builds the next range on: with one stop request, a batch
\* lives as BatchLife says, total_rows included.
LifeContract ==
    /\ \A c \in Cancellers : LifeOf(c) = Life!NewLife
    /\ [][\A c \in Cancellers :
             LifeOf(c)' \in {LifeOf(c)} \cup Life!LifeSteps(LifeOf(c), Len(job.rows))]_vars
=============================================================================
