----------------------------- MODULE SingleTest -----------------------------
(***************************************************************************)
(* The test message to one number (views.py single_test, core.py           *)
(* send_single_recipient_test): a batch of one recipient that the request  *)
(* itself sends, without the processing thread.  Its page has the stop     *)
(* button all the same (views.py cancel_batch), and the admin site         *)
(* (admin.py MessageBatchAdmin) may save a form of its row.                *)
(*                                                                         *)
(* One action is one statement on the database or the network, the opening *)
(* of a report file or its filling (ReportFile).  The row has one          *)
(* recipient, so its totals and its reports are known by the status they   *)
(* counted or show.                                                        *)
(***************************************************************************)
EXTENDS Naturals, ReportFile

CONSTANTS Results,    \* the recipient's status after a send
          None,
          Stops,      \* as many stop requests as may be under way together
          MaxFaults   \* bound: failures of requests

\* The phone number is valid: the form asks normalize_iran_mobile first.
ASSUME ResultsAssumption == "sent" \in Results /\ "pending" \notin Results
ASSUME MaxFaultsAssumption == MaxFaults \in Nat

Paths == {"single", "batch"}
Status == {"pending"} \cup Results
Row == [status : {"running", "finished", "failed", "cancelled"}, cancel : BOOLEAN,
        totals : Status \cup {None}, finished : BOOLEAN, path : Paths \cup {None},
        error : {"none", "test_failed", "stopped"}]
\* The absent row, status or path.
ASSUME NoneAssumption == None \notin Status \cup Row \cup Paths

VARIABLES
    row,          \* the MessageBatch row
    recipient,    \* the status in the MessageRecipient row
    files,        \* the report files
    request,      \* the test: its next statement and what it holds
    stopping,     \* the stop requests: the same
    form,         \* the admin form as it was opened, or None
    overwritten,  \* history: the admin form changed a column as it was saved
    overlapped,   \* history: a stop began while another was under way
    stopped,      \* history: a stop has been registered
    faults

history == <<overwritten, overlapped, stopped>>
vars == <<row, recipient, files, request, stopping, form, history, faults>>

Started == [status |-> "running", cancel |-> FALSE, totals |-> None,
            finished |-> FALSE, path |-> None, error |-> "none"]
\* at: the next statement; read: what it has read; path: of its own copy.
NoStop == [at |-> "idle", read |-> None, path |-> None]

Init ==
    /\ row = None
    /\ recipient = None
    /\ files = [p \in Paths |-> NoReport(None)]
    /\ request = [at |-> "create", read |-> None]
    /\ stopping = [s \in Stops |-> NoStop]
    /\ form = None
    /\ overwritten = FALSE /\ overlapped = FALSE /\ stopped = FALSE
    /\ faults = 0

\* Who has the report file p open: the test, one of the stops S.
TestIsWriting(p) == p = "single" /\ request.at = "fill"
StopIsWriting(S, p) == \E s \in S : stopping[s].at = "fill" /\ stopping[s].path = p

-----------------------------------------------------------------------------
(* send_single_recipient_test.                                             *)

others == <<stopping, form, history, faults>>

Step(from, to, read) ==
    request.at = from /\ request' = [at |-> to, read |-> read]

CreateBatch ==
    /\ Step("create", "recipient", None)
    /\ row' = Started
    /\ UNCHANGED <<recipient, files, others>>

CreateRecipient ==
    /\ Step("recipient", "send", None)
    /\ recipient' = "pending"
    /\ UNCHANGED <<row, files, others>>

\* The answer is in memory only.  (How it comes about: SafirClient.)
SendMessage ==
    /\ \E result \in Results : Step("send", "save", result)
    /\ UNCHANGED <<row, recipient, files, others>>

SaveRecipient ==
    /\ Step("save", "path", None)
    /\ recipient' = request.read
    /\ UNCHANGED <<row, files, others>>

\* Mutant: the report has the name that a stop gives it.
SaveSharedPath ==
    /\ Step("path", "read", None)
    /\ row' = [row EXCEPT !.path = "batch"]
    /\ UNCHANGED <<recipient, files, others>>

SavePath ==
    /\ Step("path", "read", None)
    /\ row' = [row EXCEPT !.path = "single"]
    /\ UNCHANGED <<recipient, files, others>>

ReadForReport ==
    /\ Step("read", "write", recipient)
    /\ UNCHANGED <<row, recipient, files, others>>

WriteReport ==
    /\ Step("write", "fill", request.read)
    /\ files' = [files EXCEPT !["single"] = Opened(@, StopIsWriting(Stops, "single"))]
    /\ UNCHANGED <<row, recipient, others>>

FillReport ==
    /\ Step("fill", "count", None)
    /\ \E file \in Filled(files["single"], request.read, StopIsWriting(Stops, "single")) :
          files' = [files EXCEPT !["single"] = file]
    /\ UNCHANGED <<row, recipient, others>>

Count ==
    /\ Step("count", "totals", recipient)
    /\ UNCHANGED <<row, recipient, files, others>>

\* Mutant: the end is not marked.
SaveTotalsOnly ==
    /\ Step("totals", "status", None)
    /\ row' = [row EXCEPT !.totals = request.read]
    /\ UNCHANGED <<recipient, files, others>>

SaveTotals ==
    /\ Step("totals", "status", None)
    /\ row' = [row EXCEPT !.totals = request.read, !.finished = TRUE]
    /\ UNCHANGED <<recipient, files, others>>

StatusOf(result) == IF result = "sent" THEN "finished" ELSE "failed"
ErrorOf(result) == IF result = "sent" THEN "none" ELSE "test_failed"

\* Mutant: the recipient's status is written to the batch.
CloseWithResult ==
    /\ Step("status", "answered", None)
    /\ row' = [row EXCEPT !.status = recipient, !.error = ErrorOf(recipient)]
    /\ UNCHANGED <<recipient, files, others>>

\* Mutant: all columns are saved.
CloseWholeRow ==
    /\ Step("status", "answered", None)
    /\ row' = [row EXCEPT !.status = StatusOf(recipient), !.error = ErrorOf(recipient),
                          !.cancel = FALSE]
    /\ UNCHANGED <<recipient, files, others>>

\* The status goes by the result in memory, which is the recipient's.
Close ==
    /\ Step("status", "answered", None)
    /\ row' = [row EXCEPT !.status = StatusOf(recipient), !.error = ErrorOf(recipient)]
    /\ UNCHANGED <<recipient, files, others>>

\* An exception or the end of the server: nothing more is written.
RequestDies ==
    /\ request.at # "answered" /\ request.at # "dead" /\ faults < MaxFaults
    /\ request' = [at |-> "dead", read |-> None]
    /\ faults' = faults + 1
    /\ UNCHANGED <<row, recipient, files, stopping, form, history>>

Request ==
    \/ CreateBatch \/ CreateRecipient \/ SendMessage \/ SaveRecipient \/ SavePath
    \/ ReadForReport \/ WriteReport \/ FillReport \/ Count \/ SaveTotals \/ Close
    \/ RequestDies

-----------------------------------------------------------------------------
(* cancel_batch and cancel_batch_immediately.                              *)

rest == <<request, form, overwritten, faults>>

StopStep(s, from, to, read) ==
    /\ stopping[s].at = from
    /\ stopping' = [stopping EXCEPT ![s] = [at |-> to, read |-> read, path |-> @.path]]

StopRead(s) ==
    /\ row # None /\ row.status \in {"pending", "running"}
    /\ stopping[s].at = "idle"
    /\ stopping' = [stopping EXCEPT ![s] =
                       [at |-> "save", read |-> None,
                        path |-> IF row.path = None THEN "batch" ELSE row.path]]
    /\ overlapped' = (overlapped \/ \E t \in Stops \ {s} : stopping[t].at # "idle")
    /\ UNCHANGED <<row, recipient, files, stopped, rest>>

StopSave(s) ==
    /\ StopStep(s, "save", "count", None)
    /\ row' = [row EXCEPT !.cancel = TRUE, !.status = "cancelled", !.finished = TRUE,
                          !.error = "stopped", !.path = stopping[s].path]
    /\ stopped' = TRUE
    /\ UNCHANGED <<recipient, files, overlapped, rest>>

StopCount(s) ==
    /\ StopStep(s, "count", "totals", recipient)
    /\ UNCHANGED <<row, recipient, files, overlapped, stopped, rest>>

StopTotals(s) ==
    /\ StopStep(s, "totals", "read", None)
    /\ row' = [row EXCEPT !.totals = stopping[s].read]
    /\ UNCHANGED <<recipient, files, overlapped, stopped, rest>>

StopReport(s) ==
    /\ StopStep(s, "read", "write", recipient)
    /\ UNCHANGED <<row, recipient, files, overlapped, stopped, rest>>

StopWrite(s) ==
    LET p == stopping[s].path IN
    /\ StopStep(s, "write", "fill", stopping[s].read)
    /\ files' = [files EXCEPT ![p] =
                   Opened(@, TestIsWriting(p) \/ StopIsWriting(Stops \ {s}, p))]
    /\ UNCHANGED <<row, recipient, overlapped, stopped, rest>>

StopFill(s) ==
    LET p == stopping[s].path IN
    /\ stopping[s].at = "fill"
    /\ \E file \in Filled(files[p], stopping[s].read,
                          TestIsWriting(p) \/ StopIsWriting(Stops \ {s}, p)) :
          files' = [files EXCEPT ![p] = file]
    /\ stopping' = [stopping EXCEPT ![s] = NoStop]
    /\ UNCHANGED <<row, recipient, overlapped, stopped, rest>>

\* Any statement raises: the view answers "registered, but no report".
StopDies(s) ==
    /\ stopping[s].at # "idle" /\ faults < MaxFaults
    /\ stopping' = [stopping EXCEPT ![s] = NoStop]
    /\ faults' = faults + 1
    /\ UNCHANGED <<row, recipient, files, request, form, history>>

Stop(s) ==
    \/ StopRead(s) \/ StopSave(s) \/ StopCount(s) \/ StopTotals(s) \/ StopReport(s)
    \/ StopWrite(s) \/ StopFill(s) \/ StopDies(s)

-----------------------------------------------------------------------------
(* The admin site: the form holds every column but started_at and          *)
(* finished_at.  A transaction reads the row and writes all of it.         *)

AdminOpen ==
    /\ row # None
    /\ form' = row
    /\ UNCHANGED <<row, recipient, files, request, stopping, history, faults>>

AdminSave ==
    /\ form # None
    /\ row' = [form EXCEPT !.finished = row.finished]
    /\ overwritten' = (overwritten \/ row' # row)
    /\ form' = None
    /\ UNCHANGED <<recipient, files, request, stopping, overlapped, stopped, faults>>

Next == Request \/ (\E s \in Stops : Stop(s)) \/ AdminOpen \/ AdminSave

Spec == Init /\ [][Next]_vars

-----------------------------------------------------------------------------
(* Properties.                                                             *)

\* The row, the recipient, the reports and the requests hold values of their
\* types, and the path in the row is the one of a report of this batch.
TypeOK ==
    /\ row \in Row \cup {None}
    /\ recipient \in Status \cup {None}
    /\ files \in [Paths -> [shows : Status \cup {None}, whole : BOOLEAN, mixed : BOOLEAN]]
    /\ request \in [at : {"create", "recipient", "send", "save", "path", "read",
                          "write", "fill", "count", "totals", "status", "answered",
                          "dead"},
                    read : Status \cup {None}]
    /\ stopping \in [Stops ->
                       [at : {"idle", "save", "count", "totals", "read", "write", "fill"},
                        read : Status \cup {None}, path : Paths \cup {None}]]
    /\ form \in Row \cup {None}
    /\ overwritten \in BOOLEAN /\ overlapped \in BOOLEAN /\ stopped \in BOOLEAN
    /\ faults \in 0..MaxFaults

\* A test that was answered is closed and tells its result, or that it was
\* stopped; its totals count the result, or were counted by a stop before it
\* was there.  Only a stale admin form undoes that.
ClosedTestTellsItsResult ==
    (request.at = "answered" /\ ~overwritten) =>
        /\ row.finished
        /\ <<row.status, row.error>> \in
              {<<StatusOf(recipient), ErrorOf(recipient)>>} \cup
              (IF stopped THEN {<<"cancelled", "stopped">>} ELSE {})
        /\ row.totals = recipient \/ (stopped /\ row.totals \in {None, "pending"})

\* batch_detail.html 98, "the complete Excel of this report": once the test is
\* answered and no stop is under way or was given up, the file to download can
\* be read and shows the result, although stop and test each write a report of
\* their own.  Two things go wrong.  Saves of one file that overlapped may have
\* left it unreadable.  And of stops that overlapped the last to write its
\* report may have read the recipient before the result was there.
DownloadShowsTheResult ==
    (/\ request.at = "answered"
     /\ \A s \in Stops : stopping[s].at = "idle"
     /\ faults = 0
     /\ ~overwritten) =>
        LET f == files[row.path] IN
        /\ f.whole \/ f.mixed
        /\ f.whole => f.shows \in {recipient} \cup
                                   (IF overlapped THEN {None, "pending"} ELSE {})

\* views.py 583, "the stop has been registered": from then on the batch is
\* stopped for good, and is never shown as active again, unless an admin form
\* from before is saved over it.
StopStands ==
    (stopped /\ ~overwritten) => row.cancel /\ row.status # "running" /\ row.finished

\* Where the requests are, for the proof of StopStands.
Progress ==
    /\ request.at = "create" => row = None
    /\ row = None => ~stopped /\ form = None /\ \A s \in Stops : stopping[s].at = "idle"
    /\ request.at \notin {"create", "dead"} => row # None
    /\ \A s \in Stops : stopping[s].at # "idle" => stopping[s].path \in Paths
=============================================================================
