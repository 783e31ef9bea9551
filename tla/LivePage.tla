------------------------------ MODULE LivePage ------------------------------
(***************************************************************************)
(* The batch page while a batch runs: its script polls the live status     *)
(* every two seconds (templates/bale_sender/batch_detail.html lines        *)
(* 137-217) and the server answers from two queries (views.py              *)
(* batch_live_status).  No poll waits for the one before, so answers may   *)
(* be shown in any order.  The batch itself is StoppableBatch, which       *)
(* BatchProcessing implements.  (The list of recent rows is left out.)     *)
(***************************************************************************)
EXTENDS Integers

CONSTANTS Polls,         \* polls that may be under way together
          FailureLimit,  \* consecutive failures that end the polling: 5
          MaxRows        \* bound: rows the batch records

ASSUME FailureLimitAssumption == FailureLimit \in Nat \ {0}
ASSUME MaxRowsAssumption == MaxRows \in Nat

VARIABLES
    active, stop, recorded, grace,   \* the batch, see StoppableBatch
    timer,      \* the interval is set
    failures,   \* consecutive failed polls
    polls,      \* the polls under way: how far each is, and what it has read
    page        \* what the page shows

batchVars == <<active, stop, recorded, grace>>
vars == <<active, stop, recorded, grace, timer, failures, polls, page>>

Batch == INSTANCE StoppableBatch

Poll(at, isActive, isStopped, rows) ==
    [at |-> at, active |-> isActive, stop |-> isStopped, rows |-> rows]
Idle == Poll("idle", TRUE, FALSE, 0)
Sent == Poll("sent", TRUE, FALSE, 0)

\* The page of an active batch: the script polls at once.
Init ==
    /\ Batch!Init
    /\ timer = TRUE
    /\ failures = 0
    /\ \E i \in Polls : polls = [p \in Polls |-> IF p = i THEN Sent ELSE Idle]
    /\ page = [active |-> TRUE, rows |-> 0, note |-> "live"]

\* Bound: a row is taken up only below MaxRows.
BatchStep ==
    /\ Batch!Next
    /\ recorded = MaxRows => ~grace'
    /\ UNCHANGED <<timer, failures, polls, page>>

-----------------------------------------------------------------------------
(* One poll: sent, then the server's queries, then shown by the page.      *)

Tick(p) ==
    /\ timer /\ polls[p].at = "idle"
    /\ polls' = [polls EXCEPT ![p] = Sent]
    /\ UNCHANGED <<batchVars, timer, failures, page>>

\* For a mutant, see ServeCountsFirst.
ReadCountsFirst(p) ==
    /\ polls[p].at = "sent"
    /\ polls' = [polls EXCEPT ![p] = Poll("row", TRUE, FALSE, recorded)]
    /\ UNCHANGED <<batchVars, timer, failures, page>>

\* get_object_or_404: status and cancel_requested.
ReadRow(p) ==
    /\ polls[p].at = "sent"
    /\ polls' = [polls EXCEPT ![p] = Poll("row", active, stop, 0)]
    /\ UNCHANGED <<batchVars, timer, failures, page>>

\* For a mutant, see ServeCountsFirst.
ReadRowLast(p) ==
    /\ polls[p].at = "row"
    /\ polls' = [polls EXCEPT ![p] = Poll("answered", active, stop, @.rows)]
    /\ UNCHANGED <<batchVars, timer, failures, page>>

\* _batch_stats.
ReadCounts(p) ==
    /\ polls[p].at = "row"
    /\ polls' = [polls EXCEPT ![p] = Poll("answered", @.active, @.stop, recorded)]
    /\ UNCHANGED <<batchVars, timer, failures, page>>

\* No answer, or one that is not ok.
Fail(p) ==
    /\ polls[p].at \in {"sent", "row", "answered"}
    /\ polls' = [polls EXCEPT ![p] = Poll("failed", TRUE, FALSE, 0)]
    /\ UNCHANGED <<batchVars, timer, failures, page>>

\* is_active comes first, and is false once a stop is registered.
Note(answer) ==
    IF ~answer.active THEN "over" ELSE IF answer.stop THEN "stopping" ELSE "live"

\* Mutant: the polling goes on.
ShowAndPollOn(p) ==
    /\ polls[p].at = "answered"
    /\ page' = [active |-> polls[p].active, rows |-> polls[p].rows, note |-> Note(polls[p])]
    /\ failures' = 0
    /\ polls' = [polls EXCEPT ![p] = Idle]
    /\ UNCHANGED <<batchVars, timer>>

Show(p) ==
    /\ polls[p].at = "answered"
    /\ page' = [active |-> polls[p].active, rows |-> polls[p].rows, note |-> Note(polls[p])]
    /\ failures' = 0
    /\ timer' = (timer /\ polls[p].active)
    /\ polls' = [polls EXCEPT ![p] = Idle]
    /\ UNCHANGED batchVars

\* (Bound: no failures are counted beyond the limit.)
ShowFailure(p) ==
    LET ends == failures + 1 >= FailureLimit IN
    /\ polls[p].at = "failed"
    /\ failures' = IF ends THEN FailureLimit ELSE failures + 1
    /\ page' = [page EXCEPT !.note = IF ends THEN "gave_up" ELSE "failing"]
    /\ timer' = (timer /\ ~ends)
    /\ polls' = [polls EXCEPT ![p] = Idle]
    /\ UNCHANGED batchVars

\* Mutant: the counts are read before the row.
ServeCountsFirst(p) == ReadCountsFirst(p) \/ ReadRowLast(p) \/ Fail(p)

\* The server answers, or the request fails, in the end.
Serve(p) == ReadRow(p) \/ ReadCounts(p) \/ Fail(p)
Handle(p) == Show(p) \/ ShowFailure(p)

Next ==
    \/ BatchStep
    \/ \E p \in Polls : Tick(p) \/ Serve(p) \/ Handle(p)

Fairness ==
    /\ WF_vars(\E p \in Polls : Tick(p))
    /\ \A p \in Polls : WF_vars(Serve(p)) /\ WF_vars(Handle(p))

Spec == Init /\ [][Next]_vars /\ Fairness

-----------------------------------------------------------------------------
(* Properties.                                                             *)

\* The values of the variables.  The script's text for a stop that is being
\* carried out is never shown: batch_detail.html 198 asks for is_active and
\* cancel_requested together, which no answer holds.
TypeOK ==
    /\ active \in BOOLEAN /\ stop \in BOOLEAN /\ grace \in BOOLEAN
    /\ recorded \in 0..MaxRows
    /\ timer \in BOOLEAN
    /\ failures \in 0..FailureLimit
    /\ polls \in [Polls -> [at : {"idle", "sent", "row", "answered", "failed"},
                            active : BOOLEAN, stop : BOOLEAN, rows : 0..MaxRows]]
    /\ page \in [active : BOOLEAN, rows : 0..MaxRows,
                 note : {"live", "over", "failing", "gave_up"}]

\* The page that shows the batch as over (batch_detail.html 196) counts every
\* row of it; if it was stopped, all but the one that was in hand, and it no
\* longer asks for that one.
OverIsNearlyExact ==
    ~page.active => /\ recorded <= page.rows + 1
                    /\ ~stop => recorded = page.rows

\* The invariant behind it: an answer that says "over" was counted after the
\* batch was over, and from then on at most the row in hand is recorded.
Settled(rows) ==
    /\ ~active
    /\ recorded + (IF grace THEN 1 ELSE 0) <= rows + 1
    /\ rows <= recorded
    /\ ~stop => recorded = rows

IInv ==
    /\ TypeOK
    /\ active => ~stop
    /\ ~active /\ ~stop => ~grace
    /\ recorded + (IF grace THEN 1 ELSE 0) <= MaxRows
    /\ \A p \in Polls : polls[p].active => ~polls[p].stop
    /\ \A p \in Polls : polls[p].at = "row" => (~polls[p].active => ~active)
    /\ \A p \in Polls : polls[p].at = "answered" /\ ~polls[p].active => Settled(polls[p].rows)
    /\ ~page.active => Settled(page.rows)

\* batch_detail.html 197 and 208: once the batch is over, the polling stops,
\* whichever polls fail or are late.
PollingStops == ~active ~> ~timer

\* batch_detail.html 201: a page that says so is updated every two seconds.
LiveNoteIsTrue == page.note = "live" => timer
=============================================================================
