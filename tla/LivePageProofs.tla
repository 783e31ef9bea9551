--------------------------- MODULE LivePageProofs ---------------------------
(***************************************************************************)
(* What a page shows of a batch that is over, for any number of polls      *)
(* under way together and any number of rows.  The argument is IInv: only  *)
(* an answer whose row was read after the batch was over says so, and its  *)
(* counts were read later still.                                           *)
(***************************************************************************)
EXTENDS LivePage, TLAPS

USE FailureLimitAssumption, MaxRowsAssumption

LEMMA InitInv == Init => IInv
<1> SUFFICES ASSUME Init PROVE IInv
  OBVIOUS
<1>1. active = TRUE /\ stop = FALSE /\ recorded = 0 /\ grace = FALSE
  BY DEF Init, Batch!Init
<1>2. PICK i \in Polls : polls = [p \in Polls |-> IF p = i THEN Sent ELSE Idle]
  BY DEF Init
<1>3. Sent \in [at : {"idle", "sent", "row", "answered", "failed"},
               active : BOOLEAN, stop : BOOLEAN, rows : 0..MaxRows]
  BY DEF Sent, Poll
<1>4. Idle \in [at : {"idle", "sent", "row", "answered", "failed"},
               active : BOOLEAN, stop : BOOLEAN, rows : 0..MaxRows]
  BY DEF Idle, Poll
<1>5. polls \in [Polls -> [at : {"idle", "sent", "row", "answered", "failed"},
                        active : BOOLEAN, stop : BOOLEAN, rows : 0..MaxRows]]
  BY <1>2, <1>3, <1>4
<1>6. timer = TRUE /\ failures = 0 /\ page = [active |-> TRUE, rows |-> 0, note |-> "live"]
  BY DEF Init
<1>7. TypeOK
  <2>1. 0 \in 0..MaxRows /\ 0 \in 0..FailureLimit
    OBVIOUS
  <2>2. /\ active \in BOOLEAN /\ stop \in BOOLEAN /\ grace \in BOOLEAN
        /\ recorded \in 0..MaxRows /\ timer \in BOOLEAN /\ failures \in 0..FailureLimit
    BY <1>1, <1>6, <2>1
  <2>3. page \in [active : BOOLEAN, rows : 0..MaxRows,
                 note : {"live", "over", "failing", "gave_up"}]
    BY <1>6, <2>1
  <2> QED BY <1>5, <2>2, <2>3 DEF TypeOK
<1> QED BY <1>1, <1>2, <1>6, <1>7 DEF IInv, Idle, Sent, Poll

\* A batch that is over stays so, and only the row in hand is recorded.
LEMMA OverStays ==
    ASSUME IInv, BatchStep, NEW r \in Int, Settled(r)
    PROVE  Settled(r)'
BY DEF IInv, TypeOK, BatchStep, Settled, Batch!Next, Batch!TakeUp, Batch!Record,
       Batch!Abandon, Batch!Stop, Batch!End

LEMMA BatchInv == IInv /\ BatchStep => IInv'
<1> SUFFICES ASSUME IInv, BatchStep PROVE IInv'
  OBVIOUS
<1> USE DEF Batch!Next, Batch!TakeUp, Batch!Record, Batch!Abandon, Batch!Stop, Batch!End
<1>1. UNCHANGED <<timer, failures, polls, page>> BY DEF BatchStep
<1>2. /\ active' \in BOOLEAN /\ stop' \in BOOLEAN /\ grace' \in BOOLEAN
      /\ recorded' \in 0..MaxRows
  <2>1. /\ active \in BOOLEAN /\ stop \in BOOLEAN /\ grace \in BOOLEAN
        /\ recorded \in 0..MaxRows
    BY DEF IInv, TypeOK
  <2>2. grace => recorded + 1 <= MaxRows BY DEF IInv
  <2>3. active' \in BOOLEAN /\ stop' \in BOOLEAN /\ grace' \in BOOLEAN
    BY <2>1 DEF BatchStep
  <2>4. recorded' = recorded \/ (grace /\ recorded' = recorded + 1)
    BY DEF BatchStep
  <2> QED BY <2>1, <2>2, <2>3, <2>4
<1>3. TypeOK' BY <1>1, <1>2 DEF IInv, TypeOK
<1>4. /\ (active => ~stop)' /\ (~active /\ ~stop => ~grace)'
      /\ (recorded + (IF grace THEN 1 ELSE 0) <= MaxRows)'
  BY DEF IInv, TypeOK, BatchStep
<1>5. active' => active BY DEF IInv, TypeOK, BatchStep
<1>6. ASSUME NEW p \in Polls, polls[p].at = "answered", ~polls[p].active
      PROVE  Settled(polls[p].rows)'
  <2>1. polls[p].rows \in Int /\ Settled(polls[p].rows) BY <1>6 DEF IInv, TypeOK
  <2>2. polls'[p].rows = polls[p].rows BY <1>1
  <2> QED BY <2>1, <2>2, OverStays DEF Settled
<1>7. ASSUME ~page.active PROVE Settled(page.rows)'
  <2>1. page.rows \in Int /\ Settled(page.rows) BY <1>7 DEF IInv, TypeOK
  <2>2. page'.rows = page.rows BY <1>1
  <2> QED BY <2>1, <2>2, OverStays DEF Settled
<1> QED BY <1>1, <1>3, <1>4, <1>5, <1>6, <1>7 DEF IInv

\* What the polls and the page do to each other.
LEMMA PollInv ==
    ASSUME IInv, NEW p \in Polls, Tick(p) \/ Serve(p) \/ Handle(p)
    PROVE  IInv'
<1>1. UNCHANGED batchVars
  BY DEF Tick, Serve, ReadRow, ReadCounts, Fail, Handle, Show, ShowFailure
<1>2. \A r : Settled(r)' <=> Settled(r) BY <1>1 DEF Settled, batchVars
<1>3. polls[p] \in [at : {"idle", "sent", "row", "answered", "failed"},
                    active : BOOLEAN, stop : BOOLEAN, rows : 0..MaxRows]
  BY DEF IInv, TypeOK
<1>4. (polls[p].active => ~polls[p].stop) /\ (active => ~stop) BY DEF IInv
<1>5. ~active => Settled(recorded) BY DEF IInv, TypeOK, Settled
<1>6. CASE Tick(p)
  <2>1. polls' = [polls EXCEPT ![p] = Sent] /\ UNCHANGED <<timer, failures, page>>
    BY <1>6 DEF Tick
  <2>2. TypeOK' BY <2>1, <1>1 DEF IInv, TypeOK, Sent, Idle, Poll, batchVars
  <2> QED BY <2>1, <2>2, <1>1, <1>2 DEF IInv, TypeOK, Sent, Idle, Poll, batchVars
<1>7. CASE ReadRow(p)
  <2>1. /\ polls' = [polls EXCEPT ![p] = Poll("row", active, stop, 0)]
        /\ UNCHANGED <<timer, failures, page>>
    BY <1>7 DEF ReadRow
  <2>2. TypeOK' BY <2>1, <1>1, <1>3 DEF IInv, TypeOK, Poll, batchVars
  <2> QED BY <2>1, <2>2, <1>1, <1>2, <1>3, <1>4 DEF IInv, TypeOK, Poll, batchVars
<1>8. CASE ReadCounts(p)
  <2>1. /\ polls' = [polls EXCEPT ![p] = Poll("answered", polls[p].active, polls[p].stop,
                                           recorded)]
        /\ UNCHANGED <<timer, failures, page>> /\ polls[p].at = "row"
    BY <1>8 DEF ReadCounts
  <2>2. TypeOK' BY <2>1, <1>1, <1>3 DEF IInv, TypeOK, Poll, batchVars
  <2>3. ~polls[p].active => Settled(recorded) BY <2>1, <1>5 DEF IInv
  <2>4. ASSUME NEW q \in Polls, polls'[q].at = "answered", ~polls'[q].active
        PROVE  Settled(polls'[q].rows)
    BY <2>1, <2>3, <2>4, <1>3 DEF IInv, TypeOK, Poll
  <2>5. ASSUME NEW q \in Polls
        PROVE  /\ polls'[q].active => ~polls'[q].stop
               /\ polls'[q].at = "row" => (~polls'[q].active => ~active)
    BY <2>1, <1>3 DEF IInv, TypeOK, Poll
  <2> QED BY <2>1, <2>2, <2>4, <2>5, <1>1, <1>2 DEF IInv, batchVars
<1>9. CASE Fail(p)
  <2>1. polls' = [polls EXCEPT ![p] = Poll("failed", TRUE, FALSE, 0)] /\ UNCHANGED <<timer, failures, page>>
    BY <1>9 DEF Fail
  <2>2. TypeOK' BY <2>1, <1>1, <1>3 DEF IInv, TypeOK, Poll, batchVars
  <2> QED BY <2>1, <2>2, <1>1, <1>2, <1>3 DEF IInv, TypeOK, Poll, batchVars
<1>10. CASE Show(p)
  <2>1. /\ polls' = [polls EXCEPT ![p] = Idle] /\ polls[p].at = "answered"
        /\ page' = [active |-> polls[p].active, rows |-> polls[p].rows,
                    note |-> Note(polls[p])]
        /\ failures' = 0 /\ timer' = (timer /\ polls[p].active)
    BY <1>10 DEF Show
  <2>2. Note(polls[p]) \in {"over", "live"} BY <1>4, <1>3 DEF Note
  <2>3. TypeOK' BY <2>1, <2>2, <1>1, <1>3 DEF IInv, TypeOK, Idle, Poll, batchVars
  <2>4. ~page'.active => Settled(page'.rows) BY <2>1, <1>3 DEF IInv
  <2> QED BY <2>1, <2>3, <2>4, <1>1, <1>2, <1>3 DEF IInv, TypeOK, Idle, Poll, batchVars
<1>11. CASE ShowFailure(p)
  <2>1. /\ polls' = [polls EXCEPT ![p] = Idle]
        /\ failures' \in 0..FailureLimit /\ timer' \in BOOLEAN
        /\ page'.active = page.active /\ page'.rows = page.rows
        /\ page' \in [active : BOOLEAN, rows : 0..MaxRows,
                      note : {"live", "over", "failing", "gave_up"}]
    BY <1>11 DEF ShowFailure, IInv, TypeOK
  <2>2. TypeOK' BY <2>1, <1>1 DEF IInv, TypeOK, Idle, Poll, batchVars
  <2> QED BY <2>1, <2>2, <1>1, <1>2, <1>3 DEF IInv, TypeOK, Idle, Poll, batchVars
<1> QED BY <1>6, <1>7, <1>8, <1>9, <1>10, <1>11 DEF Serve, Handle

\* The batch and its pages keep IInv, whatever order the polls are answered in.
THEOREM PageInv == Spec => []IInv
<1>1. IInv /\ UNCHANGED vars => IInv'
  BY DEF IInv, TypeOK, Settled, vars, batchVars
<1>2. IInv /\ [Next]_vars => IInv'
  BY <1>1, BatchInv, PollInv DEF Next
<1> QED BY InitInv, <1>2, PTL DEF Spec

\* batch_detail.html 196: a page that shows the batch as over counts all its
\* rows, and after a stop all but at most one.
THEOREM OverPageIsNearlyExact == Spec => []OverIsNearlyExact
<1>1. IInv => OverIsNearlyExact
  BY DEF IInv, TypeOK, Settled, OverIsNearlyExact
<1> QED BY <1>1, PageInv, PTL
=============================================================================
