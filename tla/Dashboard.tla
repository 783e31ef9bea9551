----------------------------- MODULE Dashboard -----------------------------
(***************************************************************************)
(* The dashboard page (views.py dashboard): one saved file is sent in one  *)
(* or several batches.  The operator submits the form for a preview or to  *)
(* create a batch, and asks a batch's page for "the next range of this     *)
(* file", which fills the form from that batch.                            *)
(*                                                                         *)
(* The life of a batch is BatchLife, which BatchProcessing keeps to; it    *)
(* records the rows of its selection in order.                             *)
(***************************************************************************)
EXTENDS SheetRows

CONSTANTS Sheets,       \* the files to consider, each the rows it yields
          Bounds,       \* values the operator types as range_start, range_end
          Limits,       \* values the operator types as limit
          MaxBatches,   \* how many batches are created
          MaxOpen,      \* how many of them may be under way together
          MaxFaults     \* how many failures happen

ASSUME SheetsAssumption == Sheets \subseteq Seq(Item)
ASSUME BoundsAssumption == Bounds \subseteq Nat /\ Limits \subseteq Nat
                            /\ 0 \in Bounds /\ 0 \in Limits
ASSUME MaxAssumption == MaxBatches \in Nat /\ MaxOpen \in Nat /\ MaxFaults \in Nat

VARIABLES
    sheet,      \* the rows of the saved file
    form,       \* the form on the page
    batches,    \* the MessageBatch rows, in order of creation
    faults

vars == <<sheet, form, batches, faults>>

Life == INSTANCE BatchLife

\* from: the batch this is offered as the next range of (0: none, also once
\* the operator has changed range_start).  settled: that batch had ended, and
\* its stop request been answered, when the form was offered.
FreshForm == [start |-> 0, end |-> 0, limit |-> 0, skip |-> TRUE,
              from |-> 0, settled |-> FALSE]

Init ==
    /\ sheet \in Sheets
    /\ form = FreshForm
    /\ batches = <<>>
    /\ faults = 0

-----------------------------------------------------------------------------
\* UploadExcelForm.clean; the other fields are left out.
FormIsValid(f) == f.start # 0 /\ f.end # 0 => f.end >= f.start

\* What the operator may submit: the page's form as it is or with another
\* end and limit, or a form typed in.
FilledIn(e, l) == [form EXCEPT !.end = e, !.limit = l]
TypedIn(b, e, l, s) == [FreshForm EXCEPT !.start = b, !.end = e, !.limit = l, !.skip = s]

RangeOf(f) == ApplyDataRange(sheet, f.start, f.end)
SelectionOf(f) == Limited(RangeOf(f), f.limit)

\* action = preview: what the page shows for a form.  The limit is not applied.
\* A preview changes nothing but the page, and the file never changes, so it
\* is a function of the form.
HasPreview(f) == FormIsValid(f) /\ Previewable(RangeOf(f))
PreviewOf(f) == PreviewCounts(RangeOf(f))

Settled(b) == /\ batches[b].life.phase \in Life!Over
              /\ batches[b].life.stop \in {"none", "done"}

\* Bounds.
MayCreate == Len(batches) < MaxBatches
             /\ Cardinality({b \in DOMAIN batches : ~Settled(b)}) < MaxOpen

\* action = send: the batch is created and its thread started on commit; the
\* operator is sent to the batch's page.  (What a real send needs of the
\* settings: SafirSettings!Accept.)
Send(f) ==
    /\ FormIsValid(f)
    /\ MayCreate
    /\ batches' = Append(batches, [form |-> f, life |-> Life!NewLife])
    /\ form' = FreshForm
    /\ UNCHANGED <<sheet, faults>>

\* Mutant: the offer starts at the last row that was recorded.
NextStartAtLast(b) ==
    LET f == batches[b].form
        total == batches[b].life.total_rows
    IN  IF f.end # 0 THEN f.end
        ELSE IF f.start # 0 /\ total # 0 THEN f.start + total - 1
        ELSE total

\* Mutant: the start of the range is forgotten.
NextStartWithoutStart(b) ==
    IF batches[b].form.end # 0 THEN batches[b].form.end + 1
    ELSE batches[b].life.total_rows + 1

\* next_start of the dashboard.
NextStart(b) ==
    LET f == batches[b].form
        total == batches[b].life.total_rows
    IN  IF f.end # 0 THEN f.end + 1
        ELSE IF f.start # 0 /\ total # 0 THEN f.start + total
        ELSE total + 1

\* GET ?reuse_batch=b, at any time: the end is left empty, the rest is kept.
\* (Bound: an offer nobody can send any more is not made.)
Reuse(b) ==
    /\ Len(batches) < MaxBatches
    /\ form' = [batches[b].form EXCEPT !.start = NextStart(b), !.end = 0,
                                       !.from = b, !.settled = Settled(b)]
    /\ UNCHANGED <<sheet, batches, faults>>

-----------------------------------------------------------------------------
\* The life of a batch.

\* Mutant: the limit is not applied.
RowsWithoutLimit(b) == Len(RangeOf(batches[b].form))

\* How many rows the thread goes through.
RowsToGo(b) == Len(SelectionOf(batches[b].form))

Becomes(b, lives) ==
    /\ \E l \in lives : batches' = [batches EXCEPT ![b].life = l]
    /\ UNCHANGED <<sheet, form>>

Process(b) ==
    LET l == batches[b].life
        n == RowsToGo(b)
    IN  /\ Becomes(b, UNION {Life!TakeUp(l, n), Life!Record(l), Life!Leave(l, n),
                             Life!Close(l), Life!SaveTotal(l), Life!End(l)})
        /\ UNCHANGED faults

\* One stop request per batch.
Stop(b) ==
    LET l == batches[b].life
    IN  /\ Becomes(b, UNION {Life!StopAccept(l), Life!StopSave(l),
                             Life!StopCount(l), Life!StopTotal(l)})
        /\ UNCHANGED faults

\* An unreadable sheet or a refused upload, before the first row.
Refused(b) ==
    /\ batches[b].life.phase = "active" /\ batches[b].life.recorded = 0
    /\ Becomes(b, Life!Raise(batches[b].life))
    /\ UNCHANGED faults

\* The thread, the request or the server fails.
Fail(b) ==
    LET l == batches[b].life
    IN  /\ faults < MaxFaults /\ faults' = faults + 1
        /\ Becomes(b, UNION {Life!Raise(l), Life!Lose(l), Life!StopFails(l),
                             Life!Restart(l)} \ {l})

Next ==
    \/ \E e \in Bounds, l \in Limits :
          \/ Send(FilledIn(e, l))
          \/ \E b \in Bounds, s \in BOOLEAN : Send(TypedIn(b, e, l, s))
    \/ \E b \in DOMAIN batches :
          Reuse(b) \/ Process(b) \/ Stop(b) \/ Refused(b) \/ Fail(b)

Spec == Init /\ [][Next]_vars

-----------------------------------------------------------------------------
(* Properties.                                                             *)

\* The sheet rows batch b has recorded.
LastOf(b) == FirstOf(batches[b].form.start) + batches[b].life.recorded - 1
RowsOf(b) == FirstOf(batches[b].form.start)..LastOf(b)

\* The batch b was offered after, when that one was over; 0 if none.
Before(b) == IF batches[b].form.settled THEN batches[b].form.from ELSE 0

\* b and the batches before it, each sent from the next range the one before
\* it offered.
Chain ==
    LET chain[b \in 0..Len(batches)] ==
          IF b = 0 THEN {} ELSE {b} \cup chain[Before(b)]
    IN  chain

\* The form, the preview and the batches hold values of their types, and a
\* batch has recorded no more than it selected.
TypeOK ==
    LET Form == [start : Nat, end : Bounds, limit : Limits,
                 skip : BOOLEAN, from : 0..Len(batches), settled : BOOLEAN]
    IN  /\ sheet \in Sheets
        /\ form \in Form
        /\ Len(batches) <= MaxBatches
        /\ \A b \in DOMAIN batches :
              /\ batches[b] \in
                   [form : Form, life : Life!Lives(Len(SelectionOf(batches[b].form)))]
              /\ batches[b].form.from < b
        /\ faults \in 0..MaxFaults

\* A batch that went through: nobody stopped it, it recorded something, and no
\* limit left rows of a range with an end.
WentThrough(b) ==
    /\ batches[b].life.phase = "finished" /\ batches[b].life.stop = "none"
    /\ batches[b].life.recorded > 0
    /\ batches[b].form.end # 0 =>
          SelectionOf(batches[b].form) = RangeOf(batches[b].form)

\* batch_detail.html line 14, "send the next range of this file": batches sent
\* one after the other that way, each after the one before went through, send
\* no row twice and leave none out.
ChainIsSeamless ==
    \A b \in DOMAIN batches :
        LET C == Chain[b] IN
        (\A a \in C \ {b} : WentThrough(a)) =>
            /\ \A a, c \in C : a # c => RowsOf(a) \cap RowsOf(c) = {}
            /\ \A a \in C, r \in DOMAIN sheet :
                  r \in FirstOf(batches[a].form.start)..LastOf(b) =>
                      \E c \in C : r \in RowsOf(c)

\* Whatever stops or failures a batch without an end met, the range offered
\* after it leaves out no row and sends at most one again, provided its totals
\* show some row.  (A stop can save a count that is one row old.)
NextRangeRepeatsAtMostOneRow ==
    \A b \in DOMAIN batches :
        LET a == Before(b) IN
        (/\ a # 0
         /\ batches[a].form.end = 0
         /\ batches[a].life.phase # "lost"
         /\ batches[a].life.total_rows > 0) =>
            FirstOf(batches[b].form.start) \in {LastOf(a), LastOf(a) + 1}

\* How many rows batch b has recorded with the outcome s.
RecordedAs(b, s) ==
    LET status == Outcomes(SelectionOf(batches[b].form), batches[b].form.skip)
    IN  Cardinality({k \in 1..batches[b].life.recorded : status[k] = s})

\* views.py 115-116: the cost estimate is the price times valid_rows.  With
\* duplicates skipped no batch sends more messages than are priced, whatever
\* its limit, its end or the rows that do not render.  Without skipping the
\* estimate falls short: the previewed duplicates are sent and not priced; that
\* it is short of no more than those is all that holds.
EstimateCoversSends ==
    \A b \in DOMAIN batches :
        LET f == batches[b].form
            sends == RecordedAs(b, "send")
        IN  HasPreview(f) =>
              /\ f.skip => sends <= PreviewOf(f).valid
              /\ ~f.skip => sends <= PreviewOf(f).valid + PreviewOf(f).duplicate

\* README line 12: the preview tells the invalid and duplicate numbers before
\* sending.  A whole range whose rows all render is recorded exactly so.
FullRunMatchesPreview ==
    \A b \in DOMAIN batches :
        LET f == batches[b].form
        IN  (/\ f.limit = 0 /\ f.skip
             /\ batches[b].life.recorded = Len(RangeOf(f))
             /\ \A k \in DOMAIN RangeOf(f) : RangeOf(f)[k].renders) =>
                 /\ RecordedAs(b, "send") = PreviewOf(f).valid
                 /\ RecordedAs(b, "invalid_phone") = PreviewOf(f).invalid
                 /\ RecordedAs(b, "duplicate") = PreviewOf(f).duplicate
=============================================================================
