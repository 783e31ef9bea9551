----------------------------- MODULE SheetRows -----------------------------
(***************************************************************************)
(* What happens to the rows of a sheet on their way to Safir: the range a  *)
(* batch selects (core.py _apply_data_range and limit), the preview of a   *)
(* range (core.py build_excel_preview), and what the processing records    *)
(* for it (core.py process_excel_batch).  Pure operators; a row is its     *)
(* number and whether its message can be built.                            *)
(***************************************************************************)
EXTENDS Integers, Sequences, FiniteSets

CONSTANTS Phones,       \* normalised phone numbers
          NoPhone,      \* the cell holds no valid Iranian mobile number
          PreviewRows   \* how many rows the preview shows

ASSUME PreviewRowsAssumption == PreviewRows \in Nat
ASSUME NoPhoneAssumption == NoPhone \notin Phones

Item == [phone : Phones \cup {NoPhone}, renders : BOOLEAN]

Least(m, n) == IF m < n THEN m ELSE n
Most(m, n) == IF m > n THEN m ELSE n

-----------------------------------------------------------------------------
\* A field left empty is 0: the form takes numbers from 1 on.

\* The first sheet row of a range.
FirstOf(start) == Most(start, 1)

ApplyDataRange(rows, start, end) ==
    SubSeq(rows, FirstOf(start),
           IF end = 0 THEN Len(rows) ELSE Least(end, Len(rows)))

Limited(rows, limit) ==
    IF limit = 0 THEN rows ELSE SubSeq(rows, 1, Least(limit, Len(rows)))

-----------------------------------------------------------------------------
\* The preview: numbers are remembered from every row that has one.
PreviewStatus(rows, k) ==
    IF rows[k].phone = NoPhone THEN "invalid_phone"
    ELSE IF \E j \in 1..k-1 : rows[j].phone = rows[k].phone THEN "duplicate"
    ELSE "ok"

CountOf(rows, status) ==
    Cardinality({k \in DOMAIN rows : PreviewStatus(rows, k) = status})

\* Mutant: only the rows on show are counted.
PreviewOfShown(rows) ==
    LET shown == SubSeq(rows, 1, Least(PreviewRows, Len(rows)))
    IN [valid |-> CountOf(shown, "ok"),
        invalid |-> CountOf(shown, "invalid_phone"),
        duplicate |-> CountOf(shown, "duplicate")]

PreviewCounts(rows) ==
    [valid |-> CountOf(rows, "ok"),
     invalid |-> CountOf(rows, "invalid_phone"),
     duplicate |-> CountOf(rows, "duplicate")]

\* Only the rows on show are rendered; one that does not render refuses the
\* whole preview.
Previewable(rows) ==
    \A k \in 1..Least(PreviewRows, Len(rows)) : rows[k].renders

-----------------------------------------------------------------------------
\* The processing: seen[k] is what the loop has remembered after k rows, only
\* of the rows it sends, or in a dry run would send.
Outcome(row, seen, skip) ==
    IF ~row.renders THEN "failed"
    ELSE IF row.phone = NoPhone THEN "invalid_phone"
    ELSE IF skip /\ row.phone \in seen THEN "duplicate"
    ELSE "send"

\* Mutant: a number is never remembered.
SeenNever(rows, skip) == [k \in 0..Len(rows) |-> {}]

SeenAfter(rows, skip) ==
    LET seen[k \in 0..Len(rows)] ==
          IF k = 0 THEN {}
          ELSE IF Outcome(rows[k], seen[k-1], skip) = "send"
                 THEN seen[k-1] \cup {rows[k].phone}
                 ELSE seen[k-1]
    IN  seen

\* The statuses the processing gives to the rows of a selection.
Outcomes(rows, skip) ==
    LET seen == SeenAfter(rows, skip)
    IN  [k \in DOMAIN rows |-> Outcome(rows[k], seen[k-1], skip)]
=============================================================================
