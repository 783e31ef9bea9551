------------------------- MODULE MCBatchProcessing -------------------------
(* Small sheets for BatchProcessing: each makes one kind of row meet another. *)
EXTENDS BatchClaims, TLC

CONSTANTS p1, p2,    \* two numbers
          c1, c2     \* two stop requests

Numbers == {p1, p2}
TwoStops == {c1, c2}
OneStop == {c1}

Ok(p) == [phone |-> p, renders |-> TRUE]
Unrendered(p) == [phone |-> p, renders |-> FALSE]
Invalid == [phone |-> NoPhone, renders |-> TRUE]

Sheet(rows, dry, skip, attached) ==
    [rows |-> rows, dry_run |-> dry, skip_duplicates |-> skip, attachment |-> attached]

\* A duplicate of a number that could not be rendered, a real duplicate, an
\* invalid number last, with and without skipping, really and dry.
Mixed == <<Unrendered(p1), Ok(p1), Ok(p1), Invalid>>
Pair == <<Ok(p1), Ok(p2)>>

SmallJobs == {Sheet(Mixed, FALSE, TRUE, FALSE),
              Sheet(<<Ok(p1), Ok(p1)>>, FALSE, FALSE, FALSE),
              Sheet(<<Ok(p1), Ok(p1), Invalid>>, TRUE, TRUE, TRUE),
              Sheet(Pair, FALSE, TRUE, TRUE),
              Sheet(<<>>, FALSE, TRUE, FALSE)}

OneJob == {Sheet(Pair, FALSE, TRUE, FALSE), Sheet(<<>>, FALSE, TRUE, FALSE)}
=============================================================================
