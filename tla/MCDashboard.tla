---------------------------- MODULE MCDashboard ----------------------------
(* Small files for Dashboard. *)
EXTENDS DashboardClaims, TLC

CONSTANTS p1, p2

Numbers == {p1, p2}

Ok(p) == [phone |-> p, renders |-> TRUE]
Unrendered(p) == [phone |-> p, renders |-> FALSE]
Invalid == [phone |-> NoPhone, renders |-> TRUE]

\* Three rows for three ranges; a row that does not render, on show and not,
\* before a row of its number; an invalid number and a duplicate; and a file
\* that ends before the ranges do.
SmallFiles == {<<Ok(p1)>>,
               <<Ok(p1), Ok(p1), Invalid>>,
               <<Unrendered(p1), Ok(p1), Ok(p2)>>,
               <<Ok(p2), Ok(p1), Unrendered(p1), Ok(p1)>>}
FewBounds == {0, 2}
FewLimits == {0, 1}
=============================================================================
