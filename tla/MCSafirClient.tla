--------------------------- MODULE MCSafirClient ---------------------------
(* SafirClient with one HTTP status per branch of the two tables, and one   *)
(* server error that is in neither.                                        *)
EXTENDS SafirClaims

SomeStatuses == {200, 400, 402, 429, 500, 501}
=============================================================================
