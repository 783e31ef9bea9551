---------------------------- MODULE SafirClaims ----------------------------
(* What README.md says of the retries, and the code does not do.           *)
EXTENDS SafirClient

\* README lines 17 and 101-102: an HTTP 5xx is tried again.  core.py 667-678
\* lists 500, 502, 503 and 504; any other is given up at the first answer.
ServerErrorsAreRetried ==
    (pc = "returned" /\ last_result.http \in 500..599)
        => last_result.retry_count = max_retries
=============================================================================
