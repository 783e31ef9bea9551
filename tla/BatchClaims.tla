----------------------------- MODULE BatchClaims -----------------------------
(***************************************************************************)
(* What the tests of the repository say of a stopped batch, and the code   *)
(* of BatchProcessing does not keep in every interleaving.                 *)
(***************************************************************************)
EXTENDS BatchProcessing

NoRequestInFlight == \A c \in Cancellers : cancel_pc[c] \notin InFlight

\* tests.py lines 298-299: a batch whose stop was requested ends CANCELLED.  The
\* thread decides by the flag it read last, so a stop registered after that
\* read is overwritten.
StoppedBatchEndsCancelled ==
    (pc = "returned" /\ NoRequestInFlight /\ batch.cancel_requested)
        => batch.status = "cancelled"
=============================================================================
