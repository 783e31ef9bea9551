-------------------------- MODULE DashboardClaims --------------------------
(* What the batch page says of the next range, and the code does not keep.  *)
EXTENDS Dashboard

\* batch_detail.html line 14 offers "send the next range of this same file":
\* the range offered after a batch that has finished or was stopped with rows
\* of the file still to come leaves none of them out.
NextRangeIsNext ==
    \A b \in DOMAIN batches :
        LET a == Before(b) IN
        (/\ a # 0
         /\ batches[a].life.phase = "finished"
         /\ batches[a].life.recorded > 0
         /\ LastOf(a) < Len(sheet)) =>
            FirstOf(batches[b].form.start) <= LastOf(a) + 1
=============================================================================
