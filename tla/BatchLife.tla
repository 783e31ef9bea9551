----------------------------- MODULE BatchLife -----------------------------
(***************************************************************************)
(* What other pages see of a batch while it is processed and stopped: the  *)
(* rows it has recorded and the total_rows column (core.py                 *)
(* process_excel_batch, cancel_batch_immediately, _refresh_totals), with   *)
(* one stop request.  BatchProcessing is shown to keep to it, Dashboard    *)
(* uses it for its batches.                                                *)
(*                                                                         *)
(* A life is a record; each operator is the set of lives that may come     *)
(* next, empty where the step is not possible.                             *)
(***************************************************************************)
EXTENDS Naturals

\* ending: the loop is left; counted: total_rows is written; failing, noted:
\* the same in the exception handler; the last three have no thread.
Phases == {"active", "ending", "counted", "failing", "noted",
           "finished", "failed", "lost"}
Over == {"finished", "failed", "lost"}

\* How far the stop request is: none, its status test passed, cancel_requested
\* saved, rows counted, total_rows written (or given up after the save).
Stops == {"none", "accepted", "saved", "counted", "done"}

\* in_hand: the rows (0 or 1) that will be recorded whatever happens to the flag.
NewLife == [phase |-> "active", recorded |-> 0, in_hand |-> 0,
            stop |-> "none", counted |-> 0, total_rows |-> 0]

\* The lives of a batch of n rows.
Lives(n) == [phase : Phases, recorded : 0..n, in_hand : {0, 1}, stop : Stops,
             counted : 0..n, total_rows : 0..n]

Stopped(l) == l.stop \in {"saved", "counted", "done"}

When(guard, m) == IF guard THEN {m} ELSE {}

-----------------------------------------------------------------------------
(* The thread of a batch whose selection has n rows.                       *)

TakeUp(l, n) ==
    When(l.phase = "active" /\ l.in_hand = 0 /\ ~Stopped(l) /\ l.recorded < n,
         [l EXCEPT !.in_hand = 1])

Record(l) ==
    When(l.phase = "active" /\ l.in_hand = 1,
         [l EXCEPT !.in_hand = 0, !.recorded = @ + 1])

\* The rows are all there, or the flag was seen: in the loop, or before the
\* batch was announced, where nothing but the status is written.
Leave(l, n) ==
    When(l.phase = "active" /\ l.in_hand = 0 /\ (Stopped(l) \/ l.recorded = n),
         [l EXCEPT !.phase = "ending"])
Close(l) ==
    When(l.phase = "active" /\ l.in_hand = 0 /\ Stopped(l) /\ l.recorded = 0,
         [l EXCEPT !.phase = "finished"])

\* An exception inside the try block.
Raise(l) ==
    When(l.phase \in {"active", "ending", "counted"},
         [l EXCEPT !.phase = "failing", !.in_hand = 0])

\* _refresh_totals.
SaveTotal(l) ==
    When(l.phase = "ending", [l EXCEPT !.phase = "counted", !.total_rows = l.recorded])
    \cup
    When(l.phase = "failing", [l EXCEPT !.phase = "noted", !.total_rows = l.recorded])

\* The final status.
End(l) ==
    When(l.phase = "counted", [l EXCEPT !.phase = "finished"])
    \cup When(l.phase = "noted", [l EXCEPT !.phase = "failed"])

-----------------------------------------------------------------------------
(* The stop request.                                                       *)

\* The status is that of a running batch until its end is saved.
StopAccept(l) ==
    When(l.phase \notin {"finished", "failed"} /\ l.stop = "none",
         [l EXCEPT !.stop = "accepted"])

StopSave(l) == When(l.stop = "accepted", [l EXCEPT !.stop = "saved"])

StopCount(l) ==
    When(l.stop = "saved", [l EXCEPT !.stop = "counted", !.counted = l.recorded])

StopTotal(l) ==
    When(l.stop = "counted",
         [l EXCEPT !.stop = "done", !.total_rows = l.counted, !.counted = 0])

-----------------------------------------------------------------------------
(* Failures.                                                               *)

\* The thread is gone, its row in hand with it.
WithoutThread(l) ==
    IF l.phase \in Over THEN l ELSE [l EXCEPT !.phase = "lost", !.in_hand = 0]

\* A request is gone; without the flag it is as if never posted.
WithoutStop(l) ==
    IF l.stop = "accepted" THEN [l EXCEPT !.stop = "none"]
    ELSE IF Stopped(l) THEN [l EXCEPT !.stop = "done", !.counted = 0]
    ELSE l

Lose(l) == {WithoutThread(l)}
StopFails(l) == {WithoutStop(l)}
Restart(l) == {WithoutThread(WithoutStop(l))}

-----------------------------------------------------------------------------
\* Every step of a batch's life.
LifeSteps(l, n) ==
    UNION {TakeUp(l, n), Record(l), Leave(l, n), Close(l), Raise(l), SaveTotal(l),
           End(l), StopAccept(l), StopSave(l), StopCount(l), StopTotal(l),
           Lose(l), StopFails(l), Restart(l)}
=============================================================================
