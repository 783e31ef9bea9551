--------------------------- MODULE StoppableBatch ---------------------------
(***************************************************************************)
(* What the batch page promises the operator who watches a batch and may   *)
(* press stop (templates/bale_sender/batch_detail.html lines 32-40 and     *)
(* 178-214, views.py batch_live_status):                                   *)
(*   - the batch is shown as active until it ends or is stopped, and never *)
(*     becomes active again;                                               *)
(*   - rows are recorded only while it is active, except for the one row   *)
(*     the worker was about to record when the stop was registered.        *)
(* BatchProcessing implements it: BatchProcessing!Contract.                *)
(***************************************************************************)
EXTENDS Naturals

VARIABLES active,    \* the live status answers is_active
          stop,      \* a stop has been registered
          recorded,  \* how many rows have been recorded
          grace      \* a row is about to be recorded

vars == <<active, stop, recorded, grace>>

Init == active = TRUE /\ stop = FALSE /\ recorded = 0 /\ grace = FALSE

\* The worker takes up the next row; after a stop it never does.
TakeUp ==
    /\ active /\ ~stop /\ ~grace
    /\ grace' = TRUE
    /\ UNCHANGED <<active, stop, recorded>>

\* The row taken up is recorded, whether or not a stop came in between.
Record ==
    /\ grace
    /\ grace' = FALSE
    /\ recorded' = recorded + 1
    /\ UNCHANGED <<active, stop>>

\* The row taken up is abandoned: the worker failed or was killed.
Abandon ==
    /\ grace
    /\ grace' = FALSE
    /\ UNCHANGED <<active, stop, recorded>>

\* The operator's stop is registered, on an active batch or just after its end.
Stop ==
    /\ stop' = TRUE
    /\ active' = FALSE
    /\ UNCHANGED <<recorded, grace>>

\* The batch ends by itself, with no row left in hand.
End ==
    /\ ~grace
    /\ active' = FALSE
    /\ UNCHANGED <<stop, recorded, grace>>

Next == TakeUp \/ Record \/ Abandon \/ Stop \/ End

Spec == Init /\ [][Next]_vars
=============================================================================
