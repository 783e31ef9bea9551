----------------------------- MODULE MCLivePage -----------------------------
(* Two polls under way together, for LivePage. *)
EXTENDS LivePage, TLC

CONSTANTS p1, p2
=============================================================================
