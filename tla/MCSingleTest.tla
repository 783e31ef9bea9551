---------------------------- MODULE MCSingleTest ----------------------------
(* Two ends of a send and two stop requests for SingleTest. *)
EXTENDS SingleTest, TLC

CONSTANTS s1, s2

Answers == {"sent", "failed"}
TwoStops == {s1, s2}
Alike == Permutations(TwoStops)
=============================================================================
