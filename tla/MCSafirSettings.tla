-------------------------- MODULE MCSafirSettings --------------------------
(* Three settings requests around one send; with and without an environment. *)
EXTENDS SafirSettings

CONSTANTS k1, k2, q1, q2, q3, s1

TwoKeys == {k1, k2}
ThreePosts == {q1, q2, q3}
OneSend == {s1}
OneBot == {1}
\* No .env; a complete one; one with a key only.
SomeEnvs == {[key |-> NoKey, bot |-> 0], [key |-> k1, bot |-> 1], [key |-> k1, bot |-> 0]}
=============================================================================
