----------------------------- MODULE MCInception -----------------------------
(* Inception for TLC: a few tasks that run into the hooks.                 *)
EXTENDS Inception

CONSTANTS t1, t2, t3

OneTask == {t1}
ThreeTasks == {t1, t2, t3}
=============================================================================
