----------------------------- MODULE MCJobControl -----------------------------
(* JobControl for TLC: two threads of the job.                             *)
EXTENDS JobControl

CONSTANTS t1, t2

OneThread == {t1}
TheOther == {t2}
TwoThreads == {t1, t2}
=============================================================================
