------------------------------ MODULE MCJobLife ------------------------------
(* JobLife for TLC: small sets of tasks and job addresses.                 *)
EXTENDS JobLife

CONSTANTS j1, j2

ThreeTasks == {1, 2, 3}
FourTasks == {1, 2, 3, 4}
OneRunning == {1}
TwoRunning == {1, 2}
OneJob == {j1}
TwoJobs == {j1, j2}
=============================================================================
