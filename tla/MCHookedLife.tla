---------------------------- MODULE MCHookedLife ----------------------------
(* HookedLife for TLC: a root, its child, and one job address.             *)
EXTENDS HookedLife

CONSTANTS j1

TwoTasks == {1, 2}
OneRunning == {1}
OneJob == {j1}
=============================================================================
