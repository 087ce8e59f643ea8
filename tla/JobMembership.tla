---------------------------- MODULE JobMembership ----------------------------
(***************************************************************************)
(* What the job life cycle of yasched promises, with no hooks, counters or *)
(* memory: a task is a member of at most one job; it founds one, or it is  *)
(* born into its parent's; it stays until it leaves; and a job object is   *)
(* given up only when it has no member.                                    *)
(***************************************************************************)
CONSTANTS Tasks, Jobs, NoJob

VARIABLES
    exists,     \* the jobs there are
    job         \* the job each task is a member of

vars == <<exists, job>>

Init == exists = {} /\ job = [t \in Tasks |-> NoJob]

Found(t, j) ==
    /\ job[t] = NoJob /\ j \notin exists
    /\ exists' = exists \cup {j}
    /\ job' = [job EXCEPT ![t] = j]

Join(parent, child) ==
    /\ job[parent] # NoJob /\ job[child] = NoJob
    /\ job' = [job EXCEPT ![child] = job[parent]]
    /\ UNCHANGED exists

Leave(t) ==
    /\ job[t] # NoJob
    /\ job' = [job EXCEPT ![t] = NoJob]
    /\ UNCHANGED exists

Reclaim(j) ==
    /\ j \in exists
    /\ \A t \in Tasks : job[t] # j
    /\ exists' = exists \ {j}
    /\ UNCHANGED job

Next == \/ \E t \in Tasks : Leave(t) \/ \E j \in Jobs : Found(t, j)
        \/ \E parent, child \in Tasks : Join(parent, child)
        \/ \E j \in Jobs : Reclaim(j)

Spec == Init /\ [][Next]_vars
=============================================================================
