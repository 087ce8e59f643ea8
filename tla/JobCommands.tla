----------------------------- MODULE JobCommands -----------------------------
(***************************************************************************)
(* What yasadmin promises its users, with no options, device, locks or     *)
(* memory: a command names a zone and a job; it takes effect on that job,  *)
(* and on no other, at one instant between its start and its end, and its  *)
(* result says whether there was such a job.                               *)
(***************************************************************************)
EXTENDS Naturals

CONSTANTS
    Clients,
    Jids,       \* the ids that jobs get
    Numbers     \* the numbers that a command can name

NoRequest == [op |-> "none", zone |-> 0, job |-> 0]

VARIABLES
    serving,    \* is the scheduler there to be asked?
    given,      \* the ids given out so far, none of them twice
    jobs,       \* the state of each job, "none" when there is no such job
    request,    \* what each client asks for
    result      \* "pending", "ok", or why not

vars == <<serving, given, jobs, request, result>>

\* What a command makes of a job's state.
Becomes(op, s) ==
    CASE op = "kill"    -> "KILLED"
      [] op = "suspend" -> "SUSPENDED"
      [] op = "resume"  -> IF s = "SUSPENDED" THEN "RUNNING" ELSE s

Exists(r) == r.zone = 0 /\ r.job \in Jids /\ jobs[r.job] # "none"

Init ==
    /\ serving = TRUE
    /\ given = {}
    /\ jobs = [i \in Jids |-> "none"]
    /\ request = [c \in Clients |-> NoRequest]
    /\ result = [c \in Clients |-> "pending"]

Ask(c, op, zone, job) ==
    /\ request[c] = NoRequest
    /\ request' = [request EXCEPT ![c] = [op |-> op, zone |-> zone, job |-> job]]
    /\ UNCHANGED <<serving, given, jobs, result>>

Pending(c) == request[c] # NoRequest /\ result[c] = "pending"

Outcome(c, r) ==
    /\ result' = [result EXCEPT ![c] = r]
    /\ UNCHANGED <<serving, given, request>>

Do(c) ==
    /\ Pending(c) /\ Exists(request[c])
    /\ jobs' = [jobs EXCEPT ![request[c].job] = Becomes(request[c].op, @)]
    /\ Outcome(c, "ok")

NoSuchJob(c) == Pending(c) /\ ~Exists(request[c]) /\ Outcome(c, "EINVAL") /\ UNCHANGED jobs

NotServed(c) == Pending(c) /\ ~serving /\ Outcome(c, "ENODEV") /\ UNCHANGED jobs

Return(c) ==
    /\ result[c] # "pending"
    /\ request' = [request EXCEPT ![c] = NoRequest]
    /\ result' = [result EXCEPT ![c] = "pending"]
    /\ UNCHANGED <<serving, given, jobs>>

JobBegins(i) ==
    /\ i \notin given
    /\ given' = given \cup {i}
    /\ jobs' = [jobs EXCEPT ![i] = "RUNNING"]
    /\ UNCHANGED <<serving, request, result>>

JobEnds(i) ==
    /\ jobs[i] # "none"
    /\ jobs' = [jobs EXCEPT ![i] = "none"]
    /\ UNCHANGED <<serving, given, request, result>>

StopServing == serving /\ serving' = FALSE /\ UNCHANGED <<given, jobs, request, result>>

Next ==
    \/ \E c \in Clients :
        \/ Do(c) \/ NoSuchJob(c) \/ NotServed(c) \/ Return(c)
        \/ \E op \in {"kill", "suspend", "resume"}, zone, job \in Numbers : Ask(c, op, zone, job)
    \/ \E i \in Jids : JobBegins(i) \/ JobEnds(i)
    \/ StopServing

Spec == Init /\ [][Next]_vars
=============================================================================
