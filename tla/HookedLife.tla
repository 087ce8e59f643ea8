------------------------------ MODULE HookedLife ------------------------------
(***************************************************************************)
(* JobLife while the hooks go in and out one by one (lkm/inception.c): what*)
(* tasks do at a switch point that is not redirected yet, or no more, goes *)
(* past the module, although jobs, links, entries and counts exist.        *)
(***************************************************************************)
EXTENDS JobLife, Sequences

VARIABLES
    hooks,      \* the switch points that are redirected
    steps       \* the exchanges done so far, of the installation and the removal

hookedVars == <<vars, hooks, steps>>

\* perform_inception and remove_inception, as far as jobs and members change;
\* clone, fork and vfork stand for switch_do_fork's three points.
InstallOrder == <<"execve", "tail", "exit", "clone", "fork", "vfork">>
RemoveOrder == <<"clone", "fork", "vfork", "exit", "tail", "execve">>

InitHooked == Init /\ hooks = {} /\ steps = 0

InstallNext ==
    /\ steps < 6
    /\ hooks' = hooks \cup {InstallOrder[steps + 1]}
    /\ steps' = steps + 1
    /\ UNCHANGED vars

\* rmmod may come at any time after insmod.
RemoveNext ==
    /\ steps \in 6 .. 11
    /\ hooks' = hooks \ {RemoveOrder[steps - 5]}
    /\ steps' = steps + 1
    /\ UNCHANGED vars

-----------------------------------------------------------------------------
(* The kernel's own execve, fork, schedule_tail and exit.                  *)

RawExecve(t) ==
    /\ MayExecve(t) /\ Siblings(t) = {}
    /\ pid' = [pid EXCEPT ![t] = tgid[t]]
    /\ link' = [link EXCEPT ![tgid[t]] = NoJob]
    /\ UNCHANGED <<pc, tgid, loc, entry, slot, tproc, jobVars>>

\* The parent's job is not told, but the child has a copy of the link.
RawFork(t, c, thread) ==
    /\ pc[t] = "user" /\ pc[c] = "unborn"
    /\ tgid' = [tgid EXCEPT ![c] = IF thread THEN tgid[t] ELSE c]
    /\ link' = IF thread THEN link ELSE [link EXCEPT ![c] = search_job_by_task(t)]
    /\ Goto(c, "newborn")
    /\ UNCHANGED <<pid, loc, entry, slot, tproc, jobVars>>

RawScheduleTail(t) ==
    /\ pc[t] = "newborn"
    /\ Goto(t, "user")
    /\ UNCHANGED <<taskVars, link, loc, entry, tproc, jobVars>>

RawExit(t) ==
    /\ pc[t] \in {"user", "oops"}
    /\ Goto(t, "exiting")
    /\ UNCHANGED <<taskVars, link, loc, entry, tproc, jobVars>>

\* A step that enters the module at switch point p, or passes it by.
At(p, Agent, Raw) == (p \in hooks /\ Agent) \/ (p \notin hooks /\ Raw)

\* What a task does once it is in an agent, or in the kernel past a hook.
Inside(t) ==
    \/ PublishJob(t) \/ JobProcfs(t) \/ KernelExecve(t) \/ KernelExecveFails(t) \/ InitTsi(t)
    \/ (\E c \in Tasks, thread \in BOOLEAN : ForkChild(t, c, thread)) \/ ForkFails(t) \/ ForkPut(t)
    \/ ThreadProcfs(t)
    \/ FiniThread(t) \/ PutThread(t) \/ UnlistJob(t) \/ FreeJob(t) \/ ExitMm(t)

HookedTask(t) ==
    \/ At("execve", ExistingJob(t) \/ NonJob(t) \/ \E j \in Jobs : NewJob(t, j), RawExecve(t))
    \/ \E p \in {"clone", "fork", "vfork"} :
        At(p, ForkEnter(t),
           \E c \in Tasks, thread \in BOOLEAN : (thread => p = "clone") /\ RawFork(t, c, thread))
    \/ At("tail", ScheduleTail(t) \/ ScheduleTailNoMemory(t), RawScheduleTail(t))
    \/ At("exit", ExitDetach(t) \/ ExitNoThread(t), RawExit(t))
    \/ Inside(t)

NextHooked ==
    \/ InstallNext \/ RemoveNext
    \/ \E t \in Tasks : HookedTask(t) /\ UNCHANGED <<hooks, steps>>

SpecHooked == InitHooked /\ [][NextHooked]_hookedVars

-----------------------------------------------------------------------------
(* README.md:3 "The hook can be inserted and removed on-the-fly.": as with *)
(* all hooks in, a member's job stays allocated until the member has left  *)
(* it in its exit hook.                                                    *)
MemberSafeOnTheFly == MemberJobAllocated
=============================================================================
