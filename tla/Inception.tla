------------------------------- MODULE Inception -------------------------------
(***************************************************************************)
(* Loading and unloading yasched: the resources that yasched_init acquires *)
(* (lkm/main.c, lkm/yacdev.c, lkm/sched/sched.c), the switch points in the *)
(* kernel's text that perform_inception redirects to the module's agents,  *)
(* the roll-back of both, and remove_inception with its wait for the       *)
(* agents under way (lkm/inception.c, lkm/arch/x86_64).                    *)
(*                                                                         *)
(* One loader works through the stages; meanwhile any task may run into a  *)
(* redirected switch point and through an agent.  Every agent adds a       *)
(* constant of its own to ya_count and subtracts it again; as all of them  *)
(* are positive, 1 stands for each.  A task is in one agent at a time here:*)
(* an agent nested in another one is gone before the outer one is.  How a  *)
(* switch point is found in the machine code is left to the kernel.        *)
(***************************************************************************)
EXTENDS Integers, FiniteSets

CONSTANTS
    Tasks,          \* the tasks that may run into a switch point
    SearchMayFail,  \* may a switch point not be found in the kernel's text?
    AgentsMayDie    \* may a task oops in an agent, as in ya_del_job (sched.c:345)?

ASSUME TasksAssumption == IsFiniteSet(Tasks)
ASSUME SwitchesAssumption ==
    SearchMayFail \in BOOLEAN /\ AgentsMayDie \in BOOLEAN

VARIABLES
    stage,      \* what the loader does next
    pos,        \* in stages "install" and "restore": the position in the order
    outcome,    \* "none", or why the module goes: "no_init", "no_hooks", "removed"
    held,       \* the resources acquired and not released
    text,       \* what each switch point in the kernel's text leads to
    saved,      \* the module's copy of the other value, "null" before it has one
    ya_count,   \* the agents under way, by their own account
    loaded,     \* is the module's text in memory?
    at,         \* where each task is
    late        \* history: who was in the module's text, but not in ya_count, when
                \* remove_inception stopped waiting

loaderVars == <<stage, pos, outcome>>
hookVars   == <<text, saved>>
taskVars   == <<ya_count, at>>
vars == <<stage, pos, outcome, held, text, saved, ya_count, loaded, at, late>>

\* The switch points.
Points == {"execve", "pgfault", "timer", "tail", "enter", "leave", "exit",
           "clone", "fork", "vfork"}

N == 10

ForkPoints == {"clone", "fork", "vfork"}

\* perform_inception; switch_schedule_call does nothing, switch_do_fork has three.
InstallOrder == <<"execve", "pgfault", "timer", "tail", "enter", "leave", "exit",
                  "clone", "fork", "vfork">>

\* Mutant: the exit hook goes before the fork points, as in a plain reversal.
RestoreOrder_ExitFirst == <<"exit", "clone", "fork", "vfork",
                            "leave", "enter", "tail", "timer", "pgfault", "execve">>

\* remove_inception; restore_do_fork keeps the order of switch_do_fork.
RestoreOrder == <<"clone", "fork", "vfork",
                  "exit", "leave", "enter", "tail", "timer", "pgfault", "execve">>

Resources == {"region", "cdev", "proc_root", "proc_zone", "job_cache", "thread_cache"}

Stages == {"region", "cdev", "proc_root", "zone", "job_cache", "thread_cache", "install",
           "running", "restore", "drain", "exit_sched", "fini_procfs", "destroy_cdev",
           "free", "gone"}

Places == {"kernel", "entering", "agent", "leaving", "oopsed"}

TypeOK ==
    /\ stage \in Stages
    /\ pos \in 1..(N + 1)
    /\ outcome \in {"none", "no_init", "no_hooks", "removed"}
    /\ held \subseteq Resources
    /\ text \in [Points -> {"kernel", "module"}]
    /\ saved \in [Points -> {"null", "kernel", "module"}]
    /\ ya_count \in Nat
    /\ loaded \in BOOLEAN
    /\ at \in [Tasks -> Places]
    /\ late \subseteq Tasks

\* insmod has loaded the module and calls yasched_init.
Init ==
    /\ stage = "region"
    /\ pos = 1
    /\ outcome = "none"
    /\ held = {}
    /\ text = [p \in Points |-> "kernel"]
    /\ saved = [p \in Points |-> "null"]
    /\ ya_count = 0
    /\ loaded = TRUE
    /\ at = [t \in Tasks |-> "kernel"]
    /\ late = {}

-----------------------------------------------------------------------------
(* yasched_init up to perform_inception.                                   *)

\* The stage succeeds and acquires r.
Acquire(s, r, next) ==
    /\ stage = s
    /\ held' = held \cup {r}
    /\ stage' = next
    /\ UNCHANGED <<pos, outcome, hookVars, taskVars, loaded, late>>

\* The stage fails; yasched_init jumps to the label "back".
Fail(s, back) ==
    /\ stage = s
    /\ stage' = back
    /\ outcome' = "no_init"
    /\ UNCHANGED <<pos, held, hookVars, taskVars, loaded, late>>

\* create_char_device; when cdev_add fails it just returns.
CreateCharDevice ==
    \/ Acquire("region", "region", "cdev") \/ Fail("region", "free")
    \/ Acquire("cdev", "cdev", "proc_root") \/ Fail("cdev", "free")

\* init_procfs
InitProcfs ==
    Acquire("proc_root", "proc_root", "zone") \/ Fail("proc_root", "destroy_cdev")

(* init_sched: __init_zone, which ignores that the zone got no directory,  *)
(* and the two caches.  What it has done before an error stays.            *)
InitSched ==
    \/ Acquire("zone", "proc_zone", "job_cache")
    \/ /\ stage = "zone"
       /\ stage' = "job_cache"
       /\ UNCHANGED <<pos, outcome, held, hookVars, taskVars, loaded, late>>
    \/ Acquire("job_cache", "job_cache", "thread_cache") \/ Fail("job_cache", "fini_procfs")
    \/ Acquire("thread_cache", "thread_cache", "install") \/ Fail("thread_cache", "fini_procfs")

-----------------------------------------------------------------------------
(* __ya_xchgl and __ya_xchgq: one atomic exchange.                         *)
Exchange(p, val) ==
    /\ text' = [text EXCEPT ![p] = val]
    /\ saved' = [saved EXCEPT ![p] = text[p]]

\* The next stage after position k of the installation.
Installed(k) ==
    /\ pos' = k + 1
    /\ stage' = IF k = N THEN "running" ELSE "install"

\* A switch_* or setup_* function finds its point and redirects it.
Install ==
    /\ stage = "install"
    /\ Exchange(InstallOrder[pos], "module")
    /\ Installed(pos)
    /\ UNCHANGED <<outcome, held, taskVars, loaded, late>>

\* __switch_do_fork: the candidates it looks at are no calls of do_fork; the
\* loop ends with neither hook nor error.
SkipFork ==
    /\ stage = "install" /\ SearchMayFail
    /\ InstallOrder[pos] \in ForkPoints
    /\ Installed(pos)
    /\ UNCHANGED <<outcome, held, hookVars, taskVars, loaded, late>>

\* Mutant: switch_do_fork does not restore the points it has redirected.
InstallFails_KeepsForks ==
    /\ stage = "install" /\ SearchMayFail
    /\ stage' = "restore"
    /\ pos' = IF InstallOrder[pos] \in ForkPoints THEN 4 ELSE N + 2 - pos
    /\ outcome' = "no_hooks"
    /\ UNCHANGED <<held, hookVars, taskVars, loaded, late>>

(* A switch point is not found: perform_inception restores the points that *)
(* were redirected before it, switch_do_fork its own.                      *)
InstallFails ==
    /\ stage = "install" /\ SearchMayFail
    /\ stage' = "restore"
    /\ pos' = IF InstallOrder[pos] \in ForkPoints THEN 1 ELSE N + 2 - pos
    /\ outcome' = "no_hooks"
    /\ UNCHANGED <<held, hookVars, taskVars, loaded, late>>

\* rmmod: yasched_exit calls remove_inception.
Remove ==
    /\ stage = "running"
    /\ stage' = "restore"
    /\ pos' = 1
    /\ outcome' = "removed"
    /\ UNCHANGED <<held, hookVars, taskVars, loaded, late>>

\* A restore_* or remove_* function swaps back what it finds redirected.
Restore ==
    LET p == RestoreOrder[pos] IN
    /\ stage = "restore" /\ pos <= N
    /\ IF saved[p] = "null" THEN UNCHANGED hookVars ELSE Exchange(p, saved[p])
    /\ pos' = pos + 1
    /\ UNCHANGED <<stage, outcome, held, taskVars, loaded, late>>

\* Only remove_inception waits for the agents, perform_inception does not.
Restored ==
    /\ stage = "restore" /\ pos = N + 1
    /\ stage' = IF outcome = "removed" THEN "drain" ELSE "exit_sched"
    /\ UNCHANGED <<pos, outcome, held, hookVars, taskVars, loaded, late>>

\* In the module's text, before the agent's first statement or behind its last.
Uncounted == {t \in Tasks : at[t] \in {"entering", "leaving"}}

\* Mutant: the wait is over at the first look, whatever the count is.
Drain_NoLoop ==
    /\ stage = "drain"
    /\ stage' = "exit_sched"
    /\ late' = Uncounted
    /\ UNCHANGED <<pos, outcome, held, hookVars, taskVars, loaded>>

\* The loop on ya_count is over; the last schedule() of remove_inception lets
\* others go on, but nothing makes it wait for those that are not counted.
Drain ==
    /\ stage = "drain"
    /\ ya_count = 0
    /\ stage' = "exit_sched"
    /\ late' = Uncounted
    /\ UNCHANGED <<pos, outcome, held, hookVars, taskVars, loaded>>

-----------------------------------------------------------------------------
(* The labels of yasched_init and the rest of yasched_exit.                *)

Release(s, rs, next) ==
    /\ stage = s
    /\ held' = held \ rs
    /\ stage' = next
    /\ UNCHANGED <<pos, outcome, hookVars, taskVars, loaded, late>>

\* Mutant: the zone's directory is not removed.
ExitSched_KeepsZone == Release("exit_sched", {"job_cache", "thread_cache"}, "fini_procfs")

\* exit_sched with __exit_zone
ExitSched == Release("exit_sched", {"proc_zone", "job_cache", "thread_cache"}, "fini_procfs")

FiniProcfs == Release("fini_procfs", {"proc_root"}, "destroy_cdev")

DestroyCharDevice == Release("destroy_cdev", {"region", "cdev"}, "free")

\* The kernel frees the module's memory.
FreeModule ==
    /\ stage = "free"
    /\ stage' = "gone"
    /\ loaded' = FALSE
    /\ UNCHANGED <<pos, outcome, held, hookVars, taskVars, late>>

-----------------------------------------------------------------------------
(* A task in a redirected function.                                        *)

Move(t, from, to) == at[t] = from /\ at' = [at EXCEPT ![t] = to]

\* The kernel's text jumps to the module's.
Jump(t) ==
    /\ \E p \in Points : text[p] = "module"
    /\ Move(t, "kernel", "entering")
    /\ UNCHANGED <<loaderVars, held, hookVars, ya_count, loaded, late>>

\* The agent's first statement.
Count(t) ==
    /\ Move(t, "entering", "agent")
    /\ ya_count' = ya_count + 1
    /\ UNCHANGED <<loaderVars, held, hookVars, loaded, late>>

\* Mutant: the constant of another agent is subtracted.
Uncount_WrongConstant(t) ==
    /\ Move(t, "agent", "leaving")
    /\ ya_count' = ya_count - 2
    /\ UNCHANGED <<loaderVars, held, hookVars, loaded, late>>

\* Mutant: the agent of a task without a job returns at once.
Uncount_EarlyReturn(t) ==
    /\ Move(t, "agent", "leaving")
    /\ UNCHANGED <<loaderVars, held, hookVars, ya_count, loaded, late>>

\* The agent's last statement but the return.
Uncount(t) ==
    /\ Move(t, "agent", "leaving")
    /\ ya_count' = ya_count - 1
    /\ UNCHANGED <<loaderVars, held, hookVars, loaded, late>>

\* The agent returns, or its stub jumps back.
Return(t) ==
    /\ Move(t, "leaving", "kernel")
    /\ UNCHANGED <<loaderVars, held, hookVars, ya_count, loaded, late>>

\* The task dies in the agent and never gives back its count.
Oops(t) ==
    /\ AgentsMayDie
    /\ Move(t, "agent", "oopsed")
    /\ UNCHANGED <<loaderVars, held, hookVars, ya_count, loaded, late>>

-----------------------------------------------------------------------------
Start == CreateCharDevice \/ InitProcfs \/ InitSched \/ Install \/ SkipFork \/ InstallFails

Stop == Restore \/ Restored \/ Drain \/ ExitSched \/ FiniProcfs \/ DestroyCharDevice \/ FreeModule

AgentStep(t) == Count(t) \/ Uncount(t) \/ Return(t)

Next == Start \/ Remove \/ Stop \/ \E t \in Tasks : AgentStep(t) \/ Jump(t) \/ Oops(t)

Spec == Init /\ [][Next]_vars

\* The loader and the tasks inside the module go on; nobody must run into it.
Fairness == WF_vars(Stop) /\ \A t \in Tasks : WF_vars(AgentStep(t))

FairSpec == Spec /\ Fairness
-----------------------------------------------------------------------------
(* Whatever fails, and whichever fork points were skipped: once the hooks  *)
(* are restored no jump into the module is left in the kernel's text, and  *)
(* no exchange was done twice, which would put it back.                    *)
KernelTextClean ==
    stage \in {"drain", "exit_sched", "fini_procfs", "destroy_cdev", "free", "gone"}
        => \A p \in Points : text[p] = "kernel"

(* do_fork_agent counts a child that only the exit hook can uncount, by the*)
(* entry that schedule_tail_agent makes: neither on the way in nor on the  *)
(* way out is a fork point redirected while one of those two is not.       *)
CountedChildrenCanLeave ==
    \A p \in ForkPoints : text[p] = "module" => text["exit"] = "module" /\ text["tail"] = "module"

(* When the module goes after perform_inception failed or after rmmod, it  *)
(* has released all it held.  (A start that fails earlier leaves the device*)
(* region, or the zone's directory and the job cache, behind.)             *)
NothingLeft ==
    stage = "gone" /\ outcome # "no_init" => held = {}

(* remove_inception (inception.c:142) goes on only when every agent that    *)
(* counted itself has uncounted itself, and no task gets into the module   *)
(* any more: from there on only those that it could not see are inside.    *)
RemovalWaitsForAgents ==
    outcome = "removed" /\ stage \in {"exit_sched", "fini_procfs", "destroy_cdev", "free", "gone"}
        => \A t \in Tasks : at[t] \in {"entering", "agent", "leaving"} => t \in late

(* rmmod comes to an end (inception.c:142), however many agents are under  *)
(* way and whichever way out they take, as long as none of them oopses.    *)
RemovalEndsUnlessOopsed ==
    outcome = "removed" ~> (stage = "gone" \/ \E t \in Tasks : at[t] = "oopsed")

(* README.md:3 "The hook can be inserted and removed on-the-fly.": no task *)
(* runs in the module's text after it is freed.  Violated: a task between  *)
(* the jump and the agent's first statement, or between its last one and   *)
(* the return, is not in ya_count.                                         *)
NobodyInFreedText ==
    ~loaded => \A t \in Tasks : at[t] \notin {"entering", "agent", "leaving"}
=============================================================================
