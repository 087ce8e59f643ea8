------------------------------- MODULE JobLife -------------------------------
(***************************************************************************)
(* The life of yasched's jobs and of their thread entries: a task becomes  *)
(* the root of a job in the execve hook (lkm/hook/execve.c), its children  *)
(* join the job in the fork hooks (lkm/hook/fork.c), every member leaves   *)
(* in the exit hook (lkm/hook/exit.c), and whoever drops the job's member  *)
(* count alive_proc to zero deletes the job (lkm/sched/sched.c).           *)
(*                                                                         *)
(* One step is one action of one task; tasks interleave between any two    *)
(* steps, as they do on a preemptive multiprocessor kernel.  A critical    *)
(* section of the zone lock or of a slot lock is one step.                 *)
(*                                                                         *)
(* Under src/ there is no mgmt/job.h: how a task is linked to its job (in  *)
(* the LDT of its address space) and how a task's entry is looked up are   *)
(* modelled from the code that uses them; so are the kernel functions that *)
(* the hooks wrap (do_execve, do_fork, do_exit).                           *)
(***************************************************************************)
EXTENDS Naturals, FiniteSets

CONSTANTS
    Tasks,              \* the tasks there can ever be, named by their birth pid
    InitTasks,          \* the tasks that run when the hooks are installed
    Jobs,               \* the addresses of ya_job_t objects, reused after free
    NoJob,              \* the NULL job
    THREAD_TABLE_SIZE,  \* the number of thread slots of a job
    MaxJid,             \* bound: job ids are 0 .. MaxJid
    AllocMayFail,       \* may a newborn find no memory for its entry?
    ThreadExec,         \* may a task other than its group's leader execve?
    ThreadedRoots       \* may a task with live siblings become a job's root?

ASSUME TasksAssumption == Tasks \subseteq Nat /\ IsFiniteSet(Tasks)
ASSUME InitTasksAssumption == InitTasks \subseteq Tasks
ASSUME NoJobAssumption == NoJob \notin Jobs
ASSUME SlotsAssumption == THREAD_TABLE_SIZE \in Nat \ {0}
ASSUME MaxJidAssumption == MaxJid \in Nat
ASSUME SwitchesAssumption ==
    AllocMayFail \in BOOLEAN /\ ThreadExec \in BOOLEAN /\ ThreadedRoots \in BOOLEAN

VARIABLES
    pc,          \* where each task is: in user mode, or in which hook
    tgid,        \* the leader of the task's thread group (names its address space)
    pid,         \* task->pid; execve gives a surviving thread its leader's
    link,        \* the job stored in the LDT of each address space
    loc,         \* the local variable "job" (or tsi.job) of the running hook
    entry,       \* thread->job of the task's ya_thread_t, NoJob if it has none
    slot,        \* the slot of the job's thread_table the entry was put in
    tproc,       \* does the entry have its /proc file?
    allocated,   \* the ya_job_t objects that are allocated
    alive_proc,  \* job->alive_proc
    id,          \* job->id
    job_list,    \* the jobs on zone->job_list
    max_jid,     \* the number of job ids the zone gave out (its max_jid + 1)
    jproc        \* the jobs that have a /proc directory

taskVars == <<tgid, pid, slot>>
jobVars  == <<allocated, alive_proc, id, job_list, max_jid, jproc>>
vars == <<pc, tgid, pid, link, loc, entry, slot, tproc, allocated, alive_proc,
          id, job_list, max_jid, jproc>>

MaybeJob == Jobs \cup {NoJob}

PC == {"unborn", "user",
       "init_job", "job_procfs", "execve", "init_tsi",   \* execve_agent
       "do_fork", "fork_put",                            \* do_fork_agent
       "newborn", "thread_procfs",                       \* schedule_tail_agent
       "fini", "put", "del_job", "free_job", "oops",     \* enter_exit_hook
       "exiting", "dead"}

Goto(t, l) == pc' = [pc EXCEPT ![t] = l]

\* A table slot is chosen by pid % THREAD_TABLE_SIZE.
Slot(p) == p % THREAD_TABLE_SIZE

\* The job found in the LDT of the task's address space.
search_job_by_task(t) == link[tgid[t]]

\* The task's entry is found only in the slot of the pid it has now.
search_thread_by_task(t) ==
    /\ entry[t] # NoJob
    /\ entry[t] = search_job_by_task(t)
    /\ slot[t] = Slot(pid[t])

\* The threads that share t's address space and have not left it.
Siblings(t) == {u \in Tasks \ {t} : tgid[u] = tgid[t] /\ pc[u] \notin {"unborn", "dead"}}

TypeOK ==
    /\ pc \in [Tasks -> PC]
    /\ tgid \in [Tasks -> Tasks]
    /\ pid \in [Tasks -> Tasks]
    /\ link \in [Tasks -> MaybeJob]
    /\ loc \in [Tasks -> MaybeJob]
    /\ entry \in [Tasks -> MaybeJob]
    /\ slot \in [Tasks -> Nat]
    /\ tproc \in [Tasks -> BOOLEAN]
    /\ allocated \subseteq Jobs
    /\ alive_proc \in [Jobs -> Nat]
    /\ id \in [Jobs -> Nat]
    /\ job_list \subseteq Jobs
    /\ max_jid \in Nat
    /\ jproc \subseteq Jobs

Init ==
    /\ pc = [t \in Tasks |-> IF t \in InitTasks THEN "user" ELSE "unborn"]
    /\ tgid = [t \in Tasks |-> t]
    /\ pid = [t \in Tasks |-> t]
    /\ link = [t \in Tasks |-> NoJob]
    /\ loc = [t \in Tasks |-> NoJob]
    /\ entry = [t \in Tasks |-> NoJob]
    /\ slot = [t \in Tasks |-> Slot(t)]
    /\ tproc = [t \in Tasks |-> FALSE]
    /\ allocated = {}
    /\ alive_proc = [j \in Jobs |-> 0]
    /\ id = [j \in Jobs |-> 0]
    /\ job_list = {}
    /\ max_jid = 0
    /\ jproc = {}

-----------------------------------------------------------------------------
(* __attach_to_job: the new entry goes into the slot of the task's pid.    *)
AttachToJob(t, j) ==
    /\ entry' = [entry EXCEPT ![t] = j]
    /\ slot' = [slot EXCEPT ![t] = Slot(pid[t])]

\* Mutant: the last but one member already deletes the job.
put_thread_OneTooEarly(t, next) ==
    LET j == loc[t] IN
    /\ alive_proc' = [alive_proc EXCEPT ![j] = @ - 1]
    /\ IF alive_proc[j] <= 2
         THEN Goto(t, "del_job") /\ UNCHANGED loc
         ELSE Goto(t, next) /\ loc' = [loc EXCEPT ![t] = NoJob]

\* Mutant: the count is tested before it is decremented.
put_thread_TestsBefore(t, next) ==
    LET j == loc[t] IN
    /\ alive_proc' = [alive_proc EXCEPT ![j] = @ - 1]
    /\ IF alive_proc[j] = 0
         THEN Goto(t, "del_job") /\ UNCHANGED loc
         ELSE Goto(t, next) /\ loc' = [loc EXCEPT ![t] = NoJob]

(* put_thread: drop one member; who drops the last one deletes the job,    *)
(* anyone else continues at "next".                                        *)
put_thread(t, next) ==
    LET j == loc[t] IN
    /\ alive_proc' = [alive_proc EXCEPT ![j] = @ - 1]
    /\ IF alive_proc[j] = 1
         THEN Goto(t, "del_job") /\ UNCHANGED loc
         ELSE Goto(t, next) /\ loc' = [loc EXCEPT ![t] = NoJob]

-----------------------------------------------------------------------------
\* A task calls execve from user mode.
MayExecve(t) == pc[t] = "user" /\ (pid[t] # tgid[t] => ThreadExec)

(* execve_agent, try_new_job: a member of a job keeps its link in tsi.     *)
ExistingJob(t) ==
    /\ MayExecve(t)
    /\ search_job_by_task(t) # NoJob
    /\ loc' = [loc EXCEPT ![t] = search_job_by_task(t)]
    /\ Goto(t, "execve")
    /\ UNCHANGED <<taskVars, link, entry, tproc, jobVars>>

(* new_job: the environment asks for no job, or there is no memory for the *)
(* job or for its first entry (__ya_init_job frees the job again).         *)
NonJob(t) ==
    /\ MayExecve(t)
    /\ search_job_by_task(t) = NoJob
    /\ Goto(t, "execve")
    /\ UNCHANGED <<taskVars, link, loc, entry, tproc, jobVars>>

\* Mutant: the root's entry is not counted.
NewJob_Uncounted(t, j) ==
    /\ MayExecve(t)
    /\ Siblings(t) # {} => ThreadedRoots
    /\ search_job_by_task(t) = NoJob
    /\ j \notin allocated
    /\ max_jid <= MaxJid
    /\ allocated' = allocated \cup {j}
    /\ AttachToJob(t, j)
    /\ loc' = [loc EXCEPT ![t] = j]
    /\ Goto(t, "init_job")
    /\ UNCHANGED <<tgid, pid, link, tproc, alive_proc, id, job_list, max_jid, jproc>>

(* new_job, ya_new_job and the first half of __ya_init_job: the environ-   *)
(* ment asks for a job; it gets the memory, the root's entry and count 1.  *)
(* Nobody else can reach the job yet.                                      *)
NewJob(t, j) ==
    /\ MayExecve(t)
    /\ Siblings(t) # {} => ThreadedRoots
    /\ search_job_by_task(t) = NoJob
    /\ j \notin allocated
    /\ max_jid <= MaxJid
    /\ allocated' = allocated \cup {j}
    /\ AttachToJob(t, j)
    /\ alive_proc' = [alive_proc EXCEPT ![j] = 1]
    /\ loc' = [loc EXCEPT ![t] = j]
    /\ Goto(t, "init_job")
    /\ UNCHANGED <<tgid, pid, link, tproc, id, job_list, max_jid, jproc>>

\* Mutant: the zone's max_jid is read but not incremented.
PublishJob_SameId(t) ==
    /\ pc[t] = "init_job"
    /\ id' = [id EXCEPT ![loc[t]] = max_jid]
    /\ job_list' = job_list \cup {loc[t]}
    /\ Goto(t, "job_procfs")
    /\ UNCHANGED <<taskVars, link, loc, entry, tproc, allocated, alive_proc, max_jid, jproc>>

(* __ya_init_job under the zone lock: number the job and put it on the     *)
(* zone's list, where the administrator's commands find it.                *)
PublishJob(t) ==
    /\ pc[t] = "init_job"
    /\ id' = [id EXCEPT ![loc[t]] = max_jid]
    /\ max_jid' = max_jid + 1
    /\ job_list' = job_list \cup {loc[t]}
    /\ Goto(t, "job_procfs")
    /\ UNCHANGED <<taskVars, link, loc, entry, tproc, allocated, alive_proc, jproc>>

(* add_job_procfs_entry and add_thread_procfs_entry of the root.           *)
JobProcfs(t) ==
    /\ pc[t] = "job_procfs"
    /\ jproc' = jproc \cup {loc[t]}
    /\ tproc' = [tproc EXCEPT ![t] = TRUE]
    /\ Goto(t, "execve")
    /\ UNCHANGED <<taskVars, link, loc, entry, allocated, alive_proc, id, job_list, max_jid>>

(* The kernel's do_execve succeeds: its thread group is gone, the task has *)
(* the leader's pid and a new address space whose LDT links no job.        *)
KernelExecve(t) ==
    /\ pc[t] = "execve"
    /\ Siblings(t) = {}
    /\ pid' = [pid EXCEPT ![t] = tgid[t]]
    /\ link' = [link EXCEPT ![tgid[t]] = NoJob]
    /\ Goto(t, "init_tsi")
    /\ UNCHANGED <<tgid, loc, entry, slot, tproc, jobVars>>

(* The kernel's do_execve fails and changes nothing.                       *)
KernelExecveFails(t) ==
    /\ pc[t] = "execve"
    /\ Goto(t, "init_tsi")
    /\ UNCHANGED <<taskVars, link, loc, entry, tproc, jobVars>>

(* execve_agent, init_job(&tsi): store the link, whatever do_execve did.   *)
InitTsi(t) ==
    /\ pc[t] = "init_tsi"
    /\ link' = IF loc[t] = NoJob THEN link ELSE [link EXCEPT ![tgid[t]] = loc[t]]
    /\ loc' = [loc EXCEPT ![t] = NoJob]
    /\ Goto(t, "user")
    /\ UNCHANGED <<taskVars, entry, tproc, jobVars>>

-----------------------------------------------------------------------------
\* Mutant: the child is not counted in advance.
ForkEnter_NoGet(t) ==
    /\ pc[t] = "user"
    /\ loc' = [loc EXCEPT ![t] = search_job_by_task(t)]
    /\ Goto(t, "do_fork")
    /\ UNCHANGED <<taskVars, link, entry, tproc, jobVars>>

(* do_fork_agent, before the kernel's do_fork: count the child in advance. *)
ForkEnter(t) ==
    LET j == search_job_by_task(t) IN
    /\ pc[t] = "user"
    /\ alive_proc' = IF j = NoJob THEN alive_proc
                                  ELSE [alive_proc EXCEPT ![j] = @ + 1]
    /\ loc' = [loc EXCEPT ![t] = j]
    /\ Goto(t, "do_fork")
    /\ UNCHANGED <<taskVars, link, entry, tproc, allocated, id, job_list, max_jid, jproc>>

\* Mutant: put_thread runs after a successful do_fork as well.
ForkChild_PutsToo(t, c, thread) ==
    /\ pc[t] = "do_fork"
    /\ pc[c] = "unborn"
    /\ tgid' = [tgid EXCEPT ![c] = IF thread THEN tgid[t] ELSE c]
    /\ link' = IF thread THEN link ELSE [link EXCEPT ![c] = search_job_by_task(t)]
    /\ pc' = [pc EXCEPT ![t] = IF loc[t] = NoJob THEN "user" ELSE "fork_put", ![c] = "newborn"]
    /\ UNCHANGED <<pid, loc, entry, slot, tproc, jobVars>>

(* The kernel's do_fork succeeds: the child is a thread of the parent's    *)
(* group or a process with a copy of its address space, LDT included.  The *)
(* parent's hook has nothing left to do.                                   *)
ForkChild(t, c, thread) ==
    /\ pc[t] = "do_fork"
    /\ pc[c] = "unborn"
    /\ tgid' = [tgid EXCEPT ![c] = IF thread THEN tgid[t] ELSE c]
    /\ link' = IF thread THEN link ELSE [link EXCEPT ![c] = search_job_by_task(t)]
    /\ loc' = [loc EXCEPT ![t] = NoJob]
    /\ pc' = [pc EXCEPT ![t] = "user", ![c] = "newborn"]
    /\ UNCHANGED <<pid, entry, slot, tproc, jobVars>>

\* Mutant: the error of do_fork is returned without put_thread.
ForkFails_NoPut(t) ==
    /\ pc[t] = "do_fork"
    /\ loc' = [loc EXCEPT ![t] = NoJob]
    /\ Goto(t, "user")
    /\ UNCHANGED <<taskVars, link, entry, tproc, jobVars>>

(* The kernel's do_fork returns an error; a job's member must be uncounted.*)
ForkFails(t) ==
    /\ pc[t] = "do_fork"
    /\ Goto(t, IF loc[t] = NoJob THEN "user" ELSE "fork_put")
    /\ UNCHANGED <<taskVars, link, loc, entry, tproc, jobVars>>

(* do_fork_agent, put_thread(job) after the error.                         *)
ForkPut(t) ==
    /\ pc[t] = "fork_put"
    /\ put_thread(t, "user")
    /\ UNCHANGED <<taskVars, link, entry, tproc, allocated, id, job_list, max_jid, jproc>>

(* schedule_tail_agent, the child's first steps: a task that finds a job   *)
(* gets an entry of it.                                                    *)
ScheduleTail(t) ==
    /\ pc[t] = "newborn"
    /\ IF search_job_by_task(t) = NoJob
         THEN Goto(t, "user") /\ UNCHANGED <<entry, slot>>
         ELSE Goto(t, "thread_procfs") /\ AttachToJob(t, search_job_by_task(t))
    /\ UNCHANGED <<tgid, pid, link, loc, tproc, jobVars>>

(* schedule_tail_agent when ya_new_thread runs out of tries: no entry.     *)
ScheduleTailNoMemory(t) ==
    /\ AllocMayFail
    /\ pc[t] = "newborn"
    /\ search_job_by_task(t) # NoJob
    /\ Goto(t, "user")
    /\ UNCHANGED <<taskVars, link, loc, entry, tproc, jobVars>>

(* schedule_tail_agent, add_thread_procfs_entry.                           *)
ThreadProcfs(t) ==
    /\ pc[t] = "thread_procfs"
    /\ tproc' = [tproc EXCEPT ![t] = TRUE]
    /\ Goto(t, "user")
    /\ UNCHANGED <<taskVars, link, loc, entry, jobVars>>

-----------------------------------------------------------------------------
(* enter_exit_hook finds the task's entry; ya_del_thread detaches it.      *)
ExitDetach(t) ==
    /\ pc[t] \in {"user", "oops"}
    /\ search_thread_by_task(t)
    /\ loc' = [loc EXCEPT ![t] = entry[t]]
    /\ Goto(t, "fini")
    /\ UNCHANGED <<taskVars, link, entry, tproc, jobVars>>

(* enter_exit_hook finds no entry and leaves do_exit to the kernel.        *)
ExitNoThread(t) ==
    /\ pc[t] \in {"user", "oops"}
    /\ ~search_thread_by_task(t)
    /\ Goto(t, "exiting")
    /\ UNCHANGED <<taskVars, link, loc, entry, tproc, jobVars>>

\* Mutant: del_thread_procfs_entry is forgotten.
FiniThread_KeepsFile(t) ==
    /\ pc[t] = "fini"
    /\ entry' = [entry EXCEPT ![t] = NoJob]
    /\ Goto(t, "put")
    /\ UNCHANGED <<taskVars, link, loc, tproc, jobVars>>

(* __fini_thread up to put_thread: drop the /proc file, free the entry.    *)
FiniThread(t) ==
    /\ pc[t] = "fini"
    /\ tproc' = [tproc EXCEPT ![t] = FALSE]
    /\ entry' = [entry EXCEPT ![t] = NoJob]
    /\ Goto(t, "put")
    /\ UNCHANGED <<taskVars, link, loc, jobVars>>

(* __fini_thread, put_thread(job).                                         *)
PutThread(t) ==
    /\ pc[t] = "put"
    /\ put_thread(t, "exiting")
    /\ UNCHANGED <<taskVars, link, entry, tproc, allocated, id, job_list, max_jid, jproc>>

(* ya_del_job under the zone lock.                                         *)
UnlistJob(t) ==
    /\ pc[t] = "del_job"
    /\ job_list' = job_list \ {loc[t]}
    /\ Goto(t, "free_job")
    /\ UNCHANGED <<taskVars, link, loc, entry, tproc, allocated, alive_proc, id, max_jid, jproc>>

(* ya_del_job: drop the /proc directory and free the job; the printk that  *)
(* follows reads dummy_job->id through a NULL pointer.                     *)
FreeJob(t) ==
    /\ pc[t] = "free_job"
    /\ jproc' = jproc \ {loc[t]}
    /\ allocated' = allocated \ {loc[t]}
    /\ loc' = [loc EXCEPT ![t] = NoJob]
    /\ Goto(t, "oops")
    /\ UNCHANGED <<taskVars, link, entry, tproc, alive_proc, id, job_list, max_jid>>

(* The kernel's do_exit past the hook: the task leaves its address space.  *)
ExitMm(t) ==
    /\ pc[t] = "exiting"
    /\ Goto(t, "dead")
    /\ UNCHANGED <<taskVars, link, loc, entry, tproc, jobVars>>

-----------------------------------------------------------------------------
Execve(t) == \/ ExistingJob(t) \/ NonJob(t)
             \/ \E j \in Jobs : NewJob(t, j)
             \/ PublishJob(t) \/ JobProcfs(t)
             \/ KernelExecve(t) \/ KernelExecveFails(t) \/ InitTsi(t)

Fork(t) == \/ ForkEnter(t)
           \/ \E c \in Tasks, thread \in BOOLEAN : ForkChild(t, c, thread)
           \/ ForkFails(t) \/ ForkPut(t)
           \/ ScheduleTail(t) \/ ScheduleTailNoMemory(t) \/ ThreadProcfs(t)

Exit(t) == \/ ExitDetach(t) \/ ExitNoThread(t) \/ FiniThread(t) \/ PutThread(t)
           \/ UnlistJob(t) \/ FreeJob(t) \/ ExitMm(t)

Next == \E t \in Tasks : Execve(t) \/ Fork(t) \/ Exit(t)

Spec == Init /\ [][Next]_vars
-----------------------------------------------------------------------------
(* Who still owes a put_thread.                                            *)

\* The job whose count holds a member for task t: the job of its entry; while
\* it has no entry, the job it is linked to or its hook holds in "loc".
CountedIn(t) ==
    IF entry[t] # NoJob THEN entry[t]
    ELSE IF pc[t] \in {"put", "execve", "init_tsi"} THEN loc[t]
    ELSE IF pc[t] \in {"newborn", "user", "do_fork", "fork_put"} THEN search_job_by_task(t)
    ELSE NoJob

Members(j) == {t \in Tasks : CountedIn(t) = j}

\* The tasks that counted a child of job j in advance.
Forkers(j) == {t \in Tasks : pc[t] \in {"do_fork", "fork_put"} /\ loc[t] = j}

\* The tasks that dropped job j's count to zero and are deleting it.
Deleters(j) == {t \in Tasks : pc[t] \in {"del_job", "free_job"} /\ loc[t] = j}

\* Before the task has left the job in its exit hook.
Alive(t) == pc[t] \notin {"unborn", "del_job", "free_job", "oops", "exiting", "dead"}

(* A task that has not left its job never follows its LDT link into freed  *)
(* memory: the timer, schedule and fork hooks dereference it unlocked      *)
(* (hook/timer.c:41, hook/fork.c:73).                                      *)
MemberJobAllocated ==
    \A t \in Tasks : Alive(t) /\ search_job_by_task(t) # NoJob
                        => search_job_by_task(t) \in allocated

(* A thread entry, once in a job's table, never outlives the job, not even *)
(* an entry that was leaked in a slot nobody looks into any more.          *)
EntryJobAllocated ==
    \A t \in Tasks : entry[t] # NoJob => entry[t] \in allocated

(* kill_job and its like walk the zone's list under the zone lock while    *)
(* members leave without it: what they find there is allocated, and no two *)
(* jobs on the list have the same id, although job memory is reused.       *)
JobListWellFormed ==
    /\ job_list \subseteq allocated
    /\ \A j, k \in job_list : id[j] = id[k] => j = k

(* When do_fork fails, the parent's put_thread is not the one that deletes *)
(* the job: do_fork_agent would oops in the middle of a fork(2), and the   *)
(* parent would go on with a freed job.                                    *)
ForkPutNotLast ==
    \A t \in Tasks : pc[t] = "fork_put" => alive_proc[loc[t]] >= 2

(* A /proc thread file is never left without its job's directory, which    *)
(* ya_del_job removes before the job's memory.                             *)
ProcfsTree ==
    \A t \in Tasks : tproc[t] => entry[t] \in jproc

(* A dead task has left its /proc file behind, for procfs_thread.c to read *)
(* the task_struct through, only if execve renamed it out of the slot of   *)
(* its entry (sched.c:131): newborns without memory leave none, nor do the *)
(* losers of any race between the members' exits.                          *)
FileLeftOnlyByRename ==
    \A t \in Tasks : pc[t] = "dead" /\ tproc[t] => slot[t] # Slot(pid[t])

(* At most one task deletes a job, and while it does the job has no member *)
(* and no fork under way, is allocated, and has left the list only if the  *)
(* deleter took it off.                                                    *)
SingleDeleter ==
    \A t \in Tasks : pc[t] \in {"del_job", "free_job"} =>
        /\ Deleters(loc[t]) = {t}
        /\ Members(loc[t]) = {} /\ Forkers(loc[t]) = {}
        /\ loc[t] \in allocated
        /\ loc[t] \in job_list <=> pc[t] = "del_job"

(* get_thread and put_thread together never count too few: alive_proc is   *)
(* at least the number of members, children counted ahead included.        *)
CountNeverShort ==
    \A j \in Jobs : alive_proc[j] >= Cardinality(Members(j)) + Cardinality(Forkers(j))

(* With nothing lost they never count too many either: a job's count is    *)
(* exactly the number of put_thread calls still to come.                   *)
CountExact ==
    \A j \in Jobs : alive_proc[j] = Cardinality(Members(j)) + Cardinality(Forkers(j))

\* What is counted in a job for nobody any more: the job is never freed.
Excess(j) == alive_proc[j] - (Cardinality(Members(j)) + Cardinality(Forkers(j)))

(* A count goes astray in one way only: a member that got no entry exits,  *)
(* and its exit hook leaves without put_thread (hook/exit.c).  No race of  *)
(* forks, failed forks, execves and exits loses one.                       *)
CountLostOnlyWithoutEntry ==
    [][\A j \in allocated : Excess(j)' > Excess(j)
         => \E t \in Members(j) : pc[t] \in {"user", "oops"} /\ entry[t] = NoJob /\ pc'[t] = "exiting"]_vars

(* No get_thread revives a job whose count reached zero: it is deleted.    *)
NoResurrection ==
    [][\A j \in allocated : alive_proc[j] = 0 => alive_proc'[j] = 0]_vars

\* The abstract specification, with a task's job read off the hooks' state.
Membership == INSTANCE JobMembership
    WITH exists <- allocated, job <- [t \in Tasks |-> CountedIn(t)]

(* The hooks, the count and the object cache together implement job member-*)
(* ship: members join by birth only, nobody changes jobs, and a job object *)
(* goes back to the cache only when it has no member left.                 *)
ImplementsMembership == Membership!Spec

(* sched.c:119 "if it is down to zero then the job can be detroyed safely":*)
(* no task still in its address space is linked to a job that is freed.    *)
NoDanglingLink ==
    \A t \in Tasks : pc[t] \notin {"unborn", "dead"} /\ search_job_by_task(t) # NoJob
                        => search_job_by_task(t) \in allocated

\* What the kernel will let a task do once it is inside a hook.
HookStep(t) ==
    \/ PublishJob(t) \/ JobProcfs(t) \/ KernelExecve(t) \/ KernelExecveFails(t) \/ InitTsi(t)
    \/ (\E c \in Tasks, thread \in BOOLEAN : ForkChild(t, c, thread)) \/ ForkFails(t) \/ ForkPut(t)
    \/ ScheduleTail(t) \/ ScheduleTailNoMemory(t) \/ ThreadProcfs(t)
    \/ FiniThread(t) \/ PutThread(t) \/ UnlistJob(t) \/ FreeJob(t) \/ ExitMm(t)
    \/ (pc[t] = "oops" /\ (ExitDetach(t) \/ ExitNoThread(t)))

\* The kernel schedules every runnable task: a task inside a hook goes on.
Fairness == \A t \in Tasks : WF_vars(HookStep(t))

FairSpec == Spec /\ Fairness

\* The tasks that still act on job j are all in their exit hooks, and nothing is
\* counted for others.
Abandoned(j) ==
    /\ j \in allocated
    /\ Excess(j) = 0
    /\ \A t \in Tasks : CountedIn(t) = j \/ loc[t] = j => pc[t] \in {"fini", "put", "del_job", "free_job"}

(* A job whose remaining members are all in their exit hooks is deleted,   *)
(* in whatever order they drop their counts.                               *)
AbandonedJobFreed == \A j \in Jobs : Abandoned(j) ~> j \notin allocated
=============================================================================
