# yasched in TLA+

yasched is a Linux kernel module (LKM) with command line tools. The module
groups processes into *jobs*: a process that calls `execve` with a
`YA_SCHED_ZONE_ID` variable in its environment becomes the root of a new job,
its descendants belong to the same job, and an administrator can suspend,
resume and kill a job as a whole. The module does this by patching call sites
inside the running kernel ("hooks"): `do_execve`, `do_fork`, `schedule_tail`,
the start and the end of `__schedule`, the local APIC timer interrupt and
`do_exit`.

This directory holds TLA+ modules of the parts where tasks meet each other, and
of the searches that decide what is hooked and who founds a job; TLC
configurations that check them on small instances; and TLAPS proofs for
instances of any size.

    tlc -config MCJobLife.cfg MCJobLife        # model-check one run
    tlapm JobLife_proofs.tla                   # check the proofs

The runs, mutants, theorems, hazards, findings and the source lines that each
definition models are listed in `PROJECT.json`.

## 1. Inventory

Paths are relative to `src/`.

| Component | State it keeps | Operations | Correct when |
|---|---|---|---|
| **Job and thread life cycle**: `lkm/sched/sched.c`, `sched.h`, `lkm/hook/{execve,fork,exit}.c` | zone (`job_list`, `max_jid`, lock), jobs (`alive_proc`, `id`, `thread_table`), thread entries, the job link in the LDT of each address space | `execve_agent` (found a job, keep the link over execve), `do_fork_agent` (count the child), `schedule_tail_agent` (the child's entry), `enter_exit_hook` (remove the entry, uncount, delete the job) | a job is freed once, after its last member left, and not while listed, linked or counted; it is freed at last; entries and `/proc` files go before their job |
| **Job control**: `sched.c:191-320`, `sched.h:68-84`, `lkm/hook/{sched,timer}.c` | `job->state`, the wait queue `suspended_threads`, each thread's saved `task_state`, `suspend_wait`, `thread->state`; of the kernel `task->state`, `TIF_NEED_RESCHED`, pending signals | `__suspend_job`, `__resume_job`, `__kill_job`, `go_to_bed`, `get_up`, `go_to_heaven`, the enter, leave and timer hooks | no sleeper is left behind, commands take effect, threads' own waits are undisturbed |
| **Hook installation**: `lkm/inception.c`, `lkm/arch/x86_64/*` | which hooks are in; `ya_count`, the agents under way | `perform_inception` with rollback, `remove_inception` with its drain | all hooks or none; no jump into the module is left behind; removal waits for the agents, and ends |
| **Module start and stop**: `lkm/main.c`, `lkm/yacdev.c`, `lkm/user/procfs.c`, `sched.c:348-395` | caches, `/proc` root, char device, zone | `yasched_init`, `yasched_exit` | a failure at any step releases what was acquired, once |
| **Search for the switch points**: `lkm/arch/x86_64/{syscalls,page_fault,apic_timer,fork}.c`, `lkm/lib.c` | none | searches through the kernel's machine code for the byte of a call or jmp | the place that is redirected is the call meant; what misleads the search is known |
| **Environment scan**: `lkm/hook/execve.c:42-131` | one static `envbuf`, shared by all tasks | the loop of `new_job`, `my_atol` | the answer is that of the caller's own environment |
| **Administration**: `cli/{yasadmin,opts,common,ioctl}.c`, `lkm/yacdev.c`, `lkm/user/ioctl.c`, `include/ioctl.h`, `sched.c:227-329` | the `ya_job_op_t` of each client, the open files, `ya_ioctl_mutex`, the zone's lock | parse, open, `ioctl`, dispatch, look up, apply, wake up, return | the command asked for is done once, at one instant, on the job named; it ends; nothing it touches is freed |
| **/proc files**: `lkm/user/procfs.c`, `procfs_thread.c`, `cli/procfs.c` | one directory per zone and job, one file per thread | add and delete entries, read | the tree follows the jobs and threads |
| **Front ends**: `cli/yasub.c`, `cli/yash.c`; **scripts**: `scripts/yasche.sh` | none | put the variable into the environment and execve; load and unload | sequential |
| **Helpers**: `lkm/hook/page_fault.c`, `arch/x86_64/{vector,kutils}.c` | none | page fault and `schedule()` call agents, vector table, symbol lookup | machine level |

**Interactions.** The front ends start the root by `execve`; the hooks run in
the context of whichever task enters the patched function, on any CPU. All of
them find the job through the link in the LDT of the task's address space, and
dereference it without a lock; `alive_proc` is the only thing that keeps the
job alive. The administrator's ioctl reaches jobs through the zone's list
under the zone lock, and reaches their threads only through `job->state` and
the wait queue: the threads do the rest in their own schedule hooks. The timer
hook makes a thread that never sleeps enter them.

**Missing source.** `mgmt/job.h`, `mgmt/zone.h`, `mgmt/job.c` and `syscalls.h`
are included but are not in the repository. The LDT link and the entry lookup
are modelled from the code that calls them, as is the kernel; definitions of
this kind are marked `external` in `PROJECT.json`.

**What is hard.** Counting a child before it exists while its parent may exit,
fail or lose the race with the child; the last two members leaving at once;
lookup by a pid that execve changes; an execve that fails after the job was
founded; a thread going to bed while its job is resumed or killed; one field,
`task->state`, used by the hooks and by the thread's own waits; a kill that
nobody delivers; removal of hooks while agents run, and jobs that live while
only some of the hooks are in; one unlocked buffer for all environments; a
command that works on a job it holds no reference to. `PROJECT.json` lists each
of these at its line, with the properties that cover it.

## 2. Modules

| Module | Models | Kind |
|---|---|---|
| `JobLife` | life cycle of jobs, entries and `/proc` files, with fork, execve and exit around them | state machine |
| `JobMembership` | what `JobLife` promises: found, join, leave, reclaim | abstract specification |
| `JobLife_proofs` | inductive invariant, six theorems | proofs |
| `JobList_proofs` | two more invariants on top of it, six theorems | proofs |
| `MCJobLife` | sets of tasks and jobs for TLC | MC |
| `JobControl` | suspend, resume, kill against the schedule and timer hooks and the threads' own waits | state machine |
| `JobControl_proofs` | inductive invariant, five theorems | proofs |
| `MCJobControl` | sets of threads for TLC | MC |
| `Inception` | loading and unloading: resources, switch points, roll-back, the drain, tasks inside agents | state machine |
| `Inception_proofs` | three inductive invariants, five theorems | proofs |
| `MCInception` | sets of tasks for TLC | MC |
| `HookedLife` | composition: `JobLife` while the hooks of `Inception` go in and out one by one | state machine |
| `MCHookedLife` | two tasks, one job | MC |
| `Admin` | a job command, from the command line of `yasadmin` to the job and back, for several clients | state machine |
| `JobCommands` | what `Admin` promises: ask, do or refuse at one instant, return | abstract specification |
| `Admin_proofs` | the parser, three invariants, five theorems | proofs |
| `MCAdmin` | clients, jobs and command lines for TLC | MC |
| `ExecveScan` | the search of `new_job` for the zone variable, for several tasks and one buffer | state machine |
| `ExecveScan_proofs` | inductive invariant, `my_atol`, three theorems | proofs |
| `MCExecveScan` | tasks and environments for TLC | MC |
| `HookSearch` | the searches through machine code, one per kind of switch point | algorithms |
| `HookSearch_proofs` | the bytes of code, `memmem`, the loop of `__switch_do_fork`, three theorems | proofs |
| `FoldLemmas` | lemmas on numbers, minima, sums over sets and remainders that the last three share | proofs |
| `MCHookSearch` | all code of up to four instructions, and what follows it | MC |

### 2.1 JobLife

One step is one action of one task; any other task may step in between. A
critical section of the zone lock or of a slot's lock is one step, an atomic
counter operation with its test is one step.

| TLA+ | Code |
|---|---|
| `pc[t]` | where the task is: user mode, or a place in `execve_agent`, `do_fork_agent`, `schedule_tail_agent`, `enter_exit_hook` |
| `tgid`, `pid` | `task->tgid` (it names the address space) and `task->pid` |
| `link[g]` | the job in the LDT of address space `g` |
| `loc[t]` | the hook's local variable (`job`, or `tsi.job`) |
| `entry`, `slot` | `thread->job` of the task's `ya_thread_t`, and the table slot it was filed in |
| `tproc`, `jproc` | `/proc` file of the entry, `/proc` directory of the job |
| `allocated`, `alive_proc`, `id` | the job cache, and the fields of a job; addresses are reused after free |
| `job_list`, `max_jid` | of the zone |
| `ExistingJob`, `NonJob`, `NewJob`, `PublishJob`, `JobProcfs`, `KernelExecve`, `KernelExecveFails`, `InitTsi` | `execve_agent`, `try_new_job`, `new_job`, `ya_new_job`, `__ya_init_job` |
| `ForkEnter`, `ForkChild`, `ForkFails`, `ForkPut` | `do_fork_agent` |
| `ScheduleTail`, `ScheduleTailNoMemory`, `ThreadProcfs` | `schedule_tail_agent`, `ya_new_thread` |
| `ExitDetach`, `ExitNoThread`, `FiniThread`, `PutThread`, `UnlistJob`, `FreeJob`, `ExitMm` | `enter_exit_hook`, `ya_del_thread`, `__fini_thread`, `put_thread`, `ya_del_job` |

The step after `FreeJob` is special: the `printk` at the end of `ya_del_job`
reads `dummy_job->id` through a NULL pointer, so the task oopses and the kernel
sends it through `do_exit` a second time (`pc = "oops"`).

Three switches say what the environment may do: `AllocMayFail` (a newborn finds
no memory for its entry), `ThreadExec` (a thread that is not its group's leader
calls execve) and `ThreadedRoots` (a task with live siblings becomes a root).

Left out: address spaces shared by different thread groups (`vfork`,
`CLONE_VM` alone), reuse of pids, more than one zone (the code has one), `/proc`
entries that cannot be created, tasks other than `InitTasks` that are running when the hooks go in, and a group exit
forced on the siblings by a fatal signal.

### 2.2 JobControl

One job with a fixed set of threads, each a process of its own. A command is
two steps, the store to `job->state` and the `wake_up`, because the threads
read the state without the zone lock. The enter hook is five steps: save
`task->state`, `prepare_to_wait`, read `job->state`, then `get_up` or
`get_up` and SIGKILL. The kernel's `__schedule` is the step `Switch`: it keeps a
thread in an interruptible state on its CPU if any signal is pending. Each
thread has waits of its own on the same field `task->state`, interruptible or
not, with the loop of `wait_event`, or, for the `BareWaiters`, without a loop;
`Event` is the wake-up that such a wait is for and may come at any moment. The
threads in `Signalled` may be sent an ordinary signal at any moment, which takes
them out of an interruptible sleep, out of their bed too, and which they take on
their way back to user mode.

| TLA+ | Code |
|---|---|
| `state`, `task_state` | `task->state`, `thread->task_state` |
| `queued` | `thread->suspend_wait` is on `job->suspended_threads` |
| `killed` | `thread->state == YA_THREAD_DEAD`, SIGKILL pending |
| `job_state`, `admin` | `job->state`; the command is before its `wake_up` |
| `own`, `fired`, `signal` | the thread's own wait, its event, and a pending signal of somebody else (kernel) |
| `SuspendJob`, `ResumeJob`, `KillJob`, `WakeUp` | `__suspend_job`, `__resume_job`, `__kill_job` |
| `EnterHook`, `GoToBed`, `ReadJobState`, `GetUp`, `GoToHeaven`, `LeaveHook` | `enter_schedule_hook`, `leave_schedule_hook`, `go_to_bed`, `get_up`, `go_to_heaven` |
| `TimerTick` | `sat_interrupt_agent` |
| `Switch`, `Event`, `Signal`, `DeliverSignal` | `__schedule`, `try_to_wake_up`, sending and taking a signal (kernel) |

Left out: preemption inside the hooks, signals that kill or stop the thread
other than the job's own SIGKILL, SIGKILL reaching the siblings of a thread
group, the `TASK_DEAD` branch of the enter hook, job creation (see `JobLife`).

### 2.3 Inception

One loader works through stages, in the order of `yasched_init`,
`perform_inception`, `remove_inception` and `yasched_exit`; any task may
meanwhile run into a redirected switch point and through an agent.

| TLA+ | Code |
|---|---|
| `stage`, `pos` | the place in these four functions |
| `outcome` | why the module goes: init failed before the hooks, at the hooks, or rmmod |
| `held` | device region, cdev, `/proc` directories, caches |
| `text[p]`, `saved[p]` | what the switch point in the kernel leads to, and the module's `*_offset` or `*_hex` variable, which `__ya_xchg*` exchanges with it; `"null"` while the switch point pointer is NULL |
| `ya_count` | the same; 1 stands for each agent's own positive constant |
| `at[t]` | outside; in the module's text before the agent has counted; in the agent; after it has uncounted; dead in the agent |
| `Install`, `InstallFails`, `SkipFork` | `switch_*`, `setup_*`, and the search of `__switch_do_fork` that finds neither hook nor error |
| `Restore`, `Restored`, `Drain` | `restore_*`, `remove_*_hook`, the loop on `ya_count` |

Two switches: `SearchMayFail` (a switch point is not found) and `AgentsMayDie`
(the oops of `ya_del_job`). `Drain` tests `ya_count` and nothing else, as the
code does; the history variable `late` keeps who was in the module's text at that
moment without being counted. Left out: agents nested in agents (the inner one
is gone before the outer one is), the missing NULL tests in
`switch_pgfault_handler`, loading a second time.

### 2.4 HookedLife

`JobLife` starts with all hooks in. `HookedLife` starts with none, and lets
`perform_inception` redirect and `remove_inception` restore them one by one
while tasks run. A step of `JobLife` that enters the module at a switch point
is taken only while that point is redirected; else the task takes the kernel's
own step (`RawExecve`, `RawFork`, `RawScheduleTail`, `RawExit`), which changes
address spaces and links but tells the module nothing. Steps inside a hook stay
as they are. Roll-back and drain are `Inception`'s.

| TLA+ | Code |
|---|---|
| `hooks`, `steps` | the points redirected, and how far installation and removal have come |
| `InstallOrder`, `RemoveOrder` | `inception.c:68-95` and `132-140`, without the points that do not change jobs or members |

### 2.5 Admin and JobCommands

One yasadmin process is one client; it may run again and again. The parser is
a fold over the options; a command line that it refuses changes nothing and is
not a step. The zone's lock is a variable here, as one command spans it: look
up, store the state, `wake_up`, unlock. Births and deaths of jobs are three
steps each of which `JobLife` has more of; they take the same lock.

| TLA+ | Code |
|---|---|
| `ParseOption`, `arg_to_ulong`, `parse_jobop_argv` | one turn of the option loop, `strtol` with its checks, and the test that both options are set (`yasadmin.c`, `common.c`) |
| `jop` | the `ya_job_op_t` sent; `op` as set by `suspend_job`, `resume_job`, `kill_job` of `yasadmin.c` |
| `RunYasadmin`, `OpenDevice`, `OpenFails`, `ExitYasadmin` | `main`, `send_ctl`, the exit of the process, which closes the device |
| `fd`, `module` | the open file and the module reference behind it (`yacdev.c:29`); `live`, `going`, `gone` |
| `LockMutex`, `HandleJobOp`, `UnlockMutex` | `yacdev_ioctl`, `__handle_job_op`, `__search_zone_by_id` |
| `LockZone`, `SearchJob`, `Apply`, `WakeUp`, `UnlockZone` | `kill_job`, `suspend_job`, `resume_job` of `sched.c` with `search_job_by_id` |
| `job_op_funcs` | the table of functions that `op` indexes (`user/ioctl.c:20`) |
| `NewJob`, `UnlistJob`, `FreeJob` | `__ya_init_job` and `ya_del_job`, as far as commands can see |
| `StartRemoval`, `FreeText` | rmmod (forced with `ForcedRemoval`), and the end of it |
| `meant` | no code: what the user asked for, by the usage text |

`JobCommands` knows a job by its id alone. The refinement reads a job's state
off the one listed object that has the id.

### 2.6 ExecveScan

A variable of the environment is cut into the cells the code addresses:
`YA_SCHED`, one character that is never looked at, `ZONE_ID=`, and the rest.
`strncpy_from_user` copies cell by cell, so that another task may write the
buffer between any two of them, and leaves what lies behind the end of a short
string.

| TLA+ | Code |
|---|---|
| `Execve`, `NextString`, `Return` | `new_job` and its loop with `get_user_arg_ptr` |
| `CopyCell`, `Copied` | `strncpy_from_user` into `envbuf`, and its result |
| `TestHead`, `TestName`, `TestValue` | the comparisons with `ya_zone_str` and `zone_id_str`, eight bytes each, and the zone looked up |
| `my_atol` | the same, with 20 and the range of `int` as constants |
| `disturbed` | no code: another task wrote the buffer while this one was using it |

The string `YA_SCHED` with nothing behind it ends in its second cell, and the
code goes on to test the third one, which an earlier string may have left
(`execve.c:109`). The model does the same; `UndisturbedSearchIsRight` exempts the
searches that come to such a string, and those whose buffer another task writes.
`EnvironmentsAssumption` says only where the NUL of a string is.

### 2.7 HookSearch

What is searched is a sequence of instructions, those of the function and
those behind it. An instruction is its opcode and its other bytes, which may be
anything, `e8` and `e9` included: a displacement, an operand (`48 89 e8`) or an
immediate. `memmem` searches the bytes of a whole window and knows no function's
end. One behaviour is one search, which ends with a hook at a position, an
error, an oops (an address that is not there is read), or nothing at all.
`switch_execve`, `switch_schedule_tail`, `switch_pgfault_handler`,
`switch_smp_apic_timer_interrupt` and `switch_do_fork` are operators. The windows
of 64, 128 and 512 bytes are constants.

`kernel` says what `__switch_do_fork` compares with: the address that kallsyms
gave for `_do_fork`, zero (then a target is accepted by its first bytes, `55` or
`41 57`), or an error code, which equals no address (`lib.c:94-120`); and what
lies where four bytes lead that are no displacement: such a prologue, something
else, or no memory.

Left out: that four bytes which are no displacement happen to lead to the very
function looked for. Behind the last byte modelled `memmem` finds nothing: a run
ends its code with an instruction longer than every window; the theorems hold
for code of any length.

## 3. Runs

| Run | Instance | States | Shows |
|---|---|---|---|
| `joblife_safety` | 3 tasks, 2 of them running at the start, 2 job addresses, 2 slots, 3 job ids, lost entries, execve by threads, fair | 123,152 | `TypeOK`, `MemberJobAllocated`, `EntryJobAllocated`, `JobListWellFormed`, `ForkPutNotLast`, `ProcfsTree`, `SingleDeleter`, `CountNeverShort`, `FileLeftOnlyByRename`, `NoResurrection`, `CountLostOnlyWithoutEntry`, `AbandonedJobFreed`, and that the hooks implement `JobMembership` |
| `jobcontrol_safety` | 2 threads, all commands; one waits bare, the other gets signals | 4,963,958 | `TypeOK`, `NoSleeperLeftBehind`, `NotQueuedOutside`, `SleepHasReason`, `RunsRunnable` |
| `jobcontrol_live` | 1 thread with waits and signals, fair | 5,942 | `SuspendTakesEffect`, `KillTakesEffect` |
| `inception` | 3 tasks, every failure, agents that die, fair | 64,904 | `TypeOK`, `KernelTextClean`, `CountedChildrenCanLeave`, `NothingLeft`, `RemovalWaitsForAgents`, `RemovalEndsUnlessOopsed` |
| `admin_commands` | 2 clients, 2 job addresses, 2 job ids, 11 command lines, numbers of two bits, fair | 78,104 | `TypeOK`, `OnlyProperSent`, `CommandTouchesLiveJob`, `NoIoctlInFreedText`, `CommandEnds`, and that `Admin` implements `JobCommands` |
| `execve_scan` | 2 tasks, 20 environments of up to two strings, a buffer of 4 cells | 2,880,778 | `TypeOK`, `UndisturbedSearchIsRight`, `ZoneNumberAsWritten` |
| `hook_search` | 9 instructions, code of up to 4 of them and a long one behind, 5 searches | 191,906 | `CountedCallHooked`, `CallAfterGetnameHooked`, `OnlyFirstPlacesTried` |

What some of these say needs a word:

- `FileLeftOnlyByRename` and `CountLostOnlyWithoutEntry` do not claim that no
  file stays and no count is lost, which is not so (`sched.c:56`, and the list
  below), but name the one way in which each happens; every other way, all
  races of forks, failed forks and exits among them, is excluded.
- `AbandonedJobFreed` speaks of jobs for which nothing was lost (`Excess` is
  zero) and whose last members are in their exit hooks.
- `SleepHasReason`, `RunsRunnable` and `KillTakesEffect` speak of threads that
  wait in a loop. One that waits bare is put back to sleep for nothing when it
  is woken from its bed, or runs on in `TASK_INTERRUPTIBLE`; the other threads
  are not harmed by that.
- `RemovalWaitsForAgents` says that nobody is in the module's text after the
  wait but those that `ya_count` does not show; that these exist is what
  `freed_text` shows. `RemovalEndsUnlessOopsed`: with an oops in an agent, which
  every deletion of a job brings (`sched.c:345`), rmmod waits for ever.
- `CountedCallHooked` and `CallAfterGetnameHooked` say exactly when the search
  finds the call it counts to, and where it goes instead. `OnlyFirstPlacesTried`:
  the loop looks at no more than two places, however often it turns.

**Bounds.** `MaxJid` bounds the number of jobs ever created (a guard of
`NewJob`); the other bounds are the sets themselves. Two running tasks and one
that can be born give two jobs at once, a job with two or three members, two
members leaving at once, forks of threads and of processes, an execve that
takes over the leader's pid with an entry in the other slot, and the reuse of a
job's address by a later job (three ids, two addresses). With four tasks and
one root (12.4 million states, about five minutes) the same properties hold.
In `JobControl` threads meet only through the queue, which one `wake_up` empties
as a whole: two threads are enough to be woken separately or together. Signals
and bare waits concern one thread at a time, and each is given to one of the two. Liveness
is checked for one thread, as no thread's progress depends on another's. In
`Inception` the ten switch points and the stages are those of the code; tasks
meet only in `ya_count`, and three of them make it rise and fall while
others hold it. In `Admin` two clients are all that the two locks can tell
apart, two addresses and two ids let one job be named while another one lives
or takes over its memory, and numbers of two bits have a negative one that
wraps around to a proper id, one that is the error value, and one out of range.
In `ExecveScan` the strings are those that each test tells apart (too short, too
long for the buffer, `YA_SCHED` alone, the same with one more character, another
variable that begins so, the name with zones 0, 5, 16, none, and one
with a digit too many), with 2 digits for 20 and 16 values for an `int`. In
`HookSearch` four instructions are enough for a third call and something before
it, and the windows are small enough to end before, inside and behind them; some
instructions have an `e8` or `e9` in a displacement or an operand.

**Deadlock** is checked in `admin_commands` and in `execve_scan`: a client and a
search can always go on. In the other runs all tasks may be dead, or the one
search over, and the system may then stop.

**Fairness.** `JobLife`: weak fairness of the steps of each task that is inside
a hook, i.e. the kernel goes on scheduling a runnable task; no task is forced
to fork, execve or exit. `JobControl`: weak fairness of the steps inside
`schedule()` and the hooks, of a command's `wake_up` and of the timer tick
(the timer interrupts a thread that occupies a CPU again and again); strong
fairness of the three things a thread does on its way back to user mode, calling
`schedule()` when `TIF_NEED_RESCHED` is set, dying when SIGKILL is pending and
taking another signal:
a thread that leaves the hooks over and over gets back to user mode infinitely
often, but not continuously. Events, signals, commands, new waits and voluntary
exits are not fair. `SuspendTakesEffect` assumes that the thread's own events and
the signals sent to it stop: each takes a suspended thread out of bed, and an
endless stream of them is an endless stream of short runs of the thread. `Inception`: weak fairness of
the loader's way out and of each task inside the module. It assumes that the
kernel function an agent wraps returns; the `vfork` of a suspended job's thread
does so only after the administrator's `resume`. `Admin`: weak fairness of the
steps of each client once it has started, and strong fairness of the two steps
that take a lock: the kernel's mutex hands itself to waiters in turn, and the
zone's spin lock is a queued one; jobs may come and go as they like meanwhile.

### Disagreements with the code's own statements

Each of these runs checks one statement of a comment or of the manual, and TLC
finds a behaviour of the code that violates it.

| Run | Statement | What happens |
|---|---|---|
| `joblife_dangling` | `sched.c:119` "if it is down to zero then the job can be detroyed safely" | the deleter itself stays linked to the freed job until it leaves its address space; the timer and schedule hooks and its second pass through the exit hook follow the link |
| `jobcontrol_lost_event` | `yasadmin.1:25` "resume a specific job" | an event between saving and restoring `task->state` is overwritten; the thread sleeps on although its job runs |
| `freed_text` | `README.md:3` "The hook can be inserted and removed on-the-fly." | `remove_inception` waits for `ya_count` alone: a task between the jump and the agent's first statement, or between its last one and the return, is not in it, and the module's text is freed under it |
| `founds_only_if_asked` | `execve.c:136` "If ``current'' is the root of a new job" | two tasks in execve at once read each other's variables: a task founds a job that its own environment does not ask for |
| `loading_gap` | `README.md:3` "The hook can be inserted and removed on-the-fly." | a task founds a job after `do_execve` was redirected and forks before `do_fork` is; the child is a member nobody counted, and the job is freed while one of the two is still in it; removal takes the fork points out first and has the same gap |

The models show more, which is documented here and has no run of its own. The
constant or property named in brackets shows it.

Life cycle:

- execve fails after the job was founded; `init_job(&tsi)` links the old address
  space all the same, and a second thread in it becomes a member that nobody
  counted (`ThreadedRoots = TRUE` violates `MemberJobAllocated`);
- a child for which `ya_new_thread` gave up (`fork.c:40`) runs, and forks, as a
  member without entry, although `fork.c:76` says "the thread must have been
  created!"; it is never uncounted (`AllocMayFail`, `CountExact`);
- a thread that gets its leader's pid in execve is looked up in another slot
  (`sched.c:131`) than its entry was filed in, and entry, `/proc` file and count
  stay for ever (`ThreadExec`, `CountExact`; it is the exception of
  `FileLeftOnlyByRename`; what `exit.c:26-31` says of a NULL thread does not hold).

Job control:

- the leave hook writes back the state from before the bed: a wait without a
  loop ends in a thread that runs in `TASK_INTERRUPTIBLE` (`RunsRunnable` does
  not hold for `BareWaiters`), although `sched.h:79` says "finish_wait() set the
  task state as TASK_RUNNING";
- `suspend` overwrites `KILLED` (`sched.c:231`), and a later `resume` lets the
  threads run that had not yet met the kill; hence the premise of
  `KillTakesEffect`;
- a thread blocked in a wait of its own is never told of a kill; hence the
  conclusion of `KillTakesEffect`;
- a thread that waits uninterruptibly with a signal pending is not put off its
  CPU by a suspension: `go_to_bed` makes it interruptible, the signal keeps
  `__schedule` from putting it to sleep, and it spins until its event comes;
  hence the conclusion of `SuspendTakesEffect`.

Loading and removal:

- when a hook is not found, the roll-back destroys the caches and the module
  goes while agents of the earlier hooks run, as only `remove_inception` waits
  (`SearchMayFail = TRUE` violates `NobodyInFreedText` with counted agents too;
  hence `outcome = "removed"` in `RemovalWaitsForAgents`);
- a task that dies in an agent (every deletion of a job does, `sched.c:345`)
  keeps `ya_count` above zero, and rmmod waits for ever (hence the alternative
  in `RemovalEndsUnlessOopsed`);
- each turn of the search for `do_fork` starts at the same place, so that a wrong
  candidate is met again until the window is used up: if its offset divides what
  is left, the fork point is passed over without hook or error
  (`OnlyFirstPlacesTried`);
- when kallsyms gives zero, any target that begins with `55` or `41 57` passes for
  `do_fork`, and a byte that is no call makes the module read where there may be
  no memory (`Faults`);
- the page fault search reads through NULL when it finds no call; the timer's
  next search starts inside the last call's displacement, and a byte there that
  looks like a call is taken for one; an `e8` in an operand before the call meant
  is taken for it, and in a function with too few calls the next function's are
  (`CountedCallHooked`).

Environment and administration:

- after a string that names the variable, another execve whose environment has
  the string `YA_SCHED` reads the rest of the first one's (`execve.c:109`): one
  task at a time is enough to violate `FoundsOnlyIfAsked` in this way;
- the character between `YA_SCHED` and `ZONE_ID=` is not tested, so that any
  variable of that shape counts; a number above the range of `int` wraps around,
  perhaps to zone 0 (`ZoneNumberAsWritten` is modulo `INT_MOD`);
- `rmmod -f`, which `yasche.sh:23` uses, removes the module under an ioctl in
  flight (`ForcedRemoval = TRUE` violates `NoIoctlInFreedText`).

## 4. Proofs

`JobLife_proofs` proves for every finite set of tasks, every set of jobs, any
number of slots and any bound on job ids, with lost entries and execve by
threads allowed, and under the one assumption `ThreadedRoots = FALSE`, without
which TLC finds `MemberJobAllocated` violated:

| Theorem | States |
|---|---|
| `TypeCorrect` | `Spec => []TypeOK`; in particular no count falls below zero |
| `MembersAreSafe` | `Spec => []MemberJobAllocated` |
| `EntriesAreSafe` | `Spec => []EntryJobAllocated` |
| `CountsAreSound` | `Spec => []CountNeverShort` |
| `ForkNeverDeletes` | `Spec => []ForkPutNotLast` |
| `Refinement` | `Spec => ImplementsMembership` |

*Argument.* None of these is inductive by itself: that a link is safe depends
on the count, the count on who still owes a `put_thread`, and that on where
each task is. The inductive invariant `IInv` joins four parts: `TypeOK`;
`Consistent(t)`, which ties a task's `pc` to what it holds in `loc`, `entry`
and `link`; `Groups`, that tasks of one address space agree on their job; and
`Counted`, that each job's `alive_proc` is at least the number of its members,
children counted ahead, and that a job someone is a member of, holds or deletes
is allocated. The definition that makes it work is `CountedIn(t)`, the job
whose count holds a member for `t`: it is also the refinement mapping to
`JobMembership`. Each action has one lemma that proves `IInv'` and, from the
same case split, that the step is a membership step or a stutter. Three
generic lemmas serve most of them: a step that changes neither counts nor
members, a step that changes one task only, and the change of a cardinality
when one task enters or leaves a set.

`JobList_proofs` adds, under the same assumption:

| Theorem | States |
|---|---|
| `ListIsWellFormed` | `Spec => []JobListWellFormed` |
| `FilesHaveDirectories` | `Spec => []ProcfsTree` |
| `DeletedOnce` | `Spec => []SingleDeleter` |
| `ZeroIsFinal` | `Spec => NoResurrection` |

*Argument.* `ListInv`, on top of `IInv`: whatever a task is counted in is listed,
and has its directory, once the job's root has put it there; a deleter's job is
on the list exactly until it has unlisted it; and ids are given out in
ascending order. The job that a `put_thread` finds at one was counted for the
task itself, hence listed; the job that is freed has nobody counted in it,
hence no entry and no file. `ZeroIsFinal` follows from `IInv` alone: who counts
up or down is counted in that job, so its count was not zero.

and says of the files, with lost entries and execve by threads allowed:

| Theorem | States |
|---|---|
| `FilesLeftByRename` | `Spec => []FileLeftOnlyByRename` |

*Argument.* As long as an entry is in the slot of its task's pid the exit hook
finds it, and takes its file away first; a task without an entry has no file.

The second half of the module proves that nothing is lost, under two more
assumptions, `AllocMayFail = FALSE` and `ThreadExec = FALSE`, each of which is
needed:

| Theorem | States |
|---|---|
| `CountsAreExact` | `Spec => []CountExact` |

*Argument.* `CountExact` depends on the exit hook's finding each entry, and
`ExactInv` adds what it looks for: a linked task outside the hooks has an entry,
and the entry is in the slot of its task's pid (`Findable`). The steps that
count nobody are treated together (`Quiet`); the four that count (`NewJob`,
`ForkEnter`, `ForkPut`, `PutThread`) change one count and one set of holders by
one; a birth turns the parent's hold for its child into the child's own.

`JobControl_proofs` proves for any set of threads, any of them waiting bare and
any getting signals:

| Theorem | States |
|---|---|
| `NobodyIsLeftInBed` | `Spec => []NoSleeperLeftBehind`, the freedom from lost wake-ups |
| `NobodyIsQueuedOutside` | `Spec => []NotQueuedOutside` |
| `NobodySleepsForNothing` | `Spec => []SleepHasReason`, of the threads that wait in a loop |
| `ThreadsRunRunnable` | `Spec => []RunsRunnable`, of the same |
| `TypeCorrect` | `Spec => []TypeOK` |

*Argument.* `BedInv` says of every place in the hooks whether the thread is on
the queue, and that a thread between reading `SUSPENDED` and leaving the CPU,
or in bed, is either still covered by `job_state = "SUSPENDED"`, or by a
pending `wake_up`, or already runnable. `StateInv` adds what `task->state` can
be at each place.

`Inception_proofs` proves for any finite set of tasks:

| Theorem | Assumes | States |
|---|---|---|
| `TypeCorrect` | nothing | `Spec => []TypeOK`, `ya_count` never goes below zero |
| `KernelTextIsClean` | nothing | `Spec => []KernelTextClean` |
| `ForkHooksAreInnermost` | nothing | `Spec => []CountedChildrenCanLeave` |
| `RemovalWaits` | nothing | `Spec => []RemovalWaitsForAgents` |
| `EverythingReleased` | nothing | `Spec => []NothingLeft` |

*Argument.* `HookInv` says how far the installation has redirected the points,
and how far the restoration has given them back; the step that needs care is a
failure at position `pos`, where the roll-back begins in the middle of the
restoring order, and the lemma `OrdersAreReverse` shows that what it leaves out
was never redirected. `ReleaseInv` says what may still be held at each label of
the way out. `CountInv` equates `ya_count` with the number of tasks
that have added to it, so that a zero count means that whoever is in the module's
text is in `late`; with `HookInv`, nobody jumps into it any more.

`Admin_proofs` proves for any sets of clients and jobs, any number of ids, any
width of numbers and any command lines:

| Theorem | Assumes | States |
|---|---|---|
| `TypeCorrect` | nothing | `Spec => []TypeOK` |
| `SentIsProper` | nothing | `Spec => []OnlyProperSent` |
| `CommandsTouchLiveJobs` | nothing | `Spec => []CommandTouchesLiveJob` |
| `TextOutlivesIoctls` | `~ForcedRemoval` | `Spec => []NoIoctlInFreedText` |
| `CommandsImplemented` | nothing | `Spec => ImplementsCommands` |

*Argument.* `LockInv` says who holds the zone's lock, and that the job found
under it stays listed with the id that was asked for; jobs leave the list
under the same lock. `FileInv` says that a client in the module's text has the
device open, and that then the module is live. For the refinement the abstract
jobs are looked up by id, and no two listed jobs share one: a store to one
object is a store to one abstract job, `Apply` is `Do`, a lookup without
result is `NoSuchJob`, and births and deaths map to themselves. The parser is a
fold over the options. Its lemmas first take the fold apart into turns
(`TurnsStep`), then carry the loop's invariant `Parsed` through them: as long
as no error is met, each option so far was a proper one, and each field that is
set holds the value of the last option that sets it. `ParserReads` concludes
that the parser accepts only what the usage text allows, and reads from it what
the usage text says.

`ExecveScan_proofs` proves for any set of tasks, any environments and any buffer of at least four cells:

| Theorem | States |
|---|---|
| `UndisturbedSearches` | `Spec => []UndisturbedSearchIsRight` |
| `TypeCorrect` | `Spec => []TypeOK` |
| `ZoneNumbers` | `Spec => []ZoneNumberAsWritten`, for any number of digits and any size of an int |

*Argument.* `SearchInv` says of a task whose buffer nobody else has written that
the strings before the current one decided nothing, and that the cells copied
so far are those of its string. The cells that a test reads lie within the
string, as one that begins with `YA_SCHED` and is not bare has three and one that
names the variable four: only at a bare one does a test read what an earlier
string left.

For `ZoneNumbers`, `Read` is the invariant of `my_atol`'s loop: the characters
read are digits up to some place, the accumulator is what they are worth, modulo
the size of an int, and the loop has ended if another character followed.
`Worth` is the sum of the digits by their weights, which `my_atol` does not
compute; `WorthStep` shows that one more digit multiplies the sum by ten and adds
the digit, and `DigitModulo` that the remainder follows.

`HookSearch_proofs` proves for any code of any length and for any windows:

| Theorem | States |
|---|---|
| `CountedCalls` | `Spec => []CountedCallHooked` |
| `CallAfterGetname` | `Spec => []CallAfterGetnameHooked` |
| `ForkPoints` | `Spec => []OnlyFirstPlacesTried` |

The assumptions, `CodesAssumption` and `WindowsAssumption`, say what instructions
are made of, and that windows are not empty.

*Argument.* `TextHolds` relates the bytes that are searched to the instructions
they come from: instruction `m` fills the places from `Start(c, m)` on, and each
place lies in one instruction (`PlaceOf`). The bytes `e8` are then the starts of
calls and the strays. `IsHop` is the heart: a search finds the least place of the
byte that is not before its start, if that is in the window. Each search function is one, two
or three hops; after the first, a hop begins inside the call it has found, or
right behind it. If a stray comes first, the hop ends there, and every later hop
stays before the call meant; that gives both directions of the equivalences.

The loop of `__switch_do_fork` is a recursive function, which exists as each turn
that goes on makes the window smaller. A smaller window has the same first place,
or none (`Narrower`); so the turns take the first jmp's offset away from the
window until it no longer reaches the jmp, then the first call's. What is left is
a remainder (`TakeAway`), and the answer of the whole loop is invariant under a
turn with a wrong candidate (`AnswerStays`).

**Induction.** The induction theorems of the library take an operator as a
parameter, which the provers cannot instantiate, and so do its theorems about
recursive functions. `FoldLemmas` therefore derives induction for a *set* of
numbers from the fact that they are well-founded (`NatSetInd`), and the proofs
above use it for two things: that a recursively defined function exists, which
its definition by `CHOOSE` leaves open, and that a loop's invariant holds after
each turn. The folds of the community modules are functions on the subsets of a
set; `IsLoop` and `Sums` name them.

TLC checked what the theorems state on the runs' instances before it was proved. Every invariant that a passing run checks
is also a theorem, under the assumptions named; so are the action property
`NoResurrection` and the two refinements.

*Model-checked only*: liveness (`AbandonedJobFreed`, `SuspendTakesEffect`,
`KillTakesEffect`, `RemovalEndsUnlessOopsed`, `CommandEnds`), which is out of reach
of the prover, as is `ENABLED`; the action property `CountLostOnlyWithoutEntry`;
and the five violations of section 3.

## 5. Not modelled, and plan

Done: the life cycle and its refinement (`JobLife`, `JobMembership`), job
control (`JobControl`), loading and removal (`Inception`), the composition of
the life cycle with the hooks that come and go (`HookedLife`), the
administrator's commands and their refinement (`Admin`, `JobCommands`), the scan
of the environment (`ExecveScan`), the searches for the switch points
(`HookSearch`).

Left, in the order of importance:

1. **Job control at removal**: a job that is suspended when the module goes;
   `exit_sched` does not look at it. It needs `JobControl` composed with
   `Inception`. **`HookedLife` as a theorem**: that members are safe in it while
   all hooks are in, from the invariant of `JobLife_proofs`.
2. **Thread groups in job control**: SIGKILL reaching the siblings, and the
   `TASK_DEAD` branch of the enter hook.
3. **The two schedule hooks' and the exit hook's searches**
   (`arch/x86_64/{sched,exit}.c`), which compare signatures of several bytes and
   replace whole instructions.
4. **Shared address spaces** of different thread groups (`vfork`, `CLONE_VM`) in
   `JobLife`, and `/proc` entries that cannot be created.

Not planned: patching at the level of bytes, page protection, `/proc/kallsyms`
and the vector table, the contents of `/proc` files and the lists that yasadmin
prints from them, formatting and logging, and the sequential front ends
(`yasub`, `yash`), whose only effect is the execve that `JobLife` and
`ExecveScan` start from. The kernel's own functions appear only as far as the
hooks depend on them.
