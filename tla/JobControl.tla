------------------------------ MODULE JobControl ------------------------------
(***************************************************************************)
(* Suspending, resuming and killing one job of yasched.                    *)
(*                                                                         *)
(* The administrator's commands change job->state and wake the job's wait  *)
(* queue (lkm/sched/sched.c).  The job's threads notice in the hook at the *)
(* start of the kernel's __schedule, where they go to bed, i.e. onto that  *)
(* queue, and leave the bed there or in the hook at its end                *)
(* (lkm/hook/sched.c, lkm/sched/sched.h); the timer hook makes a running   *)
(* thread call __schedule (lkm/hook/timer.c).  Meanwhile the threads wait  *)
(* for events of their own, with the same field task->state.               *)
(*                                                                         *)
(* The kernel (wait queues, try_to_wake_up, __schedule, signals) is        *)
(* modelled from its use.  Each thread is a process of its own, and the    *)
(* kernel is not preemptible inside the hooks.                             *)
(***************************************************************************)
EXTENDS Naturals

CONSTANTS
    Threads,        \* the threads of the job
    BareWaiters,    \* those that may wait without testing their event again
    Signalled       \* those that somebody else may send a signal

ASSUME ThreadsAssumption == BareWaiters \subseteq Threads /\ Signalled \subseteq Threads

VARIABLES
    pc,           \* where each thread is
    state,        \* task->state: "R"unning, "S" interruptible, "D" uninterruptible
    task_state,   \* thread->task_state, saved by the enter hook
    queued,       \* is the thread's suspend_wait on job->suspended_threads?
    own,          \* the thread's own wait: "none", "S", "D", or "bare"
    fired,        \* has the event of the own wait happened?
    killed,       \* thread->state == YA_THREAD_DEAD: SIGKILL was sent
    signal,       \* is a signal of somebody else pending?
    need_resched, \* TIF_NEED_RESCHED
    job_state,    \* job->state
    admin         \* the administrator's command: "idle" or before its wake_up

hookVars == <<task_state, queued>>
waitVars == <<own, fired>>
signalVars == <<killed, signal>>
jobVars  == <<job_state, admin>>
vars == <<pc, state, task_state, queued, own, fired, killed, signal, need_resched, job_state, admin>>

PC == {"run",                                     \* user mode or a system call
       "check",                                   \* own wait: about to test its event
       "enter", "saved", "inbed", "getup", "heaven",  \* enter_schedule_hook
       "switch", "off", "leave", "left",          \* __schedule, leave_schedule_hook
       "dead"}

TypeOK ==
    /\ pc \in [Threads -> PC]
    /\ state \in [Threads -> {"R", "S", "D"}]
    /\ task_state \in [Threads -> {"R", "S", "D"}]
    /\ queued \in [Threads -> BOOLEAN]
    /\ own \in [Threads -> {"none", "S", "D", "bare"}]
    /\ fired \in [Threads -> BOOLEAN]
    /\ killed \in [Threads -> BOOLEAN]
    /\ signal \in [Threads -> BOOLEAN]
    /\ need_resched \in [Threads -> BOOLEAN]
    /\ job_state \in {"RUNNING", "SUSPENDED", "KILLED"}
    /\ admin \in {"idle", "wake"}

Init ==
    /\ pc = [t \in Threads |-> "run"]
    /\ state = [t \in Threads |-> "R"]
    /\ task_state = [t \in Threads |-> "R"]
    /\ queued = [t \in Threads |-> FALSE]
    /\ own = [t \in Threads |-> "none"]
    /\ fired = [t \in Threads |-> FALSE]
    /\ killed = [t \in Threads |-> FALSE]
    /\ signal = [t \in Threads |-> FALSE]
    /\ need_resched = [t \in Threads |-> FALSE]
    /\ job_state = "RUNNING"
    /\ admin = "idle"

Goto(t, l) == pc' = [pc EXCEPT ![t] = l]

SetState(t, s) == state' = [state EXCEPT ![t] = s]

\* The task state in which a thread waits for its own event.
WaitState(w) == IF w = "bare" THEN "S" ELSE w

\* Mutant: only the queue is left, the task state stays that of the bed.
get_up_KeepsState(t) ==
    /\ queued' = [queued EXCEPT ![t] = FALSE]
    /\ UNCHANGED state

\* finish_wait, then the saved task state is restored.
get_up(t) ==
    /\ queued' = [queued EXCEPT ![t] = FALSE]
    /\ SetState(t, task_state[t])

-----------------------------------------------------------------------------
(* A thread's own waits.  wait_event's loop sets the task state, tests the *)
(* event, calls schedule() and starts again; a bare wait, for example      *)
(* set_current_state and schedule_timeout (sched.c:100), tests nothing.    *)

BeginWait(t, w) ==
    /\ pc[t] = "run"
    /\ w = "bare" => t \in BareWaiters
    /\ own' = [own EXCEPT ![t] = w]
    /\ fired' = [fired EXCEPT ![t] = FALSE]
    /\ SetState(t, WaitState(w))
    /\ Goto(t, "check")
    /\ UNCHANGED <<hookVars, signalVars, need_resched, jobVars>>

\* signal_pending: a SIGKILL counts as any other signal.
Pending(t) == killed[t] \/ signal[t]

\* The event has happened, or a signal ends an interruptible wait.
WaitOver(t) == own[t] # "bare" /\ (fired[t] \/ (own[t] = "S" /\ Pending(t)))

EndWait(t) ==
    /\ pc[t] = "check"
    /\ WaitOver(t)
    /\ own' = [own EXCEPT ![t] = "none"]
    /\ SetState(t, "R")
    /\ Goto(t, "run")
    /\ UNCHANGED <<hookVars, fired, signalVars, need_resched, jobVars>>

CallSchedule(t) ==
    /\ pc[t] = "check"
    /\ ~WaitOver(t)
    /\ Goto(t, "enter")
    /\ UNCHANGED <<state, hookVars, waitVars, signalVars, need_resched, jobVars>>

(* The event happens: try_to_wake_up makes a sleeper runnable.             *)
Event(t) ==
    /\ own[t] # "none" /\ ~fired[t]
    /\ fired' = [fired EXCEPT ![t] = TRUE]
    /\ SetState(t, "R")
    /\ Goto(t, IF pc[t] = "off" THEN "leave" ELSE pc[t])
    /\ UNCHANGED <<hookVars, own, signalVars, need_resched, jobVars>>

(* Somebody else sends the thread a signal, which wakes it out of an       *)
(* interruptible sleep: out of its bed, too.                               *)
Signal(t) ==
    /\ t \in Signalled /\ pc[t] # "dead" /\ ~signal[t]
    /\ signal' = [signal EXCEPT ![t] = TRUE]
    /\ IF state[t] = "S"
       THEN SetState(t, "R") /\ Goto(t, IF pc[t] = "off" THEN "leave" ELSE pc[t])
       ELSE UNCHANGED <<pc, state>>
    /\ UNCHANGED <<hookVars, waitVars, killed, need_resched, jobVars>>

(* On its way back to user mode the thread takes the signal.               *)
DeliverSignal(t) ==
    /\ pc[t] = "run" /\ signal[t]
    /\ signal' = [signal EXCEPT ![t] = FALSE]
    /\ UNCHANGED <<pc, state, hookVars, waitVars, killed, need_resched, jobVars>>

(* A running thread calls schedule() of its own accord.                    *)
Yield(t) ==
    /\ pc[t] = "run"
    /\ Goto(t, "enter")
    /\ UNCHANGED <<state, hookVars, waitVars, signalVars, need_resched, jobVars>>

(* On its way back to user mode a thread must call schedule().             *)
Resched(t) == need_resched[t] /\ Yield(t)

(* The thread exits; exit hook and do_exit free its entry.                 *)
Exit(t) ==
    /\ pc[t] = "run"
    /\ Goto(t, "dead")
    /\ UNCHANGED <<state, hookVars, waitVars, signalVars, need_resched, jobVars>>

(* A thread with a pending SIGKILL exits before it is back in user mode.   *)
ExitKilled(t) == killed[t] /\ Exit(t)

-----------------------------------------------------------------------------
\* Mutant: only a kill interrupts running threads.
TimerTick_KillOnly(t) ==
    /\ pc[t] \notin {"off", "dead"}
    /\ job_state = "KILLED"
    /\ need_resched' = [need_resched EXCEPT ![t] = TRUE]
    /\ UNCHANGED <<pc, state, hookVars, waitVars, signalVars, jobVars>>

\* Mutant: only a suspension interrupts running threads.
TimerTick_SuspendOnly(t) ==
    /\ pc[t] \notin {"off", "dead"}
    /\ job_state = "SUSPENDED"
    /\ need_resched' = [need_resched EXCEPT ![t] = TRUE]
    /\ UNCHANGED <<pc, state, hookVars, waitVars, signalVars, jobVars>>

(* sat_interrupt_agent: the timer interrupts a thread of a suspended or    *)
(* killed job.                                                             *)
TimerTick(t) ==
    /\ pc[t] \notin {"off", "dead"}
    /\ job_state \in {"SUSPENDED", "KILLED"}
    /\ need_resched' = [need_resched EXCEPT ![t] = TRUE]
    /\ UNCHANGED <<pc, state, hookVars, waitVars, signalVars, jobVars>>

\* Mutant: a thread that was woken out of its bed keeps the state saved before.
EnterHook_SavesOnce(t) ==
    /\ pc[t] = "enter"
    /\ task_state' = IF task_state[t] = "R" THEN [task_state EXCEPT ![t] = state[t]] ELSE task_state
    /\ Goto(t, "saved")
    /\ UNCHANGED <<state, queued, waitVars, signalVars, need_resched, jobVars>>

(* enter_schedule_hook saves the task state.                               *)
EnterHook(t) ==
    /\ pc[t] = "enter"
    /\ task_state' = [task_state EXCEPT ![t] = state[t]]
    /\ Goto(t, "saved")
    /\ UNCHANGED <<state, queued, waitVars, signalVars, need_resched, jobVars>>

(* go_to_bed: prepare_to_wait, under the queue's lock.                     *)
GoToBed(t) ==
    /\ pc[t] = "saved"
    /\ queued' = [queued EXCEPT ![t] = TRUE]
    /\ SetState(t, "S")
    /\ Goto(t, "inbed")
    /\ UNCHANGED <<task_state, waitVars, signalVars, need_resched, jobVars>>

(* enter_schedule_hook, switch (job->state).                               *)
ReadJobState(t) ==
    /\ pc[t] = "inbed"
    /\ \/ job_state = "SUSPENDED" /\ Goto(t, "switch")
       \/ job_state = "KILLED" /\ Goto(t, "heaven")
       \/ job_state = "RUNNING" /\ Goto(t, "getup")
    /\ UNCHANGED <<state, hookVars, waitVars, signalVars, need_resched, jobVars>>

GetUp(t) ==
    /\ pc[t] = "getup"
    /\ get_up(t)
    /\ Goto(t, "switch")
    /\ UNCHANGED <<task_state, waitVars, signalVars, need_resched, jobVars>>

(* get_up and go_to_heaven: once per thread a SIGKILL, which makes the     *)
(* thread runnable unless it is about to wait uninterruptibly.             *)
GoToHeaven(t) ==
    /\ pc[t] = "heaven"
    /\ queued' = [queued EXCEPT ![t] = FALSE]
    /\ SetState(t, IF ~killed[t] /\ task_state[t] = "S" THEN "R" ELSE task_state[t])
    /\ killed' = [killed EXCEPT ![t] = TRUE]
    /\ Goto(t, "switch")
    /\ UNCHANGED <<task_state, waitVars, signal, need_resched, jobVars>>

(* The kernel's __schedule: a runnable thread, or one that a signal keeps  *)
(* from an interruptible sleep (signal_pending_state), gets the CPU again; *)
(* others leave it.                                                        *)
Switch(t) ==
    LET stays == state[t] = "R" \/ (state[t] = "S" /\ Pending(t)) IN
    /\ pc[t] = "switch"
    /\ need_resched' = [need_resched EXCEPT ![t] = FALSE]
    /\ IF stays THEN Goto(t, "leave") /\ SetState(t, "R")
                ELSE Goto(t, "off") /\ UNCHANGED state
    /\ UNCHANGED <<hookVars, waitVars, signalVars, jobVars>>

\* Mutant: a thread that leaves __schedule stays in bed.
LeaveHook_StaysInBed(t) ==
    /\ pc[t] = "leave"
    /\ Goto(t, "left")
    /\ UNCHANGED <<state, hookVars, waitVars, signalVars, need_resched, jobVars>>

(* leave_schedule_hook.                                                    *)
LeaveHook(t) ==
    /\ pc[t] = "leave"
    /\ IF queued[t] THEN get_up(t) ELSE UNCHANGED <<queued, state>>
    /\ Goto(t, "left")
    /\ UNCHANGED <<task_state, waitVars, signalVars, need_resched, jobVars>>

(* schedule() returns to its caller.                                       *)
ReturnToRun(t) ==
    /\ pc[t] = "left"
    /\ own[t] \in {"none", "bare"}
    /\ own' = [own EXCEPT ![t] = "none"]
    /\ Goto(t, "run")
    /\ UNCHANGED <<state, hookVars, fired, signalVars, need_resched, jobVars>>

ReturnToWait(t) ==
    /\ pc[t] = "left"
    /\ own[t] \in {"S", "D"}
    /\ SetState(t, own[t])
    /\ Goto(t, "check")
    /\ UNCHANGED <<hookVars, waitVars, signalVars, need_resched, jobVars>>

-----------------------------------------------------------------------------
(* The administrator's commands; ya_ioctl_mutex and the zone lock admit    *)
(* one at a time.  A command finds the job while it has a thread.          *)
FindsJob == admin = "idle" /\ \E t \in Threads : pc[t] # "dead"

threadVars == <<pc, state, hookVars, waitVars, signalVars, need_resched>>

(* __suspend_job *)
SuspendJob ==
    /\ FindsJob
    /\ job_state' = "SUSPENDED"
    /\ UNCHANGED <<threadVars, admin>>

\* Mutant: the constant of a live thread is stored instead of a running job's.
ResumeJob_WrongConstant ==
    /\ FindsJob
    /\ job_state = "SUSPENDED"
    /\ job_state' = "ALIVE"
    /\ admin' = "wake"
    /\ UNCHANGED threadVars

(* __resume_job up to its wake_up; it does nothing to other jobs.          *)
ResumeJob ==
    /\ FindsJob
    /\ job_state = "SUSPENDED"
    /\ job_state' = "RUNNING"
    /\ admin' = "wake"
    /\ UNCHANGED threadVars

(* __kill_job up to its wake_up.                                           *)
KillJob ==
    /\ FindsJob
    /\ job_state' = "KILLED"
    /\ admin' = IF job_state = "SUSPENDED" THEN "wake" ELSE "idle"
    /\ UNCHANGED threadVars

\* Mutant: go_to_bed waits exclusively, so that wake_up wakes one thread only.
WakeUp_One ==
    /\ admin = "wake"
    /\ admin' = "idle"
    /\ \/ \E t \in Threads :
            /\ queued[t] /\ state[t] # "R"
            /\ queued' = [queued EXCEPT ![t] = FALSE]
            /\ SetState(t, "R")
            /\ Goto(t, IF pc[t] = "off" THEN "leave" ELSE pc[t])
       \/ /\ \A t \in Threads : queued[t] => state[t] = "R"
          /\ UNCHANGED <<pc, state, queued>>
    /\ UNCHANGED <<task_state, waitVars, signalVars, need_resched, job_state>>

(* wake_up(&job->suspended_threads), under the queue's lock: a thread that *)
(* can be woken leaves the queue (autoremove_wake_function).               *)
WakeUp ==
    LET Woken == {t \in Threads : queued[t] /\ state[t] # "R"} IN
    /\ admin = "wake"
    /\ queued' = [t \in Threads |-> queued[t] /\ t \notin Woken]
    /\ state' = [t \in Threads |-> IF t \in Woken THEN "R" ELSE state[t]]
    /\ pc' = [t \in Threads |-> IF t \in Woken /\ pc[t] = "off" THEN "leave" ELSE pc[t]]
    /\ admin' = "idle"
    /\ UNCHANGED <<task_state, waitVars, signalVars, need_resched, job_state>>

-----------------------------------------------------------------------------
Admin == SuspendJob \/ ResumeJob \/ KillJob \/ WakeUp

\* What a thread does once it is inside schedule(), its hooks or a wait.
ScheduleStep(t) ==
    \/ EndWait(t) \/ CallSchedule(t)
    \/ EnterHook(t) \/ GoToBed(t) \/ ReadJobState(t) \/ GetUp(t) \/ GoToHeaven(t)
    \/ Switch(t) \/ LeaveHook(t) \/ ReturnToRun(t) \/ ReturnToWait(t)

ThreadStep(t) ==
    \/ ScheduleStep(t)
    \/ \E w \in {"S", "D", "bare"} : BeginWait(t, w)
    \/ Event(t) \/ Signal(t) \/ DeliverSignal(t) \/ TimerTick(t)
    \/ Yield(t) \/ Exit(t)

Next == Admin \/ \E t \in Threads : ThreadStep(t)

Spec == Init /\ [][Next]_vars

\* Threads on a CPU make progress, a command ends, the timer ticks, and the
\* return to user mode obeys need_resched and pending signals.  Events, new
\* waits, signals, voluntary exits and commands need not happen.
Fairness ==
    /\ WF_vars(WakeUp)
    /\ \A t \in Threads :
        /\ WF_vars(ScheduleStep(t)) /\ WF_vars(TimerTick(t))
        /\ SF_vars(Resched(t)) /\ SF_vars(ExitKilled(t)) /\ SF_vars(DeliverSignal(t))

FairSpec == Spec /\ Fairness

-----------------------------------------------------------------------------
(* The lost wake-up of every wait queue: once a resume or kill command is  *)
(* over, no thread lies in bed, however its reading of job->state in the   *)
(* enter hook and the command's two writes interleaved.                    *)
NoSleeperLeftBehind ==
    admin = "idle" /\ job_state # "SUSPENDED"
        => \A t \in Threads : ~(pc[t] = "off" /\ queued[t])

(* A thread outside of schedule() is not on the job's wait queue: else the *)
(* exit hook would free an entry that the next wake_up walks over.         *)
NotQueuedOutside ==
    \A t \in Threads : pc[t] \in {"run", "check", "left", "dead"} => ~queued[t]

(* The hooks put nobody to sleep but for a suspension: a thread that left  *)
(* the CPU is in bed, or in a wait of its own that it entered itself, if it*)
(* tests its events (bare waiters can be put back to sleep for nothing).   *)
SleepHasReason ==
    \A t \in Threads \ BareWaiters : pc[t] = "off" => queued[t] \/ own[t] # "none"

(* A suspension that is not taken back takes effect: once no more events   *)
(* and signals interfere, every thread is put off the CPU for good, except *)
(* for those that wait uninterruptibly with a signal pending: go_to_bed    *)
(* makes them interruptible (hook/sched.c:52), so that they spin.          *)
SuspendTakesEffect ==
    /\ <>[](job_state = "SUSPENDED")
    /\ <>[][\A t \in Threads : (fired'[t] => fired[t]) /\ (signal'[t] => signal[t])]_<<fired, signal>>
    => \A t \in Threads : <>[](pc[t] \in {"off", "dead"} \/ (own[t] = "D" /\ Pending(t)))

(* A kill that is not taken back takes effect: every thread dies, but those*)
(* that stay blocked in a wait of their own (bare waiters may be put back  *)
(* to sleep for nothing, see SleepHasReason).                              *)
KillTakesEffect ==
    <>[](job_state = "KILLED")
        => \A t \in Threads \ BareWaiters :
            <>[](pc[t] = "dead" \/ (pc[t] = "off" /\ own[t] # "none"))

(* yasadmin.1:25 "resume a specific job": a thread whose event has happened*)
(* sleeps only in the bed of a suspended job.                              *)
NoLostEvent ==
    \A t \in Threads : pc[t] = "off" /\ own[t] # "none" /\ fired[t] => queued[t]

(* sched.h:79 "finish_wait() set the task state as TASK_RUNNING": a thread *)
(* that left its bed and returned from schedule() runs in that state, if it*)
(* tests its events; one that does not may run on in its waiting state.    *)
RunsRunnable == \A t \in Threads \ BareWaiters : pc[t] = "run" => state[t] = "R"
=============================================================================
