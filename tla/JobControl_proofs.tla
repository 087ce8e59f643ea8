--------------------------- MODULE JobControl_proofs ---------------------------
(***************************************************************************)
(* Proofs about job control for any number of threads: no resume or kill   *)
(* command leaves a thread in bed.  The inductive invariant follows each   *)
(* queued thread through the enter hook: from the moment it has read       *)
(* "SUSPENDED" there is, unless the job still is suspended, a wake_up to   *)
(* come or the thread has been made runnable again.                        *)
(***************************************************************************)
EXTENDS JobControl, TLAPS

\* Where a thread may be on the queue, and what state it may sleep in.
BedInv ==
    \A t \in Threads :
        /\ queued[t] => pc[t] \in {"inbed", "getup", "heaven", "switch", "off", "leave"}
        /\ pc[t] = "off" => state[t] # "R"
        /\ queued[t] /\ pc[t] = "off" => job_state = "SUSPENDED" \/ admin = "wake"
        /\ queued[t] /\ pc[t] = "switch"
              => job_state = "SUSPENDED" \/ admin = "wake" \/ state[t] = "R"

IInv == TypeOK /\ BedInv

\* At the start nobody is in bed.
LEMMA InitIInv == Init => IInv
BY DEF Init, IInv, TypeOK, BedInv, PC

\* A step of the administrator keeps the invariant: the only one that can
\* strand a sleeper, leaving SUSPENDED, owes a wake_up.
LEMMA AdminStep == ASSUME IInv, Admin PROVE IInv'
<1>1. CASE SuspendJob
    BY <1>1 DEF IInv, TypeOK, BedInv, SuspendJob, FindsJob, threadVars, hookVars, waitVars, signalVars
<1>2. CASE ResumeJob
    BY <1>2 DEF IInv, TypeOK, BedInv, ResumeJob, FindsJob, threadVars, hookVars, waitVars, signalVars
<1>3. CASE KillJob
    BY <1>3 DEF IInv, TypeOK, BedInv, KillJob, FindsJob, threadVars, hookVars, waitVars, signalVars
<1>4. CASE WakeUp
  <2>1. TypeOK'
      BY <1>4 DEF IInv, TypeOK, WakeUp, waitVars, signalVars, PC
  <2>2. BedInv'
      BY <1>4 DEF IInv, TypeOK, BedInv, WakeUp, waitVars, signalVars
  <2> QED  BY <2>1, <2>2 DEF IInv
<1> QED  BY <1>1, <1>2, <1>3, <1>4 DEF Admin

\* A step of a thread keeps the types.
LEMMA ThreadStepTypes == ASSUME IInv, NEW t \in Threads, ThreadStep(t) PROVE TypeOK'
<1> USE DEF IInv, TypeOK, PC, Goto, SetState, hookVars, waitVars, signalVars, jobVars
<1>1. ASSUME NEW w \in {"S", "D", "bare"}, BeginWait(t, w) PROVE TypeOK'
    BY <1>1 DEF BeginWait, WaitState
<1>2. CASE EndWait(t)
    BY <1>2 DEF EndWait
<1>3. CASE CallSchedule(t)
    BY <1>3 DEF CallSchedule
<1>4. CASE Event(t)
    BY <1>4 DEF Event
<1>5. CASE Yield(t)
    BY <1>5 DEF Yield
<1>6. CASE Exit(t)
    BY <1>6 DEF Exit
<1>7. CASE TimerTick(t)
    BY <1>7 DEF TimerTick
<1>8. CASE EnterHook(t)
    BY <1>8 DEF EnterHook
<1>9. CASE GoToBed(t)
    BY <1>9 DEF GoToBed
<1>10. CASE ReadJobState(t)
    BY <1>10 DEF ReadJobState
<1>11. CASE GetUp(t)
    BY <1>11 DEF GetUp, get_up
<1>12. CASE GoToHeaven(t)
    BY <1>12 DEF GoToHeaven
<1>13. CASE Switch(t)
    BY <1>13 DEF Switch
<1>14. CASE LeaveHook(t)
    BY <1>14 DEF LeaveHook, get_up
<1>15. CASE ReturnToRun(t)
    BY <1>15 DEF ReturnToRun
<1>16. CASE ReturnToWait(t)
    BY <1>16 DEF ReturnToWait
<1>17. CASE Signal(t)
    BY <1>17 DEF Signal
<1>18. CASE DeliverSignal(t)
    BY <1>18 DEF DeliverSignal
<1> QED  BY <1>1, <1>2, <1>3, <1>4, <1>5, <1>6, <1>7, <1>8, <1>9, <1>10, <1>11, <1>12, <1>13, <1>14, <1>15, <1>16,
        <1>17, <1>18 DEF ThreadStep, ScheduleStep

\* A step of a thread keeps what is said of beds.
LEMMA ThreadStepBeds == ASSUME IInv, NEW t \in Threads, ThreadStep(t) PROVE BedInv'
<1> USE DEF IInv, TypeOK, BedInv, Goto, SetState, hookVars, waitVars, signalVars, jobVars
<1>1. ASSUME NEW w \in {"S", "D", "bare"}, BeginWait(t, w) PROVE BedInv'
    BY <1>1 DEF BeginWait, WaitState
<1>2. CASE EndWait(t)
    BY <1>2 DEF EndWait
<1>3. CASE CallSchedule(t)
    BY <1>3 DEF CallSchedule
<1>4. CASE Event(t)
    BY <1>4 DEF Event
<1>5. CASE Yield(t)
    BY <1>5 DEF Yield
<1>6. CASE Exit(t)
    BY <1>6 DEF Exit
<1>7. CASE TimerTick(t)
    BY <1>7 DEF TimerTick
<1>8. CASE EnterHook(t)
    BY <1>8 DEF EnterHook
<1>9. CASE GoToBed(t)
    BY <1>9 DEF GoToBed
<1>10. CASE ReadJobState(t)
    BY <1>10 DEF ReadJobState
<1>11. CASE GetUp(t)
    BY <1>11 DEF GetUp, get_up
<1>12. CASE GoToHeaven(t)
    BY <1>12 DEF GoToHeaven
<1>13. CASE Switch(t)
    BY <1>13 DEF Switch
<1>14. CASE LeaveHook(t)
    BY <1>14 DEF LeaveHook, get_up
<1>15. CASE ReturnToRun(t)
    BY <1>15 DEF ReturnToRun
<1>16. CASE ReturnToWait(t)
    BY <1>16 DEF ReturnToWait
<1>17. CASE Signal(t)
    BY <1>17 DEF Signal
<1>18. CASE DeliverSignal(t)
    BY <1>18 DEF DeliverSignal
<1> QED  BY <1>1, <1>2, <1>3, <1>4, <1>5, <1>6, <1>7, <1>8, <1>9, <1>10, <1>11, <1>12, <1>13, <1>14, <1>15, <1>16,
        <1>17, <1>18 DEF ThreadStep, ScheduleStep

\* The inductive invariant holds in every reachable state.
LEMMA Invariance == Spec => []IInv
<1>1. IInv /\ [Next]_vars => IInv'
  <2> SUFFICES ASSUME IInv, [Next]_vars PROVE IInv'
      OBVIOUS
  <2>1. CASE Admin
      BY <2>1, AdminStep
  <2>2. ASSUME NEW t \in Threads, ThreadStep(t) PROVE IInv'
      BY <2>2, ThreadStepTypes, ThreadStepBeds DEF IInv
  <2>3. CASE UNCHANGED vars
      BY <2>3 DEF IInv, TypeOK, BedInv, vars
  <2> QED  BY <2>1, <2>2, <2>3 DEF Next
<1> QED  BY InitIInv, <1>1, PTL DEF Spec

(* However the reading of job->state in the enter hook interleaves with    *)
(* the two writes of resume_job and kill_job, no thread stays in bed.      *)
THEOREM NobodyIsLeftInBed == Spec => []NoSleeperLeftBehind
<1>1. IInv => NoSleeperLeftBehind
    BY DEF IInv, BedInv, NoSleeperLeftBehind
<1> QED  BY Invariance, <1>1, PTL

(* A thread that runs, waits for itself or exits is not on the wait queue, *)
(* so that the exit hook frees no entry that wake_up will visit.           *)
THEOREM NobodyIsQueuedOutside == Spec => []NotQueuedOutside
<1>1. IInv => NotQueuedOutside
    BY DEF IInv, BedInv, NotQueuedOutside
<1> QED  BY Invariance, <1>1, PTL

-----------------------------------------------------------------------------
(* The task state of a thread that waits for nothing comes through the     *)
(* hooks unchanged, unless the thread is one that waits bare.              *)

\* Where the task state of a thread without a wait of its own is kept.
StateInv ==
    \A t \in Threads \ BareWaiters :
        /\ own[t] # "bare"
        /\ pc[t] = "run" => own[t] = "none"
        /\ pc[t] = "check" => own[t] # "none"
        /\ own[t] = "none" =>
              /\ pc[t] \in {"run", "enter", "left"} => state[t] = "R"
              /\ pc[t] \in {"saved", "inbed", "getup", "heaven"} \/ queued[t] => task_state[t] = "R"
              /\ pc[t] \in {"inbed", "switch", "off", "leave"} /\ ~queued[t] => state[t] = "R"

\* The administrator's wake_up leaves R behind wherever it takes from the queue.
LEMMA AdminStepStates == ASSUME IInv, StateInv, Admin PROVE StateInv'
<1>1. CASE WakeUp
    BY <1>1 DEF IInv, TypeOK, StateInv, WakeUp, waitVars, signalVars
<1>2. CASE SuspendJob \/ ResumeJob \/ KillJob
    BY <1>2 DEF StateInv, SuspendJob, ResumeJob, KillJob, threadVars, hookVars, waitVars, signalVars
<1> QED  BY <1>1, <1>2 DEF Admin

\* A step of a thread keeps its task state where StateInv says.
LEMMA ThreadStepStates ==
    ASSUME IInv, StateInv, NEW t \in Threads, ThreadStep(t)
    PROVE  StateInv'
<1> USE DEF IInv, TypeOK, BedInv, StateInv, Goto, SetState, hookVars, waitVars, signalVars, jobVars
<1>1. ASSUME NEW w \in {"S", "D", "bare"}, BeginWait(t, w) PROVE StateInv'
    BY <1>1 DEF BeginWait, WaitState
<1>2. CASE EndWait(t)
    BY <1>2 DEF EndWait
<1>3. CASE CallSchedule(t)
    BY <1>3 DEF CallSchedule
<1>4. CASE Event(t)
    BY <1>4 DEF Event
<1>5. CASE Yield(t)
    BY <1>5 DEF Yield
<1>6. CASE Exit(t)
    BY <1>6 DEF Exit
<1>7. CASE TimerTick(t)
    BY <1>7 DEF TimerTick
<1>8. CASE EnterHook(t)
    BY <1>8 DEF EnterHook
<1>9. CASE GoToBed(t)
    BY <1>9 DEF GoToBed
<1>10. CASE ReadJobState(t)
    BY <1>10 DEF ReadJobState
<1>11. CASE GetUp(t)
    BY <1>11 DEF GetUp, get_up
<1>12. CASE GoToHeaven(t)
    BY <1>12 DEF GoToHeaven
<1>13. CASE Switch(t)
    BY <1>13 DEF Switch
<1>14. CASE LeaveHook(t)
    BY <1>14 DEF LeaveHook, get_up
<1>15. CASE ReturnToRun(t)
    BY <1>15 DEF ReturnToRun
<1>16. CASE ReturnToWait(t)
    BY <1>16 DEF ReturnToWait
<1>17. CASE Signal(t)
    BY <1>17 DEF Signal
<1>18. CASE DeliverSignal(t)
    BY <1>18 DEF DeliverSignal
<1> QED  BY <1>1, <1>2, <1>3, <1>4, <1>5, <1>6, <1>7, <1>8, <1>9, <1>10, <1>11, <1>12, <1>13, <1>14, <1>15, <1>16,
        <1>17, <1>18 DEF ThreadStep, ScheduleStep

\* StateInv holds in every reachable state.
LEMMA StateInvariance == Spec => []StateInv
<1>1. Init => StateInv
    BY DEF Init, StateInv
<1>2. IInv /\ StateInv /\ [Next]_vars => StateInv'
  <2> SUFFICES ASSUME IInv, StateInv, [Next]_vars PROVE StateInv'
      OBVIOUS
  <2>1. CASE Admin
      BY <2>1, AdminStepStates
  <2>2. ASSUME NEW t \in Threads, ThreadStep(t) PROVE StateInv'
      BY <2>2, ThreadStepStates
  <2>3. CASE UNCHANGED vars
      BY <2>3 DEF StateInv, vars
  <2> QED  BY <2>1, <2>2, <2>3 DEF Next
<1> QED  BY Invariance, <1>1, <1>2, PTL DEF Spec

(* The hooks put no thread to sleep that neither is suspended nor entered  *)
(* a wait of its own, but those that wait bare: what these do disturbs     *)
(* nobody else.                                                            *)
THEOREM NobodySleepsForNothing == Spec => []SleepHasReason
<1>1. IInv /\ StateInv => SleepHasReason
    BY DEF IInv, BedInv, StateInv, SleepHasReason
<1> QED  BY Invariance, StateInvariance, <1>1, PTL

(* The leave hook gives no thread back to its own business in the state it *)
(* had in bed, in which a mere preemption would put it to sleep, if the    *)
(* thread tests its events.                                                *)
THEOREM ThreadsRunRunnable == Spec => []RunsRunnable
<1>1. StateInv => RunsRunnable
    BY DEF StateInv, RunsRunnable
<1> QED  BY StateInvariance, <1>1, PTL

(* Every variable stays in its range, in particular job->state and the     *)
(* saved task states.                                                      *)
THEOREM TypeCorrect == Spec => []TypeOK
<1>1. IInv => TypeOK
    BY DEF IInv
<1> QED  BY Invariance, <1>1, PTL
=============================================================================
