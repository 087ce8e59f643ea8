---------------------------- MODULE JobLife_proofs ----------------------------
(***************************************************************************)
(* Proofs about the life cycle of jobs, for any number of tasks, jobs and  *)
(* thread slots.  The inductive invariant IInv relates three things: where *)
(* a task is (pc, loc, entry, link), how the thread groups share address   *)
(* spaces, and the count of each job with the tasks that still hold it.    *)
(* Everything about deletion is stated for ThreadedRoots = FALSE: with a   *)
(* root that has siblings the property fails (README.md, section 3).       *)
(***************************************************************************)
EXTENDS JobLife, FiniteSetTheorems, TLAPS

\* What a task's hook, entry and link say of each other.
Consistent(t) ==
    LET l == search_job_by_task(t) IN
    /\ pc[t] \in {"unborn", "user", "newborn", "thread_procfs", "oops", "exiting", "dead"}
          => loc[t] = NoJob
    /\ pc[t] \in {"unborn", "newborn", "put", "del_job", "free_job", "oops"} => entry[t] = NoJob
    /\ pc[t] \in {"init_job", "job_procfs", "thread_procfs", "fini"} => entry[t] # NoJob
    /\ pc[t] \in {"put", "del_job", "free_job", "fork_put"} => loc[t] # NoJob
    /\ pc[t] \in {"init_job", "job_procfs", "fini"} => loc[t] = entry[t]
    /\ pc[t] \in {"execve", "init_tsi"} /\ entry[t] # NoJob => loc[t] = entry[t]
    /\ pc[t] \in {"user", "do_fork", "fork_put", "thread_procfs", "fini"} /\ entry[t] # NoJob
          => l = entry[t]
    /\ pc[t] \in {"do_fork", "fork_put", "put"} => loc[t] = l
    /\ pc[t] \in {"init_job", "job_procfs"} => l = NoJob /\ Siblings(t) = {}
    /\ pc[t] \in {"execve", "init_tsi"} => l \in {NoJob, loc[t]} /\ (l # loc[t] => Siblings(t) = {})

\* An unborn task's number is nobody else's thread group.
Groups ==
    \A t \in Tasks : IF pc[t] = "unborn" THEN tgid[t] = t ELSE pc[tgid[t]] # "unborn"

\* Every holder of a job is counted; a free or dying job has none.
Counted ==
    \A j \in Jobs :
        /\ alive_proc[j] >= Cardinality(Members(j)) + Cardinality(Forkers(j))
        /\ j \notin allocated => alive_proc[j] = 0
        /\ \A t \in Deleters(j) : j \in allocated /\ alive_proc[j] = 0
        /\ \A t, u \in Deleters(j) : t = u

IInv ==
    /\ TypeOK
    /\ \A t \in Tasks : Consistent(t)
    /\ Groups
    /\ Counted

-----------------------------------------------------------------------------
(* Facts about states.                                                     *)

USE NoJobAssumption

\* A task counts in a job or in none.
LEMMA CountedInType ==
    ASSUME TypeOK, NEW t \in Tasks
    PROVE  CountedIn(t) \in MaybeJob
BY DEF TypeOK, CountedIn, search_job_by_task, MaybeJob

\* Members and forkers are finite sets: cardinalities are numbers.
LEMMA HoldersFinite ==
    ASSUME NEW j \in Jobs
    PROVE  /\ IsFiniteSet(Members(j)) /\ Cardinality(Members(j)) \in Nat
           /\ IsFiniteSet(Forkers(j)) /\ Cardinality(Forkers(j)) \in Nat
<1>1. Members(j) \subseteq Tasks /\ Forkers(j) \subseteq Tasks
    BY DEF Members, Forkers
<1> QED  BY <1>1, TasksAssumption, FS_Subset, FS_CardinalityType

\* A set with an element has a positive cardinality.
LEMMA PositiveCardinality ==
    ASSUME NEW S, IsFiniteSet(S), NEW x \in S
    PROVE  Cardinality(S) >= 1
<1>1. S # {} /\ Cardinality(S) \in Nat
    BY FS_CardinalityType
<1>2. Cardinality(S) # 0
    BY <1>1, FS_EmptySet
<1> QED  BY <1>1, <1>2

\* The job a task counts in has a positive count and is allocated.
LEMMA HeldJob ==
    ASSUME TypeOK, Counted, NEW t \in Tasks, CountedIn(t) \in Jobs
    PROVE  alive_proc[CountedIn(t)] >= 1 /\ CountedIn(t) \in allocated
<1> DEFINE j == CountedIn(t)
<1>1. t \in Members(j)
    BY DEF Members
<1>2. Cardinality(Members(j)) >= 1
    BY <1>1, HoldersFinite, PositiveCardinality
<1>3. alive_proc[j] \in Nat /\ alive_proc[j] >= Cardinality(Members(j)) + Cardinality(Forkers(j))
    BY DEF TypeOK, Counted
<1>4. alive_proc[j] >= 1
    BY <1>2, <1>3, HoldersFinite
<1> QED  BY <1>4 DEF Counted

\* Before it leaves its job, a task that is linked to a job counts in it.
LEMMA LinkedCounts ==
    ASSUME TypeOK, NEW t \in Tasks, Consistent(t), Alive(t), search_job_by_task(t) # NoJob
    PROVE  CountedIn(t) = search_job_by_task(t)
BY DEF TypeOK, Consistent, Alive, CountedIn, PC, MaybeJob

\* A parent that undoes its fork leaves at least itself in the job.
LEMMA ForkPutCount ==
    ASSUME TypeOK, Counted, NEW t \in Tasks, Consistent(t), pc[t] = "fork_put"
    PROVE  loc[t] \in Jobs /\ alive_proc[loc[t]] >= 2
<1> DEFINE j == loc[t]
<1>1. j \in Jobs /\ CountedIn(t) = j
    BY DEF TypeOK, MaybeJob, Consistent, CountedIn
<1>2. t \in Members(j) /\ t \in Forkers(j)
    BY <1>1 DEF Members, Forkers
<1>3. Cardinality(Members(j)) >= 1 /\ Cardinality(Forkers(j)) >= 1
    BY <1>1, <1>2, HoldersFinite, PositiveCardinality
<1>4. alive_proc[j] \in Nat /\ alive_proc[j] >= Cardinality(Members(j)) + Cardinality(Forkers(j))
    BY <1>1 DEF TypeOK, Counted
<1> QED  BY <1>1, <1>3, <1>4, HoldersFinite

\* IInv gives the safety properties of the runs.
LEMMA IInvImplies ==
    ASSUME IInv
    PROVE  MemberJobAllocated /\ EntryJobAllocated /\ ForkPutNotLast /\ CountNeverShort
<1>1. MemberJobAllocated
  <2> SUFFICES ASSUME NEW t \in Tasks, Alive(t), search_job_by_task(t) # NoJob
               PROVE  search_job_by_task(t) \in allocated
      BY DEF MemberJobAllocated
  <2>1. CountedIn(t) = search_job_by_task(t)
      BY LinkedCounts DEF IInv
  <2>2. CountedIn(t) \in Jobs
      BY <2>1, CountedInType DEF IInv, MaybeJob
  <2> QED  BY <2>1, <2>2, HeldJob DEF IInv
<1>2. EntryJobAllocated
  <2> SUFFICES ASSUME NEW t \in Tasks, entry[t] # NoJob
               PROVE  entry[t] \in allocated
      BY DEF EntryJobAllocated
  <2>1. CountedIn(t) = entry[t]
      BY DEF CountedIn
  <2>2. CountedIn(t) \in Jobs
      BY <2>1, CountedInType DEF IInv, MaybeJob
  <2> QED  BY <2>1, <2>2, HeldJob DEF IInv
<1>3. ForkPutNotLast
    BY ForkPutCount DEF ForkPutNotLast, IInv
<1>4. CountNeverShort
    BY DEF CountNeverShort, IInv, Counted
<1> QED  BY <1>1, <1>2, <1>3, <1>4

-----------------------------------------------------------------------------
(* Facts about steps.                                                      *)

\* At the start there is no job and no task is linked to one.
LEMMA InitIInv == Init => IInv
<1> SUFFICES ASSUME Init PROVE IInv
    OBVIOUS
<1>1. TypeOK
    BY InitTasksAssumption, TasksAssumption, SlotsAssumption
       DEF Init, TypeOK, PC, MaybeJob, Slot
<1>2. \A t \in Tasks : Consistent(t)
    BY DEF Init, Consistent, search_job_by_task
<1>3. Groups
    BY DEF Init, Groups
<1>4. Counted
  <2> SUFFICES ASSUME NEW j \in Jobs
               PROVE  /\ alive_proc[j] = 0 /\ Members(j) = {} /\ Forkers(j) = {}
                      /\ Deleters(j) = {}
      BY FS_EmptySet DEF Counted
  <2>1. Members(j) = {}
      BY DEF Init, Members, CountedIn, search_job_by_task
  <2> QED  BY <2>1 DEF Init, Forkers, Deleters
<1> QED  BY <1>1, <1>2, <1>3, <1>4 DEF IInv

\* A step of t that leaves the address spaces alone leaves the others alone.
LEMMA LocalStep ==
    ASSUME TypeOK, \A u \in Tasks : Consistent(u), Groups,
           NEW t \in Tasks, pc[t] \notin {"unborn", "dead"},
           NEW l \in PC, l # "unborn", pc' = [pc EXCEPT ![t] = l],
           tgid' = tgid, link' = link,
           \A u \in Tasks \ {t} : loc'[u] = loc[u] /\ entry'[u] = entry[u]
    PROVE  /\ Groups'
           /\ \A u \in Tasks \ {t} : Consistent(u)' /\ CountedIn(u)' = CountedIn(u)
           /\ Siblings(t)' = Siblings(t)
<1>1. Groups'
    BY DEF TypeOK, Groups
<1>2. \A u \in Tasks : Siblings(u) = {} => Siblings(u)' = {}
    BY DEF TypeOK, Siblings
<1>3. ASSUME NEW u \in Tasks \ {t}
      PROVE  Consistent(u)' /\ CountedIn(u)' = CountedIn(u)
  <2>1. /\ pc'[u] = pc[u] /\ loc'[u] = loc[u] /\ entry'[u] = entry[u]
        /\ search_job_by_task(u)' = search_job_by_task(u)
      BY DEF TypeOK, search_job_by_task
  <2>2. CountedIn(u)' = CountedIn(u)
      BY <2>1 DEF CountedIn
  <2>3. Consistent(u)'
      BY <1>2, <2>1 DEF Consistent
  <2> QED  BY <2>2, <2>3
<1>4. Siblings(t)' = Siblings(t)
    BY DEF TypeOK, Siblings
<1> QED  BY <1>1, <1>3, <1>4

\* A step that touches no count and makes nobody a holder keeps Counted.
LEMMA CountKept ==
    ASSUME TypeOK, Counted, alive_proc' = alive_proc, allocated' = allocated,
           \A u \in Tasks : CountedIn(u)' \in {CountedIn(u), NoJob},
           \A u \in Tasks : pc'[u] \in {"do_fork", "fork_put"} /\ loc'[u] # NoJob
                => pc[u] \in {"do_fork", "fork_put"} /\ loc[u] = loc'[u],
           \A u \in Tasks : pc'[u] \in {"del_job", "free_job"}
                => pc[u] \in {"del_job", "free_job"} /\ loc[u] = loc'[u]
    PROVE  Counted'
<1> SUFFICES ASSUME NEW j \in Jobs
             PROVE  (/\ alive_proc[j] >= Cardinality(Members(j)) + Cardinality(Forkers(j))
                     /\ j \notin allocated => alive_proc[j] = 0
                     /\ \A t \in Deleters(j) : j \in allocated /\ alive_proc[j] = 0
                     /\ \A t, u \in Deleters(j) : t = u)'
    BY DEF Counted
<1>1. Members(j)' \subseteq Members(j) /\ Forkers(j)' \subseteq Forkers(j)
    BY DEF Members, Forkers
<1>2. Deleters(j)' \subseteq Deleters(j)
    BY DEF Deleters
<1>3. /\ Cardinality(Members(j)') <= Cardinality(Members(j)) /\ Cardinality(Members(j)') \in Nat
      /\ Cardinality(Forkers(j)') <= Cardinality(Forkers(j)) /\ Cardinality(Forkers(j)') \in Nat
    BY <1>1, HoldersFinite, FS_Subset, FS_CardinalityType
<1>4. alive_proc[j] \in Nat /\ alive_proc[j] >= Cardinality(Members(j)) + Cardinality(Forkers(j))
    BY DEF TypeOK, Counted
<1>5. alive_proc[j] >= Cardinality(Members(j)') + Cardinality(Forkers(j)')
    BY <1>3, <1>4, HoldersFinite
<1> QED  BY <1>2, <1>5 DEF Counted

\* What a step does to the abstract membership.
MembershipStep == [Membership!Next]_(Membership!vars)

\* Nobody moves: the abstract specification stutters.
LEMMA MembershipStutter ==
    ASSUME allocated' = allocated, \A u \in Tasks : CountedIn(u)' = CountedIn(u)
    PROVE  MembershipStep
BY DEF MembershipStep, Membership!vars

\* One task leaves its job.
LEMMA MembershipLeave ==
    ASSUME NEW t \in Tasks, allocated' = allocated, CountedIn(t) # NoJob, CountedIn(t)' = NoJob,
           \A u \in Tasks \ {t} : CountedIn(u)' = CountedIn(u)
    PROVE  MembershipStep
<1> DEFINE job == [u \in Tasks |-> CountedIn(u)]
<1>1. job' = [job EXCEPT ![t] = NoJob]
  <2>1. \A u \in Tasks : CountedIn(u)' = IF u = t THEN NoJob ELSE CountedIn(u)
      OBVIOUS
  <2>2. job' = [u \in Tasks |-> IF u = t THEN NoJob ELSE CountedIn(u)]
      BY <2>1
  <2> QED  BY <2>2
<1>2. Membership!Leave(t)
    BY <1>1 DEF Membership!Leave
<1> QED  BY <1>2 DEF MembershipStep, Membership!Next

\* A step of one task that only moves it from a counted holder to the same
\* counted holder, or makes it no holder, keeps the invariant.
LEMMA QuietStep ==
    ASSUME IInv, TypeOK',
           NEW t \in Tasks, pc[t] \notin {"unborn", "dead"},
           NEW l \in PC, l # "unborn", pc' = [pc EXCEPT ![t] = l],
           tgid' = tgid, link' = link, alive_proc' = alive_proc, allocated' = allocated,
           \A u \in Tasks \ {t} : loc'[u] = loc[u] /\ entry'[u] = entry[u],
           Consistent(t)', CountedIn(t)' \in {CountedIn(t), NoJob},
           l \in {"do_fork", "fork_put"} /\ loc'[t] # NoJob
                => pc[t] \in {"do_fork", "fork_put"} /\ loc[t] = loc'[t],
           l \in {"del_job", "free_job"}
                => pc[t] \in {"del_job", "free_job"} /\ loc[t] = loc'[t]
    PROVE  IInv' /\ MembershipStep
<1>1. Groups' /\ \A u \in Tasks \ {t} : Consistent(u)' /\ CountedIn(u)' = CountedIn(u)
    BY LocalStep DEF IInv
<1>2. pc'[t] = l /\ \A u \in Tasks \ {t} : pc'[u] = pc[u]
    BY DEF IInv, TypeOK
<1>3. \A u \in Tasks : CountedIn(u)' \in {CountedIn(u), NoJob}
    BY <1>1
<1>4. \A u \in Tasks : pc'[u] \in {"do_fork", "fork_put"} /\ loc'[u] # NoJob
                => pc[u] \in {"do_fork", "fork_put"} /\ loc[u] = loc'[u]
    BY <1>2
<1>5. \A u \in Tasks : pc'[u] \in {"del_job", "free_job"}
                => pc[u] \in {"del_job", "free_job"} /\ loc[u] = loc'[u]
    BY <1>2
<1>6. Counted'
    BY <1>3, <1>4, <1>5, CountKept DEF IInv
<1>7. MembershipStep
  <2>1. CASE CountedIn(t)' = CountedIn(t)
      BY <1>1, <2>1, MembershipStutter
  <2>2. CASE CountedIn(t)' # CountedIn(t)
      BY <1>1, <2>2, MembershipLeave
  <2> QED  BY <2>1, <2>2
<1> QED  BY <1>1, <1>6, <1>7 DEF IInv

\* A member on its way into do_execve is still a member.
LEMMA ExistingJobStep == ASSUME IInv, NEW t \in Tasks, ExistingJob(t) PROVE IInv' /\ MembershipStep
<1>1. TypeOK'
    BY DEF IInv, TypeOK, ExistingJob, Goto, PC, MaybeJob, search_job_by_task, taskVars, jobVars, MayExecve
<1>2. /\ pc[t] \notin {"unborn", "dead"} /\ pc' = [pc EXCEPT ![t] = "execve"]
      /\ tgid' = tgid /\ link' = link /\ alive_proc' = alive_proc /\ allocated' = allocated
      /\ \A u \in Tasks \ {t} : loc'[u] = loc[u] /\ entry'[u] = entry[u]
    BY DEF IInv, TypeOK, ExistingJob, Goto, taskVars, jobVars, MayExecve
<1>3. Siblings(t)' = Siblings(t)
    BY <1>2, LocalStep DEF IInv, PC
<1>4. Consistent(t)' /\ CountedIn(t)' \in {CountedIn(t), NoJob}
    BY <1>2, <1>3 DEF IInv, TypeOK, ExistingJob, Goto, Consistent, CountedIn, search_job_by_task, taskVars, jobVars, MayExecve
<1>5. "execve" \in {"del_job", "free_job"}
         => pc[t] \in {"del_job", "free_job"} /\ loc[t] = loc'[t]
    BY DEF ExistingJob
<1> QED  BY <1>1, <1>2, <1>4, <1>5, QuietStep DEF PC

\* A task that starts no job counts nowhere.
LEMMA NonJobStep == ASSUME IInv, NEW t \in Tasks, NonJob(t) PROVE IInv' /\ MembershipStep
<1>1. TypeOK'
    BY DEF IInv, TypeOK, NonJob, Goto, PC, MaybeJob, search_job_by_task, taskVars, jobVars, MayExecve
<1>2. /\ pc[t] \notin {"unborn", "dead"} /\ pc' = [pc EXCEPT ![t] = "execve"]
      /\ tgid' = tgid /\ link' = link /\ alive_proc' = alive_proc /\ allocated' = allocated
      /\ \A u \in Tasks \ {t} : loc'[u] = loc[u] /\ entry'[u] = entry[u]
    BY DEF IInv, TypeOK, NonJob, Goto, taskVars, jobVars, MayExecve
<1>3. Siblings(t)' = Siblings(t)
    BY <1>2, LocalStep DEF IInv, PC
<1>4. Consistent(t)' /\ CountedIn(t)' \in {CountedIn(t), NoJob}
    BY <1>2, <1>3 DEF IInv, TypeOK, NonJob, Goto, Consistent, CountedIn, search_job_by_task, taskVars, jobVars, MayExecve
<1>5. "execve" \in {"del_job", "free_job"}
         => pc[t] \in {"del_job", "free_job"} /\ loc[t] = loc'[t]
    BY DEF NonJob
<1> QED  BY <1>1, <1>2, <1>4, <1>5, QuietStep DEF PC

\* Publishing a job counts nobody.
LEMMA PublishJobStep == ASSUME IInv, NEW t \in Tasks, PublishJob(t) PROVE IInv' /\ MembershipStep
<1>1. TypeOK'
    BY DEF IInv, Consistent, TypeOK, PublishJob, Goto, PC, MaybeJob, search_job_by_task, taskVars, jobVars
<1>2. /\ pc[t] \notin {"unborn", "dead"} /\ pc' = [pc EXCEPT ![t] = "job_procfs"]
      /\ tgid' = tgid /\ link' = link /\ alive_proc' = alive_proc /\ allocated' = allocated
      /\ \A u \in Tasks \ {t} : loc'[u] = loc[u] /\ entry'[u] = entry[u]
    BY DEF IInv, TypeOK, PublishJob, Goto, taskVars, jobVars
<1>3. Siblings(t)' = Siblings(t)
    BY <1>2, LocalStep DEF IInv, PC
<1>4. Consistent(t)' /\ CountedIn(t)' \in {CountedIn(t), NoJob}
    BY <1>2, <1>3 DEF IInv, TypeOK, PublishJob, Goto, Consistent, CountedIn, search_job_by_task, taskVars, jobVars
<1>5. "job_procfs" \in {"del_job", "free_job"}
         => pc[t] \in {"del_job", "free_job"} /\ loc[t] = loc'[t]
    BY DEF PublishJob
<1> QED  BY <1>1, <1>2, <1>4, <1>5, QuietStep DEF PC

\* Making /proc files counts nobody.
LEMMA JobProcfsStep == ASSUME IInv, NEW t \in Tasks, JobProcfs(t) PROVE IInv' /\ MembershipStep
<1>1. TypeOK'
    BY DEF IInv, Consistent, TypeOK, JobProcfs, Goto, PC, MaybeJob, search_job_by_task, taskVars, jobVars
<1>2. /\ pc[t] \notin {"unborn", "dead"} /\ pc' = [pc EXCEPT ![t] = "execve"]
      /\ tgid' = tgid /\ link' = link /\ alive_proc' = alive_proc /\ allocated' = allocated
      /\ \A u \in Tasks \ {t} : loc'[u] = loc[u] /\ entry'[u] = entry[u]
    BY DEF IInv, TypeOK, JobProcfs, Goto, taskVars, jobVars
<1>3. Siblings(t)' = Siblings(t)
    BY <1>2, LocalStep DEF IInv, PC
<1>4. Consistent(t)' /\ CountedIn(t)' \in {CountedIn(t), NoJob}
    BY <1>2, <1>3 DEF IInv, TypeOK, JobProcfs, Goto, Consistent, CountedIn, search_job_by_task, taskVars, jobVars
<1>5. "execve" \in {"del_job", "free_job"}
         => pc[t] \in {"del_job", "free_job"} /\ loc[t] = loc'[t]
    BY DEF JobProcfs
<1> QED  BY <1>1, <1>2, <1>4, <1>5, QuietStep DEF PC

\* A failed do_execve changes nothing.
LEMMA KernelExecveFailsStep == ASSUME IInv, NEW t \in Tasks, KernelExecveFails(t) PROVE IInv' /\ MembershipStep
<1>1. TypeOK'
    BY DEF IInv, TypeOK, KernelExecveFails, Goto, PC, MaybeJob, search_job_by_task, taskVars, jobVars
<1>2. /\ pc[t] \notin {"unborn", "dead"} /\ pc' = [pc EXCEPT ![t] = "init_tsi"]
      /\ tgid' = tgid /\ link' = link /\ alive_proc' = alive_proc /\ allocated' = allocated
      /\ \A u \in Tasks \ {t} : loc'[u] = loc[u] /\ entry'[u] = entry[u]
    BY DEF IInv, TypeOK, KernelExecveFails, Goto, taskVars, jobVars
<1>3. Siblings(t)' = Siblings(t)
    BY <1>2, LocalStep DEF IInv, PC
<1>4. Consistent(t)' /\ CountedIn(t)' \in {CountedIn(t), NoJob}
    BY <1>2, <1>3 DEF IInv, TypeOK, KernelExecveFails, Goto, Consistent, CountedIn, search_job_by_task, taskVars, jobVars
<1>5. "init_tsi" \in {"del_job", "free_job"}
         => pc[t] \in {"del_job", "free_job"} /\ loc[t] = loc'[t]
    BY DEF KernelExecveFails
<1> QED  BY <1>1, <1>2, <1>4, <1>5, QuietStep DEF PC

\* Making a /proc file counts nobody.
LEMMA ThreadProcfsStep == ASSUME IInv, NEW t \in Tasks, ThreadProcfs(t) PROVE IInv' /\ MembershipStep
<1>1. TypeOK'
    BY DEF IInv, TypeOK, ThreadProcfs, Goto, PC, MaybeJob, search_job_by_task, taskVars, jobVars
<1>2. /\ pc[t] \notin {"unborn", "dead"} /\ pc' = [pc EXCEPT ![t] = "user"]
      /\ tgid' = tgid /\ link' = link /\ alive_proc' = alive_proc /\ allocated' = allocated
      /\ \A u \in Tasks \ {t} : loc'[u] = loc[u] /\ entry'[u] = entry[u]
    BY DEF IInv, TypeOK, ThreadProcfs, Goto, taskVars, jobVars
<1>3. Siblings(t)' = Siblings(t)
    BY <1>2, LocalStep DEF IInv, PC
<1>4. Consistent(t)' /\ CountedIn(t)' \in {CountedIn(t), NoJob}
    BY <1>2, <1>3 DEF IInv, TypeOK, ThreadProcfs, Goto, Consistent, CountedIn, search_job_by_task, taskVars, jobVars
<1>5. "user" \in {"del_job", "free_job"}
         => pc[t] \in {"del_job", "free_job"} /\ loc[t] = loc'[t]
    BY DEF ThreadProcfs
<1> QED  BY <1>1, <1>2, <1>4, <1>5, QuietStep DEF PC

\* A newborn that gets no entry stays counted through its link.
LEMMA ScheduleTailNoMemoryStep == ASSUME IInv, NEW t \in Tasks, ScheduleTailNoMemory(t) PROVE IInv' /\ MembershipStep
<1>1. TypeOK'
    BY DEF IInv, TypeOK, ScheduleTailNoMemory, Goto, PC, MaybeJob, search_job_by_task, taskVars, jobVars
<1>2. /\ pc[t] \notin {"unborn", "dead"} /\ pc' = [pc EXCEPT ![t] = "user"]
      /\ tgid' = tgid /\ link' = link /\ alive_proc' = alive_proc /\ allocated' = allocated
      /\ \A u \in Tasks \ {t} : loc'[u] = loc[u] /\ entry'[u] = entry[u]
    BY DEF IInv, TypeOK, ScheduleTailNoMemory, Goto, taskVars, jobVars
<1>3. Siblings(t)' = Siblings(t)
    BY <1>2, LocalStep DEF IInv, PC
<1>4. Consistent(t)' /\ CountedIn(t)' \in {CountedIn(t), NoJob}
    BY <1>2, <1>3 DEF IInv, TypeOK, ScheduleTailNoMemory, Goto, Consistent, CountedIn, search_job_by_task, taskVars, jobVars
<1>5. "user" \in {"del_job", "free_job"}
         => pc[t] \in {"del_job", "free_job"} /\ loc[t] = loc'[t]
    BY DEF ScheduleTailNoMemory
<1> QED  BY <1>1, <1>2, <1>4, <1>5, QuietStep DEF PC

\* A task that detaches its entry is counted until it frees it.
LEMMA ExitDetachStep == ASSUME IInv, NEW t \in Tasks, ExitDetach(t) PROVE IInv' /\ MembershipStep
<1>1. TypeOK'
    BY DEF IInv, TypeOK, ExitDetach, Goto, PC, MaybeJob, search_job_by_task, taskVars, jobVars, search_thread_by_task
<1>2. /\ pc[t] \notin {"unborn", "dead"} /\ pc' = [pc EXCEPT ![t] = "fini"]
      /\ tgid' = tgid /\ link' = link /\ alive_proc' = alive_proc /\ allocated' = allocated
      /\ \A u \in Tasks \ {t} : loc'[u] = loc[u] /\ entry'[u] = entry[u]
    BY DEF IInv, TypeOK, ExitDetach, Goto, taskVars, jobVars, search_thread_by_task
<1>3. Siblings(t)' = Siblings(t)
    BY <1>2, LocalStep DEF IInv, PC
<1>4. Consistent(t)' /\ CountedIn(t)' \in {CountedIn(t), NoJob}
    BY <1>2, <1>3 DEF IInv, TypeOK, ExitDetach, Goto, Consistent, CountedIn, search_job_by_task, taskVars, jobVars, search_thread_by_task
<1>5. "fini" \in {"del_job", "free_job"}
         => pc[t] \in {"del_job", "free_job"} /\ loc[t] = loc'[t]
    BY DEF ExitDetach
<1> QED  BY <1>1, <1>2, <1>4, <1>5, QuietStep DEF PC

\* A task whose entry is not found leaves without a put_thread.
LEMMA ExitNoThreadStep == ASSUME IInv, NEW t \in Tasks, ExitNoThread(t) PROVE IInv' /\ MembershipStep
<1>1. TypeOK'
    BY DEF IInv, TypeOK, ExitNoThread, Goto, PC, MaybeJob, search_job_by_task, taskVars, jobVars, search_thread_by_task
<1>2. /\ pc[t] \notin {"unborn", "dead"} /\ pc' = [pc EXCEPT ![t] = "exiting"]
      /\ tgid' = tgid /\ link' = link /\ alive_proc' = alive_proc /\ allocated' = allocated
      /\ \A u \in Tasks \ {t} : loc'[u] = loc[u] /\ entry'[u] = entry[u]
    BY DEF IInv, TypeOK, ExitNoThread, Goto, taskVars, jobVars, search_thread_by_task
<1>3. Siblings(t)' = Siblings(t)
    BY <1>2, LocalStep DEF IInv, PC
<1>4. Consistent(t)' /\ CountedIn(t)' \in {CountedIn(t), NoJob}
    BY <1>2, <1>3 DEF IInv, TypeOK, ExitNoThread, Goto, Consistent, CountedIn, search_job_by_task, taskVars, jobVars, search_thread_by_task
<1>5. "exiting" \in {"del_job", "free_job"}
         => pc[t] \in {"del_job", "free_job"} /\ loc[t] = loc'[t]
    BY DEF ExitNoThread
<1> QED  BY <1>1, <1>2, <1>4, <1>5, QuietStep DEF PC

\* Between freeing its entry and put_thread a task is still counted.
LEMMA FiniThreadStep == ASSUME IInv, NEW t \in Tasks, FiniThread(t) PROVE IInv' /\ MembershipStep
<1>1. TypeOK'
    BY DEF IInv, TypeOK, FiniThread, Goto, PC, MaybeJob, search_job_by_task, taskVars, jobVars
<1>2. /\ pc[t] \notin {"unborn", "dead"} /\ pc' = [pc EXCEPT ![t] = "put"]
      /\ tgid' = tgid /\ link' = link /\ alive_proc' = alive_proc /\ allocated' = allocated
      /\ \A u \in Tasks \ {t} : loc'[u] = loc[u] /\ entry'[u] = entry[u]
    BY DEF IInv, TypeOK, FiniThread, Goto, taskVars, jobVars
<1>3. Siblings(t)' = Siblings(t)
    BY <1>2, LocalStep DEF IInv, PC
<1>4. Consistent(t)' /\ CountedIn(t)' \in {CountedIn(t), NoJob}
    BY <1>2, <1>3 DEF IInv, TypeOK, FiniThread, Goto, Consistent, CountedIn, search_job_by_task, taskVars, jobVars
<1>5. "put" \in {"del_job", "free_job"}
         => pc[t] \in {"del_job", "free_job"} /\ loc[t] = loc'[t]
    BY DEF FiniThread
<1> QED  BY <1>1, <1>2, <1>4, <1>5, QuietStep DEF PC

\* Taking a dying job off the list counts nobody.
LEMMA UnlistJobStep == ASSUME IInv, NEW t \in Tasks, UnlistJob(t) PROVE IInv' /\ MembershipStep
<1>1. TypeOK'
    BY DEF IInv, TypeOK, UnlistJob, Goto, PC, MaybeJob, search_job_by_task, taskVars, jobVars
<1>2. /\ pc[t] \notin {"unborn", "dead"} /\ pc' = [pc EXCEPT ![t] = "free_job"]
      /\ tgid' = tgid /\ link' = link /\ alive_proc' = alive_proc /\ allocated' = allocated
      /\ \A u \in Tasks \ {t} : loc'[u] = loc[u] /\ entry'[u] = entry[u]
    BY DEF IInv, TypeOK, UnlistJob, Goto, taskVars, jobVars
<1>3. Siblings(t)' = Siblings(t)
    BY <1>2, LocalStep DEF IInv, PC
<1>4. Consistent(t)' /\ CountedIn(t)' \in {CountedIn(t), NoJob}
    BY <1>2, <1>3 DEF IInv, TypeOK, UnlistJob, Goto, Consistent, CountedIn, search_job_by_task, taskVars, jobVars
<1>5. "free_job" \in {"del_job", "free_job"}
         => pc[t] \in {"del_job", "free_job"} /\ loc[t] = loc'[t]
    BY DEF UnlistJob
<1> QED  BY <1>1, <1>2, <1>4, <1>5, QuietStep DEF PC

\* A task that leaves its address space counts nowhere before and after.
LEMMA ExitMmStep == ASSUME IInv, NEW t \in Tasks, ExitMm(t) PROVE IInv' /\ MembershipStep
<1>1. TypeOK'
    BY DEF IInv, TypeOK, ExitMm, Goto, PC, MaybeJob, search_job_by_task, taskVars, jobVars
<1>2. /\ pc[t] \notin {"unborn", "dead"} /\ pc' = [pc EXCEPT ![t] = "dead"]
      /\ tgid' = tgid /\ link' = link /\ alive_proc' = alive_proc /\ allocated' = allocated
      /\ \A u \in Tasks \ {t} : loc'[u] = loc[u] /\ entry'[u] = entry[u]
    BY DEF IInv, TypeOK, ExitMm, Goto, taskVars, jobVars
<1>3. Siblings(t)' = Siblings(t)
    BY <1>2, LocalStep DEF IInv, PC
<1>4. Consistent(t)' /\ CountedIn(t)' \in {CountedIn(t), NoJob}
    BY <1>2, <1>3 DEF IInv, TypeOK, ExitMm, Goto, Consistent, CountedIn, search_job_by_task, taskVars, jobVars
<1>5. "dead" \in {"del_job", "free_job"}
         => pc[t] \in {"del_job", "free_job"} /\ loc[t] = loc'[t]
    BY DEF ExitMm
<1> QED  BY <1>1, <1>2, <1>4, <1>5, QuietStep DEF PC

\* Every pid has a slot.
LEMMA SlotType == ASSUME NEW p \in Tasks PROVE Slot(p) \in Nat
BY TasksAssumption, SlotsAssumption DEF Slot

\* A failed do_fork leaves its job's forker a forker.
LEMMA ForkFailsStep == ASSUME IInv, NEW t \in Tasks, ForkFails(t) PROVE IInv' /\ MembershipStep
<1> DEFINE l == IF loc[t] = NoJob THEN "user" ELSE "fork_put"
<1>1. TypeOK'
    BY DEF IInv, TypeOK, ForkFails, Goto, PC, taskVars, jobVars
<1>2. /\ pc[t] = "do_fork" /\ pc' = [pc EXCEPT ![t] = l] /\ l \in PC /\ l # "unborn"
      /\ tgid' = tgid /\ link' = link /\ alive_proc' = alive_proc /\ allocated' = allocated
      /\ loc' = loc /\ entry' = entry
    BY DEF ForkFails, Goto, PC, taskVars, jobVars
<1>3. Consistent(t)' /\ CountedIn(t)' \in {CountedIn(t), NoJob}
    BY <1>2 DEF IInv, TypeOK, Consistent, CountedIn, search_job_by_task
<1> QED  BY <1>1, <1>2, <1>3, QuietStep

\* A newborn becomes a member through its entry instead of its link.
LEMMA ScheduleTailStep == ASSUME IInv, NEW t \in Tasks, ScheduleTail(t) PROVE IInv' /\ MembershipStep
<1> DEFINE l == IF search_job_by_task(t) = NoJob THEN "user" ELSE "thread_procfs"
<1>1. TypeOK'
  <2>1. search_job_by_task(t) \in MaybeJob /\ Slot(pid[t]) \in Nat
      BY SlotType DEF IInv, TypeOK, search_job_by_task
  <2>2. entry' \in [Tasks -> MaybeJob] /\ slot' \in [Tasks -> Nat] /\ pc' \in [Tasks -> PC]
      BY <2>1 DEF IInv, TypeOK, ScheduleTail, AttachToJob, Goto, PC
  <2> QED  BY <2>2 DEF IInv, TypeOK, ScheduleTail, jobVars
<1>2. /\ pc[t] \notin {"unborn", "dead"} /\ pc' = [pc EXCEPT ![t] = l]
      /\ tgid' = tgid /\ link' = link /\ alive_proc' = alive_proc /\ allocated' = allocated
      /\ \A u \in Tasks \ {t} : loc'[u] = loc[u] /\ entry'[u] = entry[u]
    BY DEF IInv, TypeOK, ScheduleTail, AttachToJob, Goto, jobVars
<1>3. Siblings(t)' = Siblings(t)
    BY <1>2, LocalStep DEF IInv, PC
<1>4. Consistent(t)' /\ CountedIn(t)' \in {CountedIn(t), NoJob}
    BY <1>2, <1>3 DEF IInv, TypeOK, ScheduleTail, AttachToJob, Goto, Consistent, CountedIn,
                      search_job_by_task, jobVars
<1> QED  BY <1>1, <1>2, <1>4, QuietStep DEF PC

\* A successful do_execve replaces an address space nobody else lives in.
LEMMA KernelExecveStep == ASSUME IInv, NEW t \in Tasks, KernelExecve(t) PROVE IInv' /\ MembershipStep
<1>1. TypeOK'
    BY DEF IInv, TypeOK, KernelExecve, Goto, PC, MaybeJob, jobVars
<1>2. /\ pc[t] = "execve" /\ pc' = [pc EXCEPT ![t] = "init_tsi"]
      /\ tgid' = tgid /\ link' = [link EXCEPT ![tgid[t]] = NoJob]
      /\ loc' = loc /\ entry' = entry /\ alive_proc' = alive_proc /\ allocated' = allocated
      /\ Siblings(t) = {}
    BY DEF KernelExecve, Goto, jobVars
<1>3. Groups'
    BY <1>2 DEF IInv, TypeOK, Groups
<1>4. \A u \in Tasks : Siblings(u) = {} => Siblings(u)' = {}
    BY <1>2 DEF IInv, TypeOK, Siblings
<1>5. Consistent(t)' /\ CountedIn(t)' = CountedIn(t)
    BY <1>2, <1>4 DEF IInv, TypeOK, Consistent, CountedIn, search_job_by_task
<1>6. ASSUME NEW u \in Tasks \ {t}
      PROVE  Consistent(u)' /\ CountedIn(u)' = CountedIn(u)
  <2>1. /\ pc'[u] = pc[u] /\ loc'[u] = loc[u] /\ entry'[u] = entry[u]
        /\ tgid[u] # tgid[t] => search_job_by_task(u)' = search_job_by_task(u)
        /\ tgid[u] = tgid[t] => pc[u] \in {"unborn", "dead"}
      BY <1>2 DEF IInv, TypeOK, search_job_by_task, Siblings
  <2> QED  BY <1>4, <2>1 DEF IInv, Consistent, CountedIn
<1>7. Counted'
    BY <1>2, <1>5, <1>6, CountKept DEF IInv, TypeOK
<1>8. MembershipStep
    BY <1>2, <1>5, <1>6, MembershipStutter
<1> QED  BY <1>1, <1>3, <1>5, <1>6, <1>7, <1>8 DEF IInv

\* init_job(&tsi) writes a link that no live sibling can tell from the old one.
LEMMA InitTsiStep == ASSUME IInv, NEW t \in Tasks, InitTsi(t) PROVE IInv' /\ MembershipStep
<1>1. TypeOK'
    BY DEF IInv, TypeOK, InitTsi, Goto, PC, MaybeJob, taskVars, jobVars
<1>2. /\ pc[t] = "init_tsi" /\ pc' = [pc EXCEPT ![t] = "user"] /\ tgid' = tgid
      /\ link' = IF loc[t] = NoJob THEN link ELSE [link EXCEPT ![tgid[t]] = loc[t]]
      /\ loc' = [loc EXCEPT ![t] = NoJob] /\ entry' = entry
      /\ alive_proc' = alive_proc /\ allocated' = allocated
    BY DEF InitTsi, Goto, taskVars, jobVars
<1>3. Groups'
    BY <1>2 DEF IInv, TypeOK, Groups
<1>4. \A u \in Tasks : Siblings(u) = {} => Siblings(u)' = {}
    BY <1>2 DEF IInv, TypeOK, Siblings
<1>5. Consistent(t)' /\ CountedIn(t)' = CountedIn(t)
    BY <1>2, <1>4 DEF IInv, TypeOK, Consistent, CountedIn, search_job_by_task
<1>6. ASSUME NEW u \in Tasks \ {t}
      PROVE  Consistent(u)' /\ CountedIn(u)' = CountedIn(u)
  <2>1. /\ pc'[u] = pc[u] /\ loc'[u] = loc[u] /\ entry'[u] = entry[u]
        /\ \/ search_job_by_task(u)' = search_job_by_task(u)
           \/ pc[u] \in {"unborn", "dead"}
      BY <1>2 DEF IInv, TypeOK, Consistent, search_job_by_task, Siblings
  <2> QED  BY <1>4, <2>1 DEF IInv, Consistent, CountedIn
<1>7. Counted'
    BY <1>2, <1>5, <1>6, CountKept DEF IInv, TypeOK
<1>8. MembershipStep
    BY <1>2, <1>5, <1>6, MembershipStutter
<1> QED  BY <1>1, <1>3, <1>5, <1>6, <1>7, <1>8 DEF IInv

-----------------------------------------------------------------------------
(* The steps that count.                                                   *)

\* What Counted says of one job.
CountedJob(j) ==
    /\ alive_proc[j] >= Cardinality(Members(j)) + Cardinality(Forkers(j))
    /\ j \notin allocated => alive_proc[j] = 0
    /\ \A t \in Deleters(j) : j \in allocated /\ alive_proc[j] = 0
    /\ \A t, u \in Deleters(j) : t = u

\* A job whose holders, deleters, count and memory a step leaves alone.
LEMMA OtherJobKept ==
    ASSUME Counted, NEW j \in Jobs,
           Members(j)' = Members(j), Forkers(j)' = Forkers(j), Deleters(j)' = Deleters(j),
           alive_proc'[j] = alive_proc[j], j \in allocated' <=> j \in allocated
    PROVE  CountedJob(j)'
BY DEF Counted, CountedJob

\* A root becomes the only holder of a job that nobody held.
LEMMA NewJobStep ==
    ASSUME IInv, ThreadedRoots = FALSE, NEW t \in Tasks, NEW j \in Jobs, NewJob(t, j)
    PROVE  IInv' /\ MembershipStep
<1>1. TypeOK'
    BY SlotType DEF IInv, TypeOK, NewJob, MayExecve, AttachToJob, Goto, PC, MaybeJob
<1>2. /\ pc[t] = "user" /\ pc' = [pc EXCEPT ![t] = "init_job"]
      /\ tgid' = tgid /\ link' = link
      /\ loc' = [loc EXCEPT ![t] = j] /\ entry' = [entry EXCEPT ![t] = j]
      /\ search_job_by_task(t) = NoJob /\ Siblings(t) = {}
      /\ j \notin allocated /\ allocated' = allocated \cup {j}
      /\ alive_proc' = [alive_proc EXCEPT ![j] = 1]
    BY SwitchesAssumption DEF NewJob, MayExecve, AttachToJob, Goto
<1>3. /\ Groups' /\ Siblings(t)' = Siblings(t)
      /\ \A u \in Tasks \ {t} : Consistent(u)' /\ CountedIn(u)' = CountedIn(u)
    BY <1>2, LocalStep DEF IInv, TypeOK, PC
<1>4. Consistent(t)' /\ CountedIn(t)' = j /\ CountedIn(t) = NoJob
    BY <1>2, <1>3 DEF IInv, TypeOK, Consistent, CountedIn, search_job_by_task
<1>5. ASSUME NEW k \in Jobs, k # j
      PROVE  CountedJob(k)'
  <2>1. Members(k)' = Members(k)
      BY <1>3, <1>4, <1>5 DEF Members
  <2>2. Forkers(k)' = Forkers(k) /\ Deleters(k)' = Deleters(k)
      BY <1>2, <1>5 DEF IInv, TypeOK, Forkers, Deleters
  <2> QED  BY <1>2, <1>5, <2>1, <2>2, OtherJobKept DEF IInv, TypeOK
<1>6. CountedJob(j)'
  <2>1. alive_proc[j] = 0 /\ Members(j) = {} /\ Forkers(j) = {} /\ Deleters(j) = {}
    <3>1. alive_proc[j] = 0 /\ Cardinality(Members(j)) = 0 /\ Cardinality(Forkers(j)) = 0
        BY <1>2, HoldersFinite DEF IInv, Counted
    <3>2. Deleters(j) = {}
        BY <1>2 DEF IInv, Counted, Deleters
    <3> QED  BY <3>1, <3>2, HoldersFinite, FS_EmptySet
  <2>2. Members(j)' = {t} /\ Forkers(j)' = {} /\ Deleters(j)' = {}
    <3>1. Members(j)' = {t}
        BY <1>3, <1>4, <2>1 DEF Members
    <3> QED  BY <1>2, <2>1, <3>1 DEF IInv, TypeOK, Forkers, Deleters
  <2>3. Cardinality({t}) = 1 /\ Cardinality({}) = 0
      BY FS_Singleton, FS_EmptySet
  <2>4. alive_proc'[j] = 1 /\ j \in allocated'
      BY <1>2 DEF IInv, TypeOK
  <2> QED  BY <2>2, <2>3, <2>4 DEF CountedJob
<1>7. Counted'
    BY <1>5, <1>6 DEF Counted, CountedJob
<1>8. Membership!Found(t, j)
  <2> DEFINE job == [u \in Tasks |-> CountedIn(u)]
  <2>1. job' = [job EXCEPT ![t] = j]
      BY <1>3, <1>4
  <2> QED  BY <1>2, <1>4, <2>1 DEF Membership!Found
<1> QED  BY <1>1, <1>3, <1>4, <1>7, <1>8 DEF IInv, MembershipStep, Membership!Next

\* A parent becomes a forker of its job and counts itself as one.
LEMMA ForkEnterStep == ASSUME IInv, NEW t \in Tasks, ForkEnter(t) PROVE IInv' /\ MembershipStep
<1>0. PICK j \in MaybeJob : j = search_job_by_task(t)
    BY DEF IInv, TypeOK, search_job_by_task
<1>1. TypeOK'
    BY <1>0 DEF IInv, TypeOK, ForkEnter, Goto, PC, MaybeJob, taskVars
<1>2. /\ pc[t] = "user" /\ pc' = [pc EXCEPT ![t] = "do_fork"]
      /\ tgid' = tgid /\ link' = link /\ entry' = entry
      /\ loc' = [loc EXCEPT ![t] = j] /\ allocated' = allocated
      /\ alive_proc' = IF j = NoJob THEN alive_proc ELSE [alive_proc EXCEPT ![j] = @ + 1]
    BY <1>0 DEF ForkEnter, Goto, taskVars
<1>3. /\ Groups' /\ Siblings(t)' = Siblings(t)
      /\ \A u \in Tasks \ {t} : Consistent(u)' /\ CountedIn(u)' = CountedIn(u)
    BY <1>2, LocalStep DEF IInv, TypeOK, PC
<1>4. Consistent(t)' /\ CountedIn(t)' = CountedIn(t)
    BY <1>0, <1>2, <1>3 DEF IInv, TypeOK, Consistent, CountedIn, search_job_by_task
<1>5. \A k \in Jobs : Members(k)' = Members(k) /\ Deleters(k)' = Deleters(k)
    BY <1>2, <1>3, <1>4 DEF IInv, TypeOK, Members, Deleters
<1>6. ASSUME NEW k \in Jobs, k # j
      PROVE  CountedJob(k)'
  <2>1. Forkers(k)' = Forkers(k)
      BY <1>2, <1>6 DEF IInv, TypeOK, Forkers
  <2> QED  BY <1>2, <1>5, <1>6, <2>1, OtherJobKept DEF IInv, TypeOK
<1>7. ASSUME j \in Jobs
      PROVE  CountedJob(j)'
  <2>1. CountedIn(t) = j
      BY <1>0, <1>2, <1>7, LinkedCounts DEF IInv, Alive
  <2>2. alive_proc[j] >= 1 /\ j \in allocated /\ Deleters(j) = {}
      BY <1>7, <2>1, HeldJob DEF IInv, Counted
  <2>3. Forkers(j)' = Forkers(j) \cup {t} /\ t \notin Forkers(j)
      BY <1>2 DEF IInv, TypeOK, Forkers
  <2>4. Cardinality(Forkers(j)') = Cardinality(Forkers(j)) + 1
      BY <1>7, <2>3, HoldersFinite, FS_AddElement
  <2>5. alive_proc[j] \in Nat /\ alive_proc'[j] = alive_proc[j] + 1
      BY <1>2, <1>7 DEF IInv, TypeOK
  <2>6. alive_proc[j] >= Cardinality(Members(j)) + Cardinality(Forkers(j))
      BY <1>7 DEF IInv, Counted
  <2>7. alive_proc'[j] >= Cardinality(Members(j)') + Cardinality(Forkers(j)')
      BY <1>5, <1>7, <2>4, <2>5, <2>6, HoldersFinite
  <2> QED  BY <1>2, <1>5, <1>7, <2>2, <2>7 DEF CountedJob
<1>8. Counted'
    BY <1>6, <1>7 DEF Counted, CountedJob
<1>9. MembershipStep
    BY <1>2, <1>3, <1>4, MembershipStutter
<1> QED  BY <1>1, <1>3, <1>4, <1>8, <1>9 DEF IInv

\* The child takes over the member its parent counted in advance.
LEMMA ForkChildStep ==
    ASSUME IInv, NEW t \in Tasks, NEW c \in Tasks, NEW thread \in BOOLEAN, ForkChild(t, c, thread)
    PROVE  IInv' /\ MembershipStep
<1>0. PICK j \in MaybeJob : j = loc[t]
    BY DEF IInv, TypeOK
<1>1. TypeOK'
    BY DEF IInv, TypeOK, ForkChild, PC, MaybeJob, search_job_by_task, jobVars
<1>2. /\ pc[t] = "do_fork" /\ pc[c] = "unborn" /\ t # c
      /\ pc' = [pc EXCEPT ![t] = "user", ![c] = "newborn"]
      /\ tgid' = [tgid EXCEPT ![c] = IF thread THEN tgid[t] ELSE c]
      /\ link' = IF thread THEN link ELSE [link EXCEPT ![c] = search_job_by_task(t)]
      /\ loc' = [loc EXCEPT ![t] = NoJob] /\ entry' = entry
      /\ alive_proc' = alive_proc /\ allocated' = allocated
    BY DEF ForkChild, jobVars
<1>3. j = search_job_by_task(t)
    BY <1>0, <1>2 DEF IInv, Consistent
<1>4. Groups'
    BY <1>2 DEF IInv, TypeOK, Groups
<1>5. \A u \in Tasks \ {c} : tgid'[u] = tgid[u] /\ tgid[u] # c
    BY <1>2 DEF IInv, TypeOK, Groups
<1>6. \A u \in Tasks \ {c} : search_job_by_task(u)' = search_job_by_task(u)
    BY <1>2, <1>5 DEF IInv, TypeOK, search_job_by_task
<1>7. search_job_by_task(c)' = j
    BY <1>2, <1>3 DEF IInv, TypeOK, search_job_by_task
<1>8. ASSUME NEW u \in Tasks \ {t, c}, pc[u] # "unborn", Siblings(u) = {}
      PROVE  Siblings(u)' = {}
  <2>1. tgid[u] # tgid[t]
      BY <1>2, <1>8 DEF Siblings
  <2>2. tgid'[c] # tgid[u]
      BY <1>2, <1>5, <2>1 DEF IInv, TypeOK
  <2> QED  BY <1>2, <1>5, <1>8, <2>1, <2>2 DEF IInv, TypeOK, Siblings
<1>9. ASSUME NEW u \in Tasks \ {t, c}
      PROVE  Consistent(u)' /\ CountedIn(u)' = CountedIn(u)
  <2>1. pc'[u] = pc[u] /\ loc'[u] = loc[u] /\ entry'[u] = entry[u]
      BY <1>2 DEF IInv, TypeOK
  <2> QED  BY <1>6, <1>8, <2>1 DEF IInv, Consistent, CountedIn
<1>10. Consistent(t)' /\ CountedIn(t)' = CountedIn(t)
  <2>1. pc'[t] = "user" /\ loc'[t] = NoJob /\ entry'[t] = entry[t]
      BY <1>2 DEF IInv, TypeOK
  <2> QED  BY <1>2, <1>6, <2>1 DEF IInv, Consistent, CountedIn
<1>11. Consistent(c)' /\ CountedIn(c)' = j /\ CountedIn(c) = NoJob
  <2>1. pc'[c] = "newborn" /\ loc'[c] = NoJob /\ entry'[c] = NoJob /\ entry[c] = NoJob
      BY <1>2 DEF IInv, TypeOK, Consistent
  <2> QED  BY <1>2, <1>7, <2>1 DEF Consistent, CountedIn
<1>12. \A k \in Jobs : Deleters(k)' = Deleters(k)
    BY <1>2 DEF IInv, TypeOK, Deleters
<1>13. ASSUME NEW k \in Jobs, k # j
      PROVE  CountedJob(k)'
  <2>1. Members(k)' = Members(k)
      BY <1>9, <1>10, <1>11, <1>13, NoJobAssumption DEF Members
  <2>2. Forkers(k)' = Forkers(k)
      BY <1>0, <1>2, <1>13 DEF IInv, TypeOK, Forkers
  <2> QED  BY <1>2, <1>12, <2>1, <2>2, OtherJobKept DEF IInv
<1>14. ASSUME j \in Jobs
      PROVE  CountedJob(j)'
  <2>1. Members(j)' = Members(j) \cup {c} /\ c \notin Members(j)
      BY <1>9, <1>10, <1>11, <1>14, NoJobAssumption DEF Members
  <2>2. Forkers(j)' = Forkers(j) \ {t} /\ t \in Forkers(j)
      BY <1>0, <1>2, <1>14 DEF IInv, TypeOK, Forkers
  <2>3. Cardinality(Members(j)') = Cardinality(Members(j)) + 1
      BY <1>14, <2>1, HoldersFinite, FS_AddElement
  <2>6. Cardinality(Forkers(j)') = Cardinality(Forkers(j)) - 1
      BY <1>14, <2>2, HoldersFinite, FS_RemoveElement
  <2>4. alive_proc[j] >= Cardinality(Members(j)) + Cardinality(Forkers(j)) /\ alive_proc[j] \in Nat
      BY <1>14 DEF IInv, TypeOK, Counted
  <2>5. alive_proc'[j] >= Cardinality(Members(j)') + Cardinality(Forkers(j)')
      BY <1>2, <1>14, <2>3, <2>4, <2>6, HoldersFinite
  <2> QED  BY <1>2, <1>12, <1>14, <2>5 DEF IInv, Counted, CountedJob
<1>15. Counted'
    BY <1>13, <1>14 DEF Counted, CountedJob
<1>16. MembershipStep
  <2>1. CASE j = NoJob
      BY <1>2, <1>9, <1>10, <1>11, <2>1, MembershipStutter
  <2>2. CASE j # NoJob
    <3>1. CountedIn(t) = j
        BY <1>2, <1>3, <2>2, LinkedCounts DEF IInv, Alive
    <3>2. Membership!Join(t, c)
        BY <1>2, <1>9, <1>10, <1>11, <2>2, <3>1 DEF Membership!Join
    <3> QED  BY <3>2 DEF MembershipStep, Membership!Next
  <2> QED  BY <2>1, <2>2
<1> QED  BY <1>1, <1>4, <1>9, <1>10, <1>11, <1>15, <1>16 DEF IInv

\* A parent that undoes its fork is no forker any more, but still a member.
LEMMA ForkPutStep == ASSUME IInv, NEW t \in Tasks, ForkPut(t) PROVE IInv' /\ MembershipStep
<1>0. PICK j \in Jobs : j = loc[t] /\ alive_proc[j] >= 2
    BY ForkPutCount DEF IInv, ForkPut
<1>2. /\ pc[t] = "fork_put" /\ pc' = [pc EXCEPT ![t] = "user"]
      /\ tgid' = tgid /\ link' = link /\ entry' = entry
      /\ loc' = [loc EXCEPT ![t] = NoJob] /\ allocated' = allocated
      /\ alive_proc' = [alive_proc EXCEPT ![j] = @ - 1] /\ alive_proc[j] \in Nat
    BY <1>0 DEF IInv, TypeOK, ForkPut, put_thread, Goto, taskVars
<1>1. TypeOK'
    BY <1>0, <1>2 DEF IInv, TypeOK, ForkPut, PC, MaybeJob, taskVars
<1>3. /\ Groups' /\ Siblings(t)' = Siblings(t)
      /\ \A u \in Tasks \ {t} : Consistent(u)' /\ CountedIn(u)' = CountedIn(u)
    BY <1>2, LocalStep DEF IInv, TypeOK, PC
<1>4. Consistent(t)' /\ CountedIn(t)' = CountedIn(t)
    BY <1>2, <1>3 DEF IInv, TypeOK, Consistent, CountedIn, search_job_by_task
<1>5. \A k \in Jobs : Members(k)' = Members(k) /\ Deleters(k)' = Deleters(k)
    BY <1>2, <1>3, <1>4 DEF IInv, TypeOK, Members, Deleters
<1>6. ASSUME NEW k \in Jobs, k # j
      PROVE  CountedJob(k)'
  <2>1. Forkers(k)' = Forkers(k)
      BY <1>0, <1>2, <1>6 DEF IInv, TypeOK, Forkers
  <2> QED  BY <1>2, <1>5, <1>6, <2>1, OtherJobKept DEF IInv, TypeOK
<1>7. CountedJob(j)'
  <2>1. Forkers(j)' = Forkers(j) \ {t} /\ t \in Forkers(j)
      BY <1>0, <1>2 DEF IInv, TypeOK, Forkers
  <2>2. Cardinality(Forkers(j)') = Cardinality(Forkers(j)) - 1
      BY <2>1, HoldersFinite, FS_RemoveElement
  <2>3. alive_proc[j] >= Cardinality(Members(j)) + Cardinality(Forkers(j))
      BY DEF IInv, Counted
  <2>4. alive_proc'[j] = alive_proc[j] - 1
      BY <1>2 DEF IInv, TypeOK
  <2>5. alive_proc'[j] >= Cardinality(Members(j)') + Cardinality(Forkers(j)')
      BY <1>2, <1>5, <2>2, <2>3, <2>4, HoldersFinite
  <2>6. j \in allocated /\ Deleters(j) = {}
      BY <1>0 DEF IInv, Counted
  <2> QED  BY <1>2, <1>5, <2>5, <2>6 DEF CountedJob
<1>8. Counted'
    BY <1>6, <1>7 DEF Counted, CountedJob
<1>9. MembershipStep
    BY <1>2, <1>3, <1>4, MembershipStutter
<1> QED  BY <1>1, <1>3, <1>4, <1>8, <1>9 DEF IInv

\* A member leaves; if its count was the last one it becomes the only deleter.
LEMMA PutThreadStep == ASSUME IInv, NEW t \in Tasks, PutThread(t) PROVE IInv' /\ MembershipStep
<1>0. PICK j \in Jobs : j = loc[t]
    BY DEF IInv, TypeOK, MaybeJob, Consistent, PutThread
<1> DEFINE l == IF alive_proc[j] = 1 THEN "del_job" ELSE "exiting"
<1>2. /\ pc[t] = "put" /\ pc' = [pc EXCEPT ![t] = l]
      /\ tgid' = tgid /\ link' = link /\ entry' = entry
      /\ loc' = IF alive_proc[j] = 1 THEN loc ELSE [loc EXCEPT ![t] = NoJob]
      /\ allocated' = allocated
      /\ alive_proc' = [alive_proc EXCEPT ![j] = @ - 1]
    BY <1>0 DEF PutThread, put_thread, Goto, taskVars
<1>3. CountedIn(t) = j /\ entry[t] = NoJob
    BY <1>0, <1>2 DEF IInv, Consistent, CountedIn
<1>4. alive_proc[j] >= 1 /\ j \in allocated /\ alive_proc[j] \in Nat /\ Deleters(j) = {}
    BY <1>3, HeldJob DEF IInv, TypeOK, Counted
<1>5. pc'[t] = l /\ loc'[t] = (IF alive_proc[j] = 1 THEN j ELSE NoJob) /\ entry'[t] = NoJob
    BY <1>0, <1>2, <1>3 DEF IInv, TypeOK
<1>1. TypeOK'
  <2>1. pc' \in [Tasks -> PC] /\ loc' \in [Tasks -> MaybeJob]
      BY <1>2 DEF IInv, TypeOK, PC, MaybeJob
  <2>2. alive_proc' \in [Jobs -> Nat]
      BY <1>2, <1>4 DEF IInv, TypeOK
  <2> QED  BY <2>1, <2>2 DEF IInv, TypeOK, PutThread, taskVars
<1>6. /\ Groups' /\ Siblings(t)' = Siblings(t)
      /\ \A u \in Tasks \ {t} : Consistent(u)' /\ CountedIn(u)' = CountedIn(u)
  <2>1. \A u \in Tasks \ {t} : loc'[u] = loc[u] /\ entry'[u] = entry[u]
      BY <1>2 DEF IInv, TypeOK
  <2>2. l \in PC /\ l # "unborn" /\ pc[t] \notin {"unborn", "dead"}
      BY <1>2 DEF PC
  <2> QED  BY <1>2, <2>1, <2>2, LocalStep DEF IInv
<1>7. Consistent(t)' /\ CountedIn(t)' = NoJob
    BY <1>5 DEF Consistent, CountedIn
<1>8. ASSUME NEW k \in Jobs, k # j
      PROVE  CountedJob(k)'
  <2>1. Members(k)' = Members(k)
      BY <1>3, <1>6, <1>7, <1>8 DEF Members
  <2>2. Forkers(k)' = Forkers(k) /\ Deleters(k)' = Deleters(k)
      BY <1>0, <1>2, <1>8 DEF IInv, TypeOK, Forkers, Deleters
  <2> QED  BY <1>2, <1>8, <2>1, <2>2, OtherJobKept DEF IInv, TypeOK
<1>9. CountedJob(j)'
  <2>1. Members(j)' = Members(j) \ {t} /\ t \in Members(j)
      BY <1>3, <1>6, <1>7 DEF Members
  <2>2. Cardinality(Members(j)') = Cardinality(Members(j)) - 1
      BY <2>1, HoldersFinite, FS_RemoveElement
  <2>3. Forkers(j)' = Forkers(j)
      BY <1>2 DEF IInv, TypeOK, Forkers
  <2>4. alive_proc[j] >= Cardinality(Members(j)) + Cardinality(Forkers(j))
      BY DEF IInv, Counted
  <2>5. alive_proc'[j] = alive_proc[j] - 1
      BY <1>2 DEF IInv, TypeOK
  <2>6. alive_proc'[j] >= Cardinality(Members(j)') + Cardinality(Forkers(j)')
      BY <1>4, <2>2, <2>3, <2>4, <2>5, HoldersFinite
  <2>7. \A u \in Deleters(j)' : u = t /\ alive_proc[j] = 1
      BY <1>2, <1>4, <1>5 DEF IInv, TypeOK, Deleters
  <2> QED  BY <1>2, <1>4, <2>5, <2>6, <2>7 DEF CountedJob
<1>10. Counted'
    BY <1>8, <1>9 DEF Counted, CountedJob
<1>11. MembershipStep
    BY <1>2, <1>3, <1>6, <1>7, MembershipLeave
<1> QED  BY <1>1, <1>6, <1>7, <1>10, <1>11 DEF IInv

\* The only deleter frees a job that nobody holds.
LEMMA FreeJobStep == ASSUME IInv, NEW t \in Tasks, FreeJob(t) PROVE IInv' /\ MembershipStep
<1>0. PICK j \in Jobs : j = loc[t]
    BY DEF IInv, TypeOK, MaybeJob, Consistent, FreeJob
<1>1. TypeOK'
    BY DEF IInv, TypeOK, FreeJob, Goto, PC, MaybeJob, taskVars
<1>2. /\ pc[t] = "free_job" /\ pc' = [pc EXCEPT ![t] = "oops"]
      /\ tgid' = tgid /\ link' = link /\ entry' = entry
      /\ loc' = [loc EXCEPT ![t] = NoJob] /\ allocated' = allocated \ {j}
      /\ alive_proc' = alive_proc
    BY <1>0 DEF FreeJob, Goto, taskVars
<1>3. /\ Groups' /\ Siblings(t)' = Siblings(t)
      /\ \A u \in Tasks \ {t} : Consistent(u)' /\ CountedIn(u)' = CountedIn(u)
    BY <1>2, LocalStep DEF IInv, TypeOK, PC
<1>4. Consistent(t)' /\ CountedIn(t)' = CountedIn(t)
    BY <1>2, <1>3 DEF IInv, TypeOK, Consistent, CountedIn, search_job_by_task
<1>5. \A k \in Jobs : Members(k)' = Members(k) /\ Forkers(k)' = Forkers(k)
    BY <1>2, <1>3, <1>4 DEF IInv, TypeOK, Members, Forkers
<1>6. t \in Deleters(j) /\ alive_proc[j] = 0
    BY <1>0, <1>2 DEF IInv, Counted, Deleters
<1>7. ASSUME NEW k \in Jobs, k # j
      PROVE  CountedJob(k)'
  <2>1. Deleters(k)' = Deleters(k)
      BY <1>0, <1>2, <1>7 DEF IInv, TypeOK, Deleters
  <2> QED  BY <1>2, <1>5, <1>7, <2>1, OtherJobKept DEF IInv
<1>8. CountedJob(j)'
  <2>1. Deleters(j)' = Deleters(j) \ {t}
      BY <1>0, <1>2 DEF IInv, TypeOK, Deleters
  <2>2. Deleters(j)' = {}
      BY <1>6, <2>1 DEF IInv, Counted
  <2> QED  BY <1>2, <1>5, <1>6, <2>2 DEF IInv, Counted, CountedJob
<1>9. Counted'
    BY <1>7, <1>8 DEF Counted, CountedJob
<1>10. Membership!Reclaim(j)
  <2>1. Members(j) = {} /\ j \in allocated
      BY <1>6, HoldersFinite, FS_EmptySet DEF IInv, Counted
  <2>2. \A u \in Tasks : CountedIn(u) # j
      BY <2>1 DEF Members
  <2> QED  BY <1>2, <1>3, <1>4, <2>1, <2>2 DEF Membership!Reclaim
<1> QED  BY <1>1, <1>3, <1>4, <1>9, <1>10 DEF IInv, MembershipStep, Membership!Next

-----------------------------------------------------------------------------
(* The theorems.                                                           *)

\* Every step keeps the invariant and is a step of JobMembership.
LEMMA NextIInv ==
    ASSUME IInv, ThreadedRoots = FALSE, [Next]_vars
    PROVE  IInv' /\ MembershipStep
<1>1. ASSUME NEW t \in Tasks, Execve(t)
      PROVE  IInv' /\ MembershipStep
    BY <1>1, ExistingJobStep, NonJobStep, NewJobStep, PublishJobStep, JobProcfsStep,
       KernelExecveStep, KernelExecveFailsStep, InitTsiStep DEF Execve
<1>2. ASSUME NEW t \in Tasks, Fork(t)
      PROVE  IInv' /\ MembershipStep
    BY <1>2, ForkEnterStep, ForkChildStep, ForkPutStep, ScheduleTailStep,
       ScheduleTailNoMemoryStep, ThreadProcfsStep, ForkFailsStep DEF Fork
<1>3. ASSUME NEW t \in Tasks, Exit(t)
      PROVE  IInv' /\ MembershipStep
    BY <1>3, ExitDetachStep, ExitNoThreadStep, FiniThreadStep, PutThreadStep, UnlistJobStep,
       FreeJobStep, ExitMmStep DEF Exit
<1>4. CASE UNCHANGED vars
  <2>1. TypeOK' /\ Groups'
      BY <1>4 DEF IInv, vars, TypeOK, Groups
  <2>2. \A u \in Tasks : Consistent(u)' /\ CountedIn(u)' = CountedIn(u)
      BY <1>4 DEF IInv, vars, Consistent, CountedIn, Siblings, search_job_by_task
  <2>3. Counted'
      BY <1>4, <2>2, CountKept DEF IInv, vars
  <2>4. MembershipStep
      BY <1>4, <2>2, MembershipStutter DEF vars
  <2> QED  BY <2>1, <2>2, <2>3, <2>4 DEF IInv
<1> QED  BY <1>1, <1>2, <1>3, <1>4 DEF Next

\* The inductive invariant holds in every reachable state.
LEMMA Invariance == ASSUME ThreadedRoots = FALSE PROVE Spec => []IInv
<1>1. IInv /\ [Next]_vars => IInv'
    BY NextIInv
<1> QED  BY InitIInv, <1>1, PTL DEF Spec

(* Every reachable state is of the declared type; in particular no count   *)
(* is ever decremented below zero by put_thread.                           *)
THEOREM TypeCorrect == ASSUME ThreadedRoots = FALSE PROVE Spec => []TypeOK
<1>1. IInv => TypeOK
    BY DEF IInv
<1> QED  BY Invariance, <1>1, PTL

(* For any number of tasks, forking, executing and exiting in any order: a *)
(* task that has not left its job in the exit hook never follows its LDT   *)
(* link into a job that was freed.                                         *)
THEOREM MembersAreSafe == ASSUME ThreadedRoots = FALSE PROVE Spec => []MemberJobAllocated
<1>1. IInv => MemberJobAllocated
    BY IInvImplies
<1> QED  BY Invariance, <1>1, PTL

(* No thread entry, leaked ones included, outlives its job.                *)
THEOREM EntriesAreSafe == ASSUME ThreadedRoots = FALSE PROVE Spec => []EntryJobAllocated
<1>1. IInv => EntryJobAllocated
    BY IInvImplies
<1> QED  BY Invariance, <1>1, PTL

(* get_thread before do_fork and put_thread in the exit hook and after a   *)
(* failed do_fork never count fewer holders than there are.                *)
THEOREM CountsAreSound == ASSUME ThreadedRoots = FALSE PROVE Spec => []CountNeverShort
<1>1. IInv => CountNeverShort
    BY IInvImplies
<1> QED  BY Invariance, <1>1, PTL

(* put_thread after a failed do_fork never deletes the job.                *)
THEOREM ForkNeverDeletes == ASSUME ThreadedRoots = FALSE PROVE Spec => []ForkPutNotLast
<1>1. IInv => ForkPutNotLast
    BY IInvImplies
<1> QED  BY Invariance, <1>1, PTL

(* The hooks implement abstract job membership: a job object is freed only *)
(* when no task is a member of the job.                                    *)
THEOREM Refinement == ASSUME ThreadedRoots = FALSE PROVE Spec => ImplementsMembership
<1>1. Init => Membership!Init
    BY DEF Init, Membership!Init, CountedIn, search_job_by_task
<1>2. IInv /\ [Next]_vars => [Membership!Next]_(Membership!vars)
    BY NextIInv DEF MembershipStep
<1> QED  BY Invariance, <1>1, <1>2, PTL DEF Spec, ImplementsMembership, Membership!Spec
=============================================================================
