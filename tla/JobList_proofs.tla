----------------------------- MODULE JobList_proofs -----------------------------
(***************************************************************************)
(* Proofs about the zone's list of jobs and the /proc tree, for any number *)
(* of tasks, jobs and slots, on top of the invariant of JobLife_proofs: a  *)
(* job is listed and has its directory as long as somebody is counted in   *)
(* it, from the time its root has put it there, and both are gone before   *)
(* its memory is; a file stays behind its task only when execve has renamed*)
(* the task.  The second half proves that nothing is lost, as long as      *)
(* newborns get their entries and no thread but a leader calls execve.     *)
(***************************************************************************)
EXTENDS JobLife_proofs

\* What the zone's list and the /proc tree hold for a task.
Placed(t) ==
    /\ CountedIn(t) # NoJob /\ pc[t] # "init_job" => CountedIn(t) \in job_list
    /\ CountedIn(t) # NoJob /\ pc[t] \notin {"init_job", "job_procfs"} => CountedIn(t) \in jproc
    /\ tproc[t] => entry[t] \in jproc
    /\ pc[t] = "del_job" => loc[t] \in job_list
    /\ pc[t] = "free_job" => loc[t] \notin job_list

\* Ids are given out in order.
Lists ==
    /\ job_list \subseteq allocated
    /\ \A j \in job_list : id[j] < max_jid
    /\ \A j, k \in job_list : id[j] = id[k] => j = k

ListInv == Lists /\ \A t \in Tasks : Placed(t)

USE NoJobAssumption

\* A step that does not touch a task, nor the job it is counted in or deletes.
LEMMA OtherPlaced ==
    ASSUME ListInv, TypeOK, NEW u \in Tasks,
           pc'[u] = pc[u], loc'[u] = loc[u], entry'[u] = entry[u], tproc'[u] = tproc[u],
           CountedIn(u)' = CountedIn(u),
           CountedIn(u) # NoJob => /\ CountedIn(u) \in job_list => CountedIn(u) \in job_list'
                                   /\ CountedIn(u) \in jproc => CountedIn(u) \in jproc',
           pc[u] \in {"del_job", "free_job"} => (loc[u] \in job_list <=> loc[u] \in job_list')
    PROVE  Placed(u)'
<1>1. entry[u] \in jproc => entry[u] # NoJob /\ CountedIn(u) = entry[u]
    BY DEF TypeOK, CountedIn
<1> QED  BY <1>1 DEF ListInv, Placed

\* A step of one task in its own address space, that touches no list.
LEMMA QuietPlaced ==
    ASSUME IInv, ListInv, NEW t \in Tasks, pc[t] \notin {"unborn", "dead"},
           NEW l \in PC, l # "unborn", pc' = [pc EXCEPT ![t] = l], tgid' = tgid, link' = link,
           \A u \in Tasks \ {t} : loc'[u] = loc[u] /\ entry'[u] = entry[u] /\ tproc'[u] = tproc[u],
           job_list' = job_list, jproc' = jproc, id' = id, max_jid' = max_jid,
           allocated \subseteq allocated', Placed(t)'
    PROVE  ListInv'
<1>1. ASSUME NEW u \in Tasks \ {t} PROVE Placed(u)'
  <2>1. CountedIn(u)' = CountedIn(u)
      BY LocalStep DEF IInv
  <2>2. pc'[u] = pc[u]
      BY DEF IInv, TypeOK
  <2> QED  BY <2>1, <2>2, OtherPlaced DEF IInv
<1>2. Lists'
    BY DEF ListInv, Lists
<1> QED  BY <1>1, <1>2 DEF ListInv

\* A root's new job is not listed yet.
LEMMA NewJobList ==
    ASSUME IInv, ListInv, NEW t \in Tasks, NEW j \in Jobs, NewJob(t, j) PROVE ListInv'
<1>1. /\ pc[t] = "user" /\ pc' = [pc EXCEPT ![t] = "init_job"]
      /\ tgid' = tgid /\ link' = link /\ tproc' = tproc
      /\ loc' = [loc EXCEPT ![t] = j] /\ entry' = [entry EXCEPT ![t] = j]
      /\ search_job_by_task(t) = NoJob
      /\ allocated' = allocated \cup {j}
      /\ job_list' = job_list /\ jproc' = jproc /\ id' = id /\ max_jid' = max_jid
    BY DEF NewJob, MayExecve, AttachToJob, Goto
<1>2. ~tproc[t]
  <2>1. entry[t] = NoJob
      BY <1>1 DEF IInv, Consistent
  <2> QED  BY <2>1 DEF ListInv, Placed, IInv, TypeOK
<1>3. Placed(t)'
    BY <1>1, <1>2 DEF Placed, IInv, TypeOK
<1> QED  BY <1>1, <1>3, QuietPlaced DEF IInv, TypeOK, PC

\* A member stays where it is.
LEMMA ExistingJobList == ASSUME IInv, ListInv, NEW t \in Tasks, ExistingJob(t) PROVE ListInv'
<1>1. /\ pc[t] = "user" /\ pc' = [pc EXCEPT ![t] = "execve"]
      /\ tgid' = tgid /\ link' = link
      /\ \A u \in Tasks \ {t} : loc'[u] = loc[u] /\ entry'[u] = entry[u] /\ tproc'[u] = tproc[u]
      /\ job_list' = job_list /\ jproc' = jproc /\ id' = id /\ max_jid' = max_jid /\ allocated' = allocated
    BY DEF IInv, TypeOK, ExistingJob, Goto, taskVars, jobVars, MayExecve
<1>2. Placed(t)'
    BY <1>1 DEF IInv, TypeOK, Consistent, ListInv, Placed, CountedIn, search_job_by_task, MaybeJob,
                ExistingJob, Goto, taskVars, jobVars, MayExecve
<1> QED  BY <1>1, <1>2, QuietPlaced DEF PC

\* A task without a job has none to show.
LEMMA NonJobList == ASSUME IInv, ListInv, NEW t \in Tasks, NonJob(t) PROVE ListInv'
<1>1. /\ pc[t] = "user" /\ pc' = [pc EXCEPT ![t] = "execve"]
      /\ tgid' = tgid /\ link' = link
      /\ \A u \in Tasks \ {t} : loc'[u] = loc[u] /\ entry'[u] = entry[u] /\ tproc'[u] = tproc[u]
      /\ job_list' = job_list /\ jproc' = jproc /\ id' = id /\ max_jid' = max_jid /\ allocated' = allocated
    BY DEF IInv, TypeOK, NonJob, Goto, taskVars, jobVars, MayExecve
<1>2. Placed(t)'
    BY <1>1 DEF IInv, TypeOK, Consistent, ListInv, Placed, CountedIn, search_job_by_task, MaybeJob,
                NonJob, Goto, taskVars, jobVars, MayExecve
<1> QED  BY <1>1, <1>2, QuietPlaced DEF PC

\* A failed do_execve changes nothing.
LEMMA KernelExecveFailsList == ASSUME IInv, ListInv, NEW t \in Tasks, KernelExecveFails(t) PROVE ListInv'
<1>1. /\ pc[t] = "execve" /\ pc' = [pc EXCEPT ![t] = "init_tsi"]
      /\ tgid' = tgid /\ link' = link
      /\ \A u \in Tasks \ {t} : loc'[u] = loc[u] /\ entry'[u] = entry[u] /\ tproc'[u] = tproc[u]
      /\ job_list' = job_list /\ jproc' = jproc /\ id' = id /\ max_jid' = max_jid /\ allocated' = allocated
    BY DEF IInv, TypeOK, KernelExecveFails, Goto, taskVars, jobVars
<1>2. Placed(t)'
    BY <1>1 DEF IInv, TypeOK, Consistent, ListInv, Placed, CountedIn, search_job_by_task, MaybeJob,
                KernelExecveFails, Goto, taskVars, jobVars
<1> QED  BY <1>1, <1>2, QuietPlaced DEF PC

\* Counting a child lists nothing.
LEMMA ForkEnterList == ASSUME IInv, ListInv, NEW t \in Tasks, ForkEnter(t) PROVE ListInv'
<1>1. /\ pc[t] = "user" /\ pc' = [pc EXCEPT ![t] = "do_fork"]
      /\ tgid' = tgid /\ link' = link
      /\ \A u \in Tasks \ {t} : loc'[u] = loc[u] /\ entry'[u] = entry[u] /\ tproc'[u] = tproc[u]
      /\ job_list' = job_list /\ jproc' = jproc /\ id' = id /\ max_jid' = max_jid /\ allocated' = allocated
    BY DEF IInv, TypeOK, ForkEnter, Goto, taskVars, jobVars
<1>2. Placed(t)'
    BY <1>1 DEF IInv, TypeOK, Consistent, ListInv, Placed, CountedIn, search_job_by_task, MaybeJob,
                ForkEnter, Goto, taskVars, jobVars
<1> QED  BY <1>1, <1>2, QuietPlaced DEF PC

\* A newborn that gets no entry is linked to its job all the same.
LEMMA ScheduleTailNoMemoryList == ASSUME IInv, ListInv, NEW t \in Tasks, ScheduleTailNoMemory(t) PROVE ListInv'
<1>1. /\ pc[t] = "newborn" /\ pc' = [pc EXCEPT ![t] = "user"]
      /\ tgid' = tgid /\ link' = link
      /\ \A u \in Tasks \ {t} : loc'[u] = loc[u] /\ entry'[u] = entry[u] /\ tproc'[u] = tproc[u]
      /\ job_list' = job_list /\ jproc' = jproc /\ id' = id /\ max_jid' = max_jid /\ allocated' = allocated
    BY DEF IInv, TypeOK, ScheduleTailNoMemory, Goto, taskVars, jobVars
<1>2. Placed(t)'
    BY <1>1 DEF IInv, TypeOK, Consistent, ListInv, Placed, CountedIn, search_job_by_task, MaybeJob,
                ScheduleTailNoMemory, Goto, taskVars, jobVars
<1> QED  BY <1>1, <1>2, QuietPlaced DEF PC

\* The file of a new entry goes into its job's directory.
LEMMA ThreadProcfsList == ASSUME IInv, ListInv, NEW t \in Tasks, ThreadProcfs(t) PROVE ListInv'
<1>1. /\ pc[t] = "thread_procfs" /\ pc' = [pc EXCEPT ![t] = "user"]
      /\ tgid' = tgid /\ link' = link
      /\ \A u \in Tasks \ {t} : loc'[u] = loc[u] /\ entry'[u] = entry[u] /\ tproc'[u] = tproc[u]
      /\ job_list' = job_list /\ jproc' = jproc /\ id' = id /\ max_jid' = max_jid /\ allocated' = allocated
    BY DEF IInv, TypeOK, ThreadProcfs, Goto, taskVars, jobVars
<1>2. Placed(t)'
    BY <1>1 DEF IInv, TypeOK, Consistent, ListInv, Placed, CountedIn, search_job_by_task, MaybeJob,
                ThreadProcfs, Goto, taskVars, jobVars
<1> QED  BY <1>1, <1>2, QuietPlaced DEF PC

\* An entry that is detached still is an entry.
LEMMA ExitDetachList == ASSUME IInv, ListInv, NEW t \in Tasks, ExitDetach(t) PROVE ListInv'
<1>1. /\ pc[t] \in {"user", "oops"} /\ pc' = [pc EXCEPT ![t] = "fini"]
      /\ tgid' = tgid /\ link' = link
      /\ \A u \in Tasks \ {t} : loc'[u] = loc[u] /\ entry'[u] = entry[u] /\ tproc'[u] = tproc[u]
      /\ job_list' = job_list /\ jproc' = jproc /\ id' = id /\ max_jid' = max_jid /\ allocated' = allocated
    BY DEF IInv, TypeOK, ExitDetach, Goto, taskVars, jobVars, search_thread_by_task
<1>2. Placed(t)'
    BY <1>1 DEF IInv, TypeOK, Consistent, ListInv, Placed, CountedIn, search_job_by_task, MaybeJob,
                ExitDetach, Goto, taskVars, jobVars, search_thread_by_task
<1> QED  BY <1>1, <1>2, QuietPlaced DEF PC

\* A task without an entry leaves its job.
LEMMA ExitNoThreadList == ASSUME IInv, ListInv, NEW t \in Tasks, ExitNoThread(t) PROVE ListInv'
<1>1. /\ pc[t] \in {"user", "oops"} /\ pc' = [pc EXCEPT ![t] = "exiting"]
      /\ tgid' = tgid /\ link' = link
      /\ \A u \in Tasks \ {t} : loc'[u] = loc[u] /\ entry'[u] = entry[u] /\ tproc'[u] = tproc[u]
      /\ job_list' = job_list /\ jproc' = jproc /\ id' = id /\ max_jid' = max_jid /\ allocated' = allocated
    BY DEF IInv, TypeOK, ExitNoThread, Goto, taskVars, jobVars, search_thread_by_task
<1>2. Placed(t)'
    BY <1>1 DEF IInv, TypeOK, Consistent, ListInv, Placed, CountedIn, search_job_by_task, MaybeJob,
                ExitNoThread, Goto, taskVars, jobVars, search_thread_by_task
<1> QED  BY <1>1, <1>2, QuietPlaced DEF PC

\* The file goes with the entry.
LEMMA FiniThreadList == ASSUME IInv, ListInv, NEW t \in Tasks, FiniThread(t) PROVE ListInv'
<1>1. /\ pc[t] = "fini" /\ pc' = [pc EXCEPT ![t] = "put"]
      /\ tgid' = tgid /\ link' = link
      /\ \A u \in Tasks \ {t} : loc'[u] = loc[u] /\ entry'[u] = entry[u] /\ tproc'[u] = tproc[u]
      /\ job_list' = job_list /\ jproc' = jproc /\ id' = id /\ max_jid' = max_jid /\ allocated' = allocated
    BY DEF IInv, TypeOK, FiniThread, Goto, taskVars, jobVars
<1>2. Placed(t)'
    BY <1>1 DEF IInv, TypeOK, Consistent, ListInv, Placed, CountedIn, search_job_by_task, MaybeJob,
                FiniThread, Goto, taskVars, jobVars
<1> QED  BY <1>1, <1>2, QuietPlaced DEF PC

\* Nothing is left but what was lost.
LEMMA ExitMmList == ASSUME IInv, ListInv, NEW t \in Tasks, ExitMm(t) PROVE ListInv'
<1>1. /\ pc[t] = "exiting" /\ pc' = [pc EXCEPT ![t] = "dead"]
      /\ tgid' = tgid /\ link' = link
      /\ \A u \in Tasks \ {t} : loc'[u] = loc[u] /\ entry'[u] = entry[u] /\ tproc'[u] = tproc[u]
      /\ job_list' = job_list /\ jproc' = jproc /\ id' = id /\ max_jid' = max_jid /\ allocated' = allocated
    BY DEF IInv, TypeOK, ExitMm, Goto, taskVars, jobVars
<1>2. Placed(t)'
    BY <1>1 DEF IInv, TypeOK, Consistent, ListInv, Placed, CountedIn, search_job_by_task, MaybeJob,
                ExitMm, Goto, taskVars, jobVars
<1> QED  BY <1>1, <1>2, QuietPlaced DEF PC

\* A failed do_fork leaves its task where it is.
LEMMA ForkFailsList == ASSUME IInv, ListInv, NEW t \in Tasks, ForkFails(t) PROVE ListInv'
<1> DEFINE l == IF loc[t] = NoJob THEN "user" ELSE "fork_put"
<1>1. /\ pc[t] = "do_fork" /\ pc' = [pc EXCEPT ![t] = l] /\ l \in PC /\ l # "unborn"
      /\ tgid' = tgid /\ link' = link /\ loc' = loc /\ entry' = entry /\ tproc' = tproc
      /\ job_list' = job_list /\ jproc' = jproc /\ id' = id /\ max_jid' = max_jid /\ allocated' = allocated
    BY DEF ForkFails, Goto, PC, taskVars, jobVars
<1>2. pc'[t] \in {"user", "fork_put"} /\ loc'[t] = loc[t] /\ entry'[t] = entry[t] /\ tproc'[t] = tproc[t]
    BY <1>1 DEF IInv, TypeOK
<1>3. CountedIn(t)' = CountedIn(t)
    BY <1>1, <1>2 DEF CountedIn, search_job_by_task
<1>4. Placed(t)'
    BY <1>1, <1>2, <1>3 DEF ListInv, Placed
<1> QED  BY <1>1, <1>4, QuietPlaced

\* A parent that undoes its fork deletes nothing.
LEMMA ForkPutList == ASSUME IInv, ListInv, NEW t \in Tasks, ForkPut(t) PROVE ListInv'
<1>0. alive_proc[loc[t]] >= 2
    BY ForkPutCount DEF IInv, ForkPut
<1>1. /\ pc[t] = "fork_put" /\ pc' = [pc EXCEPT ![t] = "user"]
      /\ tgid' = tgid /\ link' = link /\ loc' = [loc EXCEPT ![t] = NoJob]
      /\ entry' = entry /\ tproc' = tproc
      /\ job_list' = job_list /\ jproc' = jproc /\ id' = id /\ max_jid' = max_jid /\ allocated' = allocated
    BY <1>0 DEF ForkPut, put_thread, Goto, taskVars
<1>2. Placed(t)'
    BY <1>1 DEF IInv, TypeOK, ListInv, Placed, CountedIn, search_job_by_task
<1> QED  BY <1>1, <1>2, QuietPlaced DEF IInv, TypeOK, PC

\* A newborn's link becomes its entry.
LEMMA ScheduleTailList == ASSUME IInv, ListInv, NEW t \in Tasks, ScheduleTail(t) PROVE ListInv'
<1> DEFINE l == IF search_job_by_task(t) = NoJob THEN "user" ELSE "thread_procfs"
<1>1. /\ pc[t] = "newborn" /\ pc' = [pc EXCEPT ![t] = l] /\ l \in PC /\ l # "unborn"
      /\ tgid' = tgid /\ link' = link /\ loc' = loc /\ tproc' = tproc
      /\ entry' = IF l = "user" THEN entry ELSE [entry EXCEPT ![t] = search_job_by_task(t)]
      /\ job_list' = job_list /\ jproc' = jproc /\ id' = id /\ max_jid' = max_jid /\ allocated' = allocated
    BY DEF ScheduleTail, AttachToJob, Goto, PC, jobVars
<1>2. entry[t] = NoJob /\ ~tproc[t]
    BY <1>1 DEF IInv, Consistent, TypeOK, ListInv, Placed
<1>3. entry'[t] = search_job_by_task(t) /\ pc'[t] = l /\ ~tproc'[t]
    BY <1>1, <1>2 DEF IInv, TypeOK
<1>4. CountedIn(t) = search_job_by_task(t) /\ CountedIn(t)' = CountedIn(t)
    BY <1>1, <1>2, <1>3 DEF CountedIn, search_job_by_task
<1>5. Placed(t)'
    BY <1>1, <1>3, <1>4 DEF ListInv, Placed
<1> QED  BY <1>1, <1>5, QuietPlaced DEF IInv, TypeOK

\* Who drops the last count finds the job on the list.
LEMMA PutThreadList == ASSUME IInv, ListInv, NEW t \in Tasks, PutThread(t) PROVE ListInv'
<1> DEFINE l == IF alive_proc[loc[t]] = 1 THEN "del_job" ELSE "exiting"
<1>1. /\ pc[t] = "put" /\ pc' = [pc EXCEPT ![t] = l] /\ l \in PC /\ l # "unborn"
      /\ tgid' = tgid /\ link' = link /\ entry' = entry /\ tproc' = tproc
      /\ loc' = IF l = "del_job" THEN loc ELSE [loc EXCEPT ![t] = NoJob]
      /\ job_list' = job_list /\ jproc' = jproc /\ id' = id /\ max_jid' = max_jid /\ allocated' = allocated
    BY DEF PutThread, put_thread, Goto, PC, taskVars
<1>2. entry[t] = NoJob /\ loc[t] # NoJob /\ CountedIn(t) = loc[t]
    BY <1>1 DEF IInv, Consistent, CountedIn
<1>3. loc[t] \in job_list /\ ~tproc[t]
    BY <1>1, <1>2 DEF ListInv, Placed, IInv, TypeOK
<1>4. pc'[t] = l /\ CountedIn(t)' = NoJob /\ ~tproc'[t]
    BY <1>1, <1>2, <1>3 DEF IInv, TypeOK, CountedIn
<1>5. Placed(t)'
    BY <1>1, <1>3, <1>4 DEF Placed
<1> QED  BY <1>1, <1>5, QuietPlaced DEF IInv, TypeOK

\* A new address space without a link: the member keeps its job in tsi.
LEMMA KernelExecveList == ASSUME IInv, ListInv, NEW t \in Tasks, KernelExecve(t) PROVE ListInv'
<1>1. /\ pc[t] = "execve" /\ pc' = [pc EXCEPT ![t] = "init_tsi"]
      /\ tgid' = tgid /\ link' = [link EXCEPT ![tgid[t]] = NoJob]
      /\ loc' = loc /\ entry' = entry /\ tproc' = tproc /\ Siblings(t) = {}
      /\ job_list' = job_list /\ jproc' = jproc /\ id' = id /\ max_jid' = max_jid /\ allocated' = allocated
    BY DEF KernelExecve, Goto, jobVars
<1>2. \A u \in Tasks \ {t} : tgid[u] = tgid[t] => pc[u] \in {"unborn", "dead"}
    BY DEF KernelExecve, Siblings
<1>3. ASSUME NEW u \in Tasks PROVE Placed(u)'
  <2>1. CountedIn(u)' = CountedIn(u) /\ (pc'[u] = pc[u] \/ (pc[u] = "execve" /\ pc'[u] = "init_tsi"))
      BY <1>1, <1>2 DEF IInv, TypeOK, CountedIn, search_job_by_task
  <2> QED  BY <1>1, <2>1 DEF ListInv, Placed
<1>4. Lists'
    BY <1>1 DEF ListInv, Lists
<1> QED  BY <1>3, <1>4 DEF ListInv

\* The link comes back; what the task is counted in stays.
LEMMA InitTsiList == ASSUME IInv, ListInv, NEW t \in Tasks, InitTsi(t) PROVE ListInv'
<1>1. /\ pc[t] = "init_tsi" /\ pc' = [pc EXCEPT ![t] = "user"] /\ tgid' = tgid
      /\ link' = IF loc[t] = NoJob THEN link ELSE [link EXCEPT ![tgid[t]] = loc[t]]
      /\ loc' = [loc EXCEPT ![t] = NoJob] /\ entry' = entry /\ tproc' = tproc
      /\ job_list' = job_list /\ jproc' = jproc /\ id' = id /\ max_jid' = max_jid /\ allocated' = allocated
    BY DEF InitTsi, Goto, taskVars, jobVars
<1>2. ASSUME NEW u \in Tasks \ {t} PROVE Placed(u)'
  <2>1. pc'[u] = pc[u] /\ loc'[u] = loc[u] /\ entry'[u] = entry[u] /\ tproc'[u] = tproc[u]
      BY <1>1 DEF IInv, TypeOK
  <2>2. search_job_by_task(u)' = search_job_by_task(u) \/ pc[u] \in {"unborn", "dead"}
      BY <1>1 DEF IInv, TypeOK, Consistent, search_job_by_task, Siblings
  <2>3. CountedIn(u)' = CountedIn(u)
      BY <2>1, <2>2 DEF CountedIn
  <2> QED  BY <1>1, <2>1, <2>3, OtherPlaced DEF IInv
<1>3. Placed(t)'
  <2>1. pc'[t] = "user" /\ entry'[t] = entry[t] /\ tproc'[t] = tproc[t]
      BY <1>1 DEF IInv, TypeOK
  <2>2. CountedIn(t)' = CountedIn(t)
      BY <1>1, <2>1 DEF IInv, TypeOK, Consistent, CountedIn, search_job_by_task
  <2> QED  BY <1>1, <2>1, <2>2 DEF ListInv, Placed
<1>4. Lists'
    BY <1>1 DEF ListInv, Lists
<1> QED  BY <1>2, <1>3, <1>4 DEF ListInv

\* The child is counted where its parent is.
LEMMA ForkChildList ==
    ASSUME IInv, ListInv, NEW t \in Tasks, NEW c \in Tasks, NEW thread \in BOOLEAN, ForkChild(t, c, thread)
    PROVE  ListInv'
<1>1. /\ pc[t] = "do_fork" /\ pc[c] = "unborn" /\ t # c
      /\ pc' = [pc EXCEPT ![t] = "user", ![c] = "newborn"]
      /\ tgid' = [tgid EXCEPT ![c] = IF thread THEN tgid[t] ELSE c]
      /\ link' = IF thread THEN link ELSE [link EXCEPT ![c] = search_job_by_task(t)]
      /\ loc' = [loc EXCEPT ![t] = NoJob] /\ entry' = entry /\ tproc' = tproc
      /\ job_list' = job_list /\ jproc' = jproc /\ id' = id /\ max_jid' = max_jid /\ allocated' = allocated
    BY DEF ForkChild, jobVars
<1>2. \A u \in Tasks \ {c} : tgid'[u] = tgid[u] /\ tgid[u] # c
    BY <1>1 DEF IInv, TypeOK, Groups
<1>3. \A u \in Tasks \ {c} : search_job_by_task(u)' = search_job_by_task(u)
    BY <1>1, <1>2 DEF IInv, TypeOK, search_job_by_task
<1>4. search_job_by_task(c)' = search_job_by_task(t)
    BY <1>1 DEF IInv, TypeOK, search_job_by_task
<1>5. ASSUME NEW u \in Tasks \ {t, c} PROVE Placed(u)'
  <2>1. pc'[u] = pc[u] /\ loc'[u] = loc[u] /\ entry'[u] = entry[u] /\ tproc'[u] = tproc[u]
      BY <1>1 DEF IInv, TypeOK
  <2>2. CountedIn(u)' = CountedIn(u)
      BY <1>3, <2>1 DEF CountedIn
  <2> QED  BY <1>1, <2>1, <2>2, OtherPlaced DEF IInv
<1>6. Placed(t)'
  <2>1. pc'[t] = "user" /\ entry'[t] = entry[t] /\ tproc'[t] = tproc[t]
      BY <1>1 DEF IInv, TypeOK
  <2>2. CountedIn(t)' = CountedIn(t)
      BY <1>1, <1>3, <2>1 DEF CountedIn
  <2> QED  BY <1>1, <2>1, <2>2 DEF ListInv, Placed
<1>7. Placed(c)'
  <2>1. pc'[c] = "newborn" /\ entry'[c] = NoJob /\ ~tproc'[c]
      BY <1>1 DEF IInv, TypeOK, Consistent, ListInv, Placed
  <2>2. CountedIn(c)' = search_job_by_task(t)
      BY <1>4, <2>1 DEF CountedIn
  <2>3. search_job_by_task(t) # NoJob => CountedIn(t) = search_job_by_task(t)
      BY <1>1, LinkedCounts DEF IInv, Alive
  <2> QED  BY <1>1, <2>1, <2>2, <2>3 DEF ListInv, Placed
<1>8. Lists'
    BY <1>1 DEF ListInv, Lists
<1> QED  BY <1>5, <1>6, <1>7, <1>8 DEF ListInv

\* Nobody is counted in a job that is being deleted, and only one deletes it.
LEMMA DeletedJob ==
    ASSUME IInv, NEW t \in Tasks, pc[t] \in {"del_job", "free_job"}
    PROVE  /\ loc[t] \in Jobs /\ loc[t] \in allocated /\ alive_proc[loc[t]] = 0
           /\ \A u \in Tasks : CountedIn(u) # loc[t]
           /\ Members(loc[t]) = {} /\ Forkers(loc[t]) = {} /\ Deleters(loc[t]) = {t}
<1> DEFINE j == loc[t]
<1>1. j \in Jobs /\ t \in Deleters(j)
    BY DEF IInv, Consistent, TypeOK, MaybeJob, Deleters
<1>2. j \in allocated /\ alive_proc[j] = 0
    BY <1>1 DEF IInv, Counted
<1>3. Cardinality(Members(j)) = 0 /\ Cardinality(Forkers(j)) = 0
    BY <1>1, <1>2, HoldersFinite DEF IInv, Counted
<1>4. Members(j) = {} /\ Forkers(j) = {}
    BY <1>1, <1>3, HoldersFinite, FS_EmptySet
<1>5. Deleters(j) = {t}
    BY <1>1 DEF IInv, Counted
<1> QED  BY <1>1, <1>2, <1>4, <1>5 DEF Members

\* A task that only moves on, with its link, its entry and its hook's job.
LEMMA OthersStay ==
    ASSUME IInv, NEW t \in Tasks, NEW l \in PC, pc' = [pc EXCEPT ![t] = l], tgid' = tgid, link' = link,
           entry' = entry, \A u \in Tasks \ {t} : loc'[u] = loc[u]
    PROVE  \A u \in Tasks \ {t} : pc'[u] = pc[u] /\ entry'[u] = entry[u] /\ CountedIn(u)' = CountedIn(u)
BY DEF IInv, TypeOK, CountedIn, search_job_by_task

\* The job goes onto the list with an id of its own.
LEMMA PublishJobList == ASSUME IInv, ListInv, NEW t \in Tasks, PublishJob(t) PROVE ListInv'
<1>0. PICK j \in Jobs : j = loc[t] /\ j = entry[t]
    BY DEF IInv, TypeOK, MaybeJob, Consistent, PublishJob
<1>1. /\ pc[t] = "init_job" /\ pc' = [pc EXCEPT ![t] = "job_procfs"]
      /\ tgid' = tgid /\ link' = link /\ loc' = loc /\ entry' = entry /\ tproc' = tproc
      /\ id' = [id EXCEPT ![j] = max_jid] /\ max_jid' = max_jid + 1
      /\ job_list' = job_list \cup {j} /\ jproc' = jproc /\ allocated' = allocated
    BY <1>0 DEF PublishJob, Goto, taskVars
<1>2. CountedIn(t) = j /\ CountedIn(t)' = j /\ j \in allocated
    BY <1>0, <1>1, HeldJob DEF CountedIn, IInv
<1>3. \A u \in Tasks : pc[u] \in {"del_job", "free_job"} => loc[u] # j
    BY <1>2, DeletedJob
<1>4. ASSUME NEW u \in Tasks \ {t} PROVE Placed(u)'
    BY <1>1, <1>3, OthersStay, OtherPlaced DEF IInv, PC
<1>5. Placed(t)'
    BY <1>1, <1>2 DEF IInv, TypeOK, ListInv, Placed
<1>6. Lists'
  <2>1. max_jid \in Nat /\ \A k \in Jobs : id[k] \in Nat /\ id'[k] = IF k = j THEN max_jid ELSE id[k]
      BY <1>1 DEF IInv, TypeOK
  <2>2. job_list \subseteq Jobs
      BY DEF IInv, TypeOK
  <2>3. \A k \in job_list : id[k] < max_jid
      BY DEF ListInv, Lists
  <2>4. \A k \in job_list' : id'[k] < max_jid'
      BY <1>1, <2>1, <2>2, <2>3
  <2>5. \A k, m \in job_list' : id'[k] = id'[m] => k = m
      BY <1>1, <2>1, <2>2, <2>3 DEF ListInv, Lists
  <2> QED  BY <1>1, <1>2, <2>4, <2>5 DEF ListInv, Lists
<1> QED  BY <1>4, <1>5, <1>6 DEF ListInv

\* The root makes its job's directory before its own file.
LEMMA JobProcfsList == ASSUME IInv, ListInv, NEW t \in Tasks, JobProcfs(t) PROVE ListInv'
<1>0. PICK j \in Jobs : j = loc[t] /\ j = entry[t]
    BY DEF IInv, TypeOK, MaybeJob, Consistent, JobProcfs
<1>1. /\ pc[t] = "job_procfs" /\ pc' = [pc EXCEPT ![t] = "execve"]
      /\ tgid' = tgid /\ link' = link /\ loc' = loc /\ entry' = entry
      /\ tproc' = [tproc EXCEPT ![t] = TRUE] /\ jproc' = jproc \cup {j}
      /\ job_list' = job_list /\ id' = id /\ max_jid' = max_jid /\ allocated' = allocated
    BY <1>0 DEF JobProcfs, Goto, taskVars
<1>2. CountedIn(t) = j /\ CountedIn(t)' = j
    BY <1>0, <1>1 DEF CountedIn
<1>3. ASSUME NEW u \in Tasks \ {t} PROVE Placed(u)'
  <2>1. tproc'[u] = tproc[u]
      BY <1>1 DEF IInv, TypeOK
  <2> QED  BY <1>1, <2>1, OthersStay, OtherPlaced DEF IInv, PC
<1>4. Placed(t)'
    BY <1>0, <1>1, <1>2 DEF IInv, TypeOK, ListInv, Placed
<1>5. Lists'
    BY <1>1 DEF ListInv, Lists
<1> QED  BY <1>3, <1>4, <1>5 DEF ListInv

\* The deleter takes off the list what nobody is counted in.
LEMMA UnlistJobList == ASSUME IInv, ListInv, NEW t \in Tasks, UnlistJob(t) PROVE ListInv'
<1>1. /\ pc[t] = "del_job" /\ pc' = [pc EXCEPT ![t] = "free_job"]
      /\ tgid' = tgid /\ link' = link /\ loc' = loc /\ entry' = entry /\ tproc' = tproc
      /\ job_list' = job_list \ {loc[t]} /\ jproc' = jproc
      /\ id' = id /\ max_jid' = max_jid /\ allocated' = allocated
    BY DEF UnlistJob, Goto, taskVars
<1>2. /\ \A u \in Tasks : CountedIn(u) # loc[t]
      /\ \A u \in Tasks \ {t} : pc[u] \in {"del_job", "free_job"} => loc[u] # loc[t]
    BY <1>1, DeletedJob DEF Deleters
<1>3. ASSUME NEW u \in Tasks \ {t} PROVE Placed(u)'
    BY <1>1, <1>2, OthersStay, OtherPlaced DEF IInv, PC
<1>4. Placed(t)'
  <2>1. pc'[t] = "free_job" /\ entry[t] = NoJob /\ ~tproc[t]
      BY <1>1 DEF IInv, TypeOK, Consistent, ListInv, Placed
  <2> QED  BY <1>1, <2>1 DEF Placed, CountedIn
<1>5. Lists'
    BY <1>1 DEF ListInv, Lists
<1> QED  BY <1>3, <1>4, <1>5 DEF ListInv

\* What is freed is not listed, and no file is left in its directory.
LEMMA FreeJobList == ASSUME IInv, ListInv, NEW t \in Tasks, FreeJob(t) PROVE ListInv'
<1>1. /\ pc[t] = "free_job" /\ pc' = [pc EXCEPT ![t] = "oops"]
      /\ tgid' = tgid /\ link' = link /\ loc' = [loc EXCEPT ![t] = NoJob]
      /\ entry' = entry /\ tproc' = tproc
      /\ job_list' = job_list /\ jproc' = jproc \ {loc[t]}
      /\ id' = id /\ max_jid' = max_jid /\ allocated' = allocated \ {loc[t]}
    BY DEF FreeJob, Goto, taskVars
<1>2. \A u \in Tasks : CountedIn(u) # loc[t]
    BY <1>1, DeletedJob
<1>3. ASSUME NEW u \in Tasks \ {t} PROVE Placed(u)'
  <2>1. loc'[u] = loc[u]
      BY <1>1 DEF IInv, TypeOK
  <2>2. pc'[u] = pc[u] /\ entry'[u] = entry[u] /\ CountedIn(u)' = CountedIn(u)
    <3>1. \A v \in Tasks \ {t} : loc'[v] = loc[v]
        BY <1>1 DEF IInv, TypeOK
    <3> QED  BY <1>1, <3>1, OthersStay DEF PC
  <2>3. CountedIn(u) \in jproc => CountedIn(u) \in jproc'
      BY <1>1, <1>2
  <2> QED  BY <1>1, <2>1, <2>2, <2>3, OtherPlaced DEF IInv
<1>4. Placed(t)'
  <2>1. pc'[t] = "oops" /\ entry[t] = NoJob /\ ~tproc[t]
      BY <1>1 DEF IInv, TypeOK, Consistent, ListInv, Placed
  <2> QED  BY <1>1, <2>1 DEF Placed, CountedIn
<1>5. loc[t] \notin job_list
    BY <1>1 DEF ListInv, Placed
<1>6. Lists'
    BY <1>1, <1>5 DEF ListInv, Lists
<1> QED  BY <1>3, <1>4, <1>6 DEF ListInv

-----------------------------------------------------------------------------
\* At the start nothing is listed.
LEMMA InitListInv == Init => ListInv
BY InitTasksAssumption DEF Init, ListInv, Lists, Placed, CountedIn, search_job_by_task

LEMMA NextListInv == ASSUME IInv, ListInv, [Next]_vars PROVE ListInv'
<1>1. ASSUME NEW t \in Tasks, Execve(t) PROVE ListInv'
    BY <1>1, ExistingJobList, NonJobList, NewJobList, PublishJobList, JobProcfsList,
       KernelExecveList, KernelExecveFailsList, InitTsiList DEF Execve
<1>2. ASSUME NEW t \in Tasks, Fork(t) PROVE ListInv'
    BY <1>2, ForkEnterList, ForkChildList, ForkPutList, ScheduleTailList,
       ScheduleTailNoMemoryList, ThreadProcfsList, ForkFailsList DEF Fork
<1>3. ASSUME NEW t \in Tasks, Exit(t) PROVE ListInv'
    BY <1>3, ExitDetachList, ExitNoThreadList, FiniThreadList, PutThreadList, UnlistJobList,
       FreeJobList, ExitMmList DEF Exit
<1>4. CASE UNCHANGED vars
    BY <1>4 DEF vars, taskVars, jobVars, ListInv, Lists, Placed, CountedIn, search_job_by_task
<1> QED  BY <1>1, <1>2, <1>3, <1>4 DEF Next

\* Both invariants hold in every reachable state.
LEMMA ListInvariance == ASSUME ThreadedRoots = FALSE PROVE Spec => []ListInv
<1>1. IInv /\ ListInv /\ [Next]_vars => ListInv'
    BY NextListInv
<1> QED  BY Invariance, InitListInv, <1>1, PTL DEF Spec

(* What the administrator's commands find on the zone's list is allocated, *)
(* and two listed jobs never have the same id, although job memory is      *)
(* reused (__ya_init_job, ya_del_job, search_job_by_id).                   *)
THEOREM ListIsWellFormed == ASSUME ThreadedRoots = FALSE PROVE Spec => []JobListWellFormed
<1>1. ListInv => JobListWellFormed
    BY DEF ListInv, Lists, JobListWellFormed
<1> QED  BY ListInvariance, <1>1, PTL

(* A thread's /proc file is in the directory of its job, which ya_del_job  *)
(* removes after the last of them.                                         *)
THEOREM FilesHaveDirectories == ASSUME ThreadedRoots = FALSE PROVE Spec => []ProcfsTree
<1>1. ListInv => ProcfsTree
    BY DEF ListInv, Placed, ProcfsTree
<1> QED  BY ListInvariance, <1>1, PTL

(* One task deletes a job, which nobody holds by then, and takes it off    *)
(* the list before it frees the memory.                                    *)
THEOREM DeletedOnce == ASSUME ThreadedRoots = FALSE PROVE Spec => []SingleDeleter
<1>1. IInv /\ ListInv => SingleDeleter
  <2> SUFFICES ASSUME IInv, ListInv, NEW t \in Tasks, pc[t] \in {"del_job", "free_job"}
               PROVE  /\ Deleters(loc[t]) = {t}
                      /\ Members(loc[t]) = {} /\ Forkers(loc[t]) = {}
                      /\ loc[t] \in allocated
                      /\ loc[t] \in job_list <=> pc[t] = "del_job"
      BY DEF SingleDeleter
  <2> QED  BY DeletedJob DEF ListInv, Placed
<1> QED  BY Invariance, ListInvariance, <1>1, PTL

\* Who counts up is counted in a job that has a count, and who counts down too.
LEMMA ZeroStays ==
    ASSUME IInv, [Next]_vars, NEW j \in allocated, alive_proc[j] = 0
    PROVE  alive_proc'[j] = 0
<1>0. j \in Jobs
    BY DEF IInv, TypeOK
<1>1. CASE UNCHANGED vars
    BY <1>1 DEF vars, jobVars
<1>2. ASSUME NEW t \in Tasks, NEW k \in Jobs, NewJob(t, k) PROVE alive_proc'[j] = 0
    BY <1>0, <1>2 DEF NewJob, IInv, TypeOK
<1>3. ASSUME NEW t \in Tasks, ForkEnter(t) PROVE alive_proc'[j] = 0
  <2>1. search_job_by_task(t) # NoJob => CountedIn(t) = search_job_by_task(t)
      BY <1>3, LinkedCounts DEF IInv, ForkEnter, Alive
  <2>2. search_job_by_task(t) \in MaybeJob
      BY DEF IInv, TypeOK, search_job_by_task
  <2>3. search_job_by_task(t) # j
      BY <1>0, <2>1, <2>2, HeldJob DEF IInv
  <2> QED  BY <1>0, <1>3, <2>3 DEF ForkEnter, IInv, TypeOK
<1>4. ASSUME NEW t \in Tasks, ForkPut(t) PROVE alive_proc'[j] = 0
  <2>1. loc[t] # j
      BY <1>4, ForkPutCount DEF IInv, ForkPut
  <2> QED  BY <1>0, <1>4, <2>1 DEF ForkPut, put_thread, IInv, TypeOK
<1>5. ASSUME NEW t \in Tasks, PutThread(t) PROVE alive_proc'[j] = 0
  <2>1. CountedIn(t) = loc[t]
      BY <1>5 DEF IInv, Consistent, CountedIn, PutThread
  <2>2. loc[t] # j
      BY <1>0, <2>1, HeldJob DEF IInv
  <2> QED  BY <1>0, <1>5, <2>2 DEF PutThread, put_thread, IInv, TypeOK
<1>6. ASSUME NEW t \in Tasks, Execve(t) PROVE alive_proc'[j] = 0
    BY <1>2, <1>6 DEF Execve, ExistingJob, NonJob, PublishJob, JobProcfs, KernelExecve,
                      KernelExecveFails, InitTsi, jobVars
<1>7. ASSUME NEW t \in Tasks, Fork(t) PROVE alive_proc'[j] = 0
    BY <1>3, <1>4, <1>7 DEF Fork, ForkChild, ForkFails, ScheduleTail, ScheduleTailNoMemory,
                            ThreadProcfs, jobVars
<1>8. ASSUME NEW t \in Tasks, Exit(t) PROVE alive_proc'[j] = 0
    BY <1>5, <1>8 DEF Exit, ExitDetach, ExitNoThread, FiniThread, UnlistJob, FreeJob, ExitMm, jobVars
<1> QED  BY <1>1, <1>6, <1>7, <1>8 DEF Next

(* No get_thread, and no put_thread, touches the count of a job that has   *)
(* reached zero: the job is deleted and never comes back to life.          *)
THEOREM ZeroIsFinal == ASSUME ThreadedRoots = FALSE PROVE Spec => NoResurrection
<1>1. IInv /\ [Next]_vars => [\A j \in allocated : alive_proc[j] = 0 => alive_proc'[j] = 0]_vars
    BY ZeroStays
<1> QED  BY Invariance, <1>1, PTL DEF Spec, NoResurrection

-----------------------------------------------------------------------------
(* What a task leaves behind.                                              *)

\* An entry that the exit hook did not find is not where it looked for it.
Misfiled(t) ==
    pc[t] \in {"exiting", "dead"} /\ entry[t] # NoJob => slot[t] # Slot(pid[t])

\* A task that a step leaves alone stays as it is filed.
LEMMA OtherMisfiled ==
    ASSUME NEW u \in Tasks, Misfiled(u),
           pc'[u] = pc[u], entry'[u] = entry[u], slot'[u] = slot[u], pid'[u] = pid[u]
    PROVE  Misfiled(u)'
BY DEF Misfiled, Slot

\* Only the exit hook brings a task to "exiting", and it had looked.
LEMMA MisfiledStep ==
    ASSUME IInv, \A t \in Tasks : Misfiled(t), NEW t \in Tasks, Execve(t) \/ Fork(t) \/ Exit(t)
    PROVE  \A u \in Tasks : Misfiled(u)'
<1> USE DEF IInv, TypeOK, Goto, taskVars, jobVars
<1>1. ASSUME NEW u \in Tasks \ {t}, pc[u] # "unborn" PROVE Misfiled(u)'
  <2>1. /\ pc'[u] = pc[u] /\ entry'[u] = entry[u] /\ slot'[u] = slot[u] /\ pid'[u] = pid[u]
    <3>1. CASE Execve(t)
        BY <1>1, <3>1 DEF Execve, ExistingJob, NonJob, NewJob, AttachToJob, PublishJob, JobProcfs,
                          KernelExecve, KernelExecveFails, InitTsi
    <3>2. CASE Fork(t)
        BY <1>1, <3>2 DEF Fork, ForkEnter, ForkChild, ForkFails, ForkPut, put_thread, ScheduleTail,
                          ScheduleTailNoMemory, AttachToJob, ThreadProcfs
    <3>3. CASE Exit(t)
        BY <1>1, <3>3 DEF Exit, ExitDetach, ExitNoThread, FiniThread, PutThread, put_thread,
                          UnlistJob, FreeJob, ExitMm
    <3> QED  BY <3>1, <3>2, <3>3
  <2> QED  BY <2>1, OtherMisfiled
<1>2. ASSUME NEW u \in Tasks \ {t}, pc[u] = "unborn" PROVE Misfiled(u)'
  <2>1. pc'[u] \in {"unborn", "newborn"}
    <3>1. CASE Execve(t)
        BY <1>2, <3>1 DEF Execve, ExistingJob, NonJob, NewJob, AttachToJob, PublishJob, JobProcfs,
                          KernelExecve, KernelExecveFails, InitTsi
    <3>2. CASE Fork(t)
        BY <1>2, <3>2 DEF Fork, ForkEnter, ForkChild, ForkFails, ForkPut, put_thread, ScheduleTail,
                          ScheduleTailNoMemory, AttachToJob, ThreadProcfs
    <3>3. CASE Exit(t)
        BY <1>2, <3>3 DEF Exit, ExitDetach, ExitNoThread, FiniThread, PutThread, put_thread,
                          UnlistJob, FreeJob, ExitMm
    <3> QED  BY <3>1, <3>2, <3>3
  <2> QED  BY <2>1 DEF Misfiled
<1>3. Misfiled(t)'
  <2>1. CASE Execve(t) \/ Fork(t)
    <3>1. pc'[t] \notin {"exiting", "dead"}
        BY <2>1 DEF Execve, ExistingJob, NonJob, NewJob, PublishJob, JobProcfs, KernelExecve,
                    KernelExecveFails, InitTsi, Fork, ForkEnter, ForkChild, ForkFails, ForkPut,
                    put_thread, ScheduleTail, ScheduleTailNoMemory, ThreadProcfs
    <3> QED  BY <3>1 DEF Misfiled
  <2>2. CASE ExitNoThread(t)
    <3>1. entry[t] # NoJob => entry[t] = search_job_by_task(t)
        BY <2>2 DEF ExitNoThread, Consistent
    <3> QED  BY <2>2, <3>1 DEF ExitNoThread, search_thread_by_task, Misfiled, Slot
  <2>3. CASE PutThread(t)
    <3>1. entry'[t] = NoJob
        BY <2>3 DEF PutThread, Consistent
    <3> QED  BY <3>1 DEF Misfiled
  <2>4. CASE ExitMm(t)
      BY <2>4 DEF ExitMm, Misfiled, Slot
  <2>5. CASE ExitDetach(t) \/ FiniThread(t) \/ UnlistJob(t) \/ FreeJob(t)
    <3>1. pc'[t] \notin {"exiting", "dead"}
        BY <2>5 DEF ExitDetach, FiniThread, UnlistJob, FreeJob
    <3> QED  BY <3>1 DEF Misfiled
  <2> QED  BY <2>1, <2>2, <2>3, <2>4, <2>5 DEF Exit
<1> QED  BY <1>1, <1>2, <1>3

(* enter_exit_hook (hook/exit.c) removes the /proc file of every task but  *)
(* those whose pid execve has changed to one of another slot.              *)
THEOREM FilesLeftByRename == ASSUME ThreadedRoots = FALSE PROVE Spec => []FileLeftOnlyByRename
<1> DEFINE Inv == \A t \in Tasks : Misfiled(t)
<1>1. Init => Inv
    BY DEF Init, Misfiled
<1>2. IInv /\ Inv /\ [Next]_vars => Inv'
  <2>1. ASSUME IInv, Inv, UNCHANGED vars PROVE Inv'
      BY <2>1 DEF vars, Misfiled, Slot
  <2> QED  BY <2>1, MisfiledStep DEF Next
<1>3. IInv /\ ListInv /\ Inv => FileLeftOnlyByRename
    BY DEF IInv, TypeOK, ListInv, Placed, Misfiled, FileLeftOnlyByRename
<1> QED  BY Invariance, ListInvariance, <1>1, <1>2, <1>3, PTL DEF Spec

-----------------------------------------------------------------------------
(* Exactness.  As long as newborns get their entries (AllocMayFail = FALSE)*)
(* and only leaders of thread groups execute new programs (ThreadExec =    *)
(* FALSE), the exit hook finds every entry there is, and a job's count is  *)
(* exactly the number of its members.  With either switch on it can be too *)
(* large (README.md, section 3).                                           *)

\* A linked task outside a hook has an entry, and an entry is in the slot where
\* the exit hook looks for it.
Findable(t) ==
    /\ pc[t] \in {"user", "do_fork", "fork_put"} /\ search_job_by_task(t) # NoJob
          => entry[t] # NoJob
    /\ pc[t] \in {"execve", "init_tsi"} /\ loc[t] # NoJob => entry[t] # NoJob
    /\ pc[t] \in {"exiting", "dead"} => entry[t] = NoJob
    /\ entry[t] # NoJob => slot[t] = Slot(pid[t])
    /\ pc[t] \in {"init_job", "job_procfs", "execve"} => pid[t] = tgid[t]

ExactInv == CountExact /\ \A t \in Tasks : Findable(t)

USE NoJobAssumption

-----------------------------------------------------------------------------
(* Facts about steps.                                                      *)

\* A task that a step leaves alone; the link of one that is not born or is
\* gone does not matter.
LEMMA OtherFindable ==
    ASSUME NEW u \in Tasks, Findable(u),
           pc'[u] = pc[u], loc'[u] = loc[u], entry'[u] = entry[u], slot'[u] = slot[u],
           pid'[u] = pid[u], pc[u] # "unborn" => tgid'[u] = tgid[u],
           pc[u] \notin {"unborn", "dead"} => search_job_by_task(u)' = search_job_by_task(u)
    PROVE  Findable(u)'
BY DEF Findable

\* A job whose count and holders a step leaves alone.
LEMMA SameAccount ==
    ASSUME CountExact, NEW j \in Jobs, alive_proc'[j] = alive_proc[j],
           Members(j)' = Members(j), Forkers(j)' = Forkers(j)
    PROVE  alive_proc'[j] = Cardinality(Members(j)') + Cardinality(Forkers(j)')
BY DEF CountExact

\* A step after which everybody holds the job that it held before.
LEMMA SameAccounts ==
    ASSUME CountExact, alive_proc' = alive_proc,
           \A u \in Tasks : CountedIn(u)' = CountedIn(u),
           \A j \in Jobs : Forkers(j)' = Forkers(j)
    PROVE  CountExact'
<1> SUFFICES ASSUME NEW j \in Jobs
             PROVE  alive_proc'[j] = Cardinality(Members(j)') + Cardinality(Forkers(j)')
    BY DEF CountExact
<1>1. Members(j)' = Members(j)
    BY DEF Members
<1> QED  BY <1>1, SameAccount

\* A step of one task that keeps its holds and touches no address space.
LEMMA QuietExact ==
    ASSUME IInv, ExactInv, NEW t \in Tasks, pc[t] \notin {"unborn", "dead"},
           NEW l \in PC, l # "unborn", pc' = [pc EXCEPT ![t] = l],
           tgid' = tgid, pid' = pid, link' = link, alive_proc' = alive_proc,
           \A u \in Tasks \ {t} : loc'[u] = loc[u] /\ entry'[u] = entry[u] /\ slot'[u] = slot[u],
           CountedIn(t)' = CountedIn(t), Findable(t)',
           \A j \in Jobs : t \in Forkers(j)' <=> t \in Forkers(j)
    PROVE  ExactInv'
<1>1. \A u \in Tasks \ {t} : CountedIn(u)' = CountedIn(u)
    BY LocalStep DEF IInv
<1>2. \A u \in Tasks \ {t} : pc'[u] = pc[u]
    BY DEF IInv, TypeOK
<1>3. \A j \in Jobs : Forkers(j)' = Forkers(j)
    BY <1>2 DEF Forkers
<1>4. CountExact'
    BY <1>1, <1>3, SameAccounts DEF ExactInv
<1>5. ASSUME NEW u \in Tasks \ {t} PROVE Findable(u)'
    BY <1>2, OtherFindable DEF ExactInv, search_job_by_task
<1> QED  BY <1>4, <1>5 DEF ExactInv

-----------------------------------------------------------------------------
(* The steps that count nobody.                                            *)

\* The steps of t that change neither its hold nor an address space.
Quiet(t) ==
    \/ ExistingJob(t) \/ NonJob(t) \/ PublishJob(t) \/ JobProcfs(t) \/ KernelExecveFails(t)
    \/ ForkFails(t) \/ ScheduleTail(t) \/ ThreadProcfs(t)
    \/ ExitDetach(t) \/ ExitNoThread(t) \/ FiniThread(t) \/ UnlistJob(t) \/ FreeJob(t)
    \/ ExitMm(t)

\* What a quiet step leaves alone.
LEMMA QuietFrame ==
    ASSUME IInv, NEW t \in Tasks, Quiet(t)
    PROVE  /\ pc[t] \notin {"unborn", "dead"} /\ pc' = [pc EXCEPT ![t] = pc'[t]]
           /\ pc'[t] \in PC \ {"unborn"}
           /\ tgid' = tgid /\ pid' = pid /\ link' = link /\ alive_proc' = alive_proc
           /\ \A u \in Tasks \ {t} : loc'[u] = loc[u] /\ entry'[u] = entry[u] /\ slot'[u] = slot[u]
<1> USE DEF IInv, TypeOK, Goto, PC, taskVars, jobVars
<1>1. CASE ExistingJob(t) \/ NonJob(t) \/ PublishJob(t) \/ JobProcfs(t) \/ KernelExecveFails(t)
    BY <1>1 DEF ExistingJob, NonJob, MayExecve, PublishJob, JobProcfs, KernelExecveFails
<1>2. CASE ForkFails(t) \/ ScheduleTail(t) \/ ThreadProcfs(t)
    BY <1>2 DEF ForkFails, ScheduleTail, AttachToJob, ThreadProcfs
<1>3. CASE \/ ExitDetach(t) \/ ExitNoThread(t) \/ FiniThread(t) \/ UnlistJob(t) \/ FreeJob(t)
           \/ ExitMm(t)
    BY <1>3 DEF ExitDetach, ExitNoThread, FiniThread, UnlistJob, FreeJob, ExitMm
<1> QED  BY <1>1, <1>2, <1>3 DEF Quiet

\* The newborn moves from its link to its entry, the dying task from its entry to
\* "loc"; a task that leaves without an entry held no job.
LEMMA QuietHold ==
    ASSUME ThreadExec = FALSE, IInv, ExactInv, NEW t \in Tasks, Quiet(t)
    PROVE  /\ CountedIn(t)' = CountedIn(t) /\ Findable(t)'
           /\ \A j \in Jobs : t \in Forkers(j)' <=> t \in Forkers(j)
<1> USE DEF IInv, TypeOK, Consistent, ExactInv, Findable, CountedIn, Forkers, search_job_by_task,
            Goto, taskVars, jobVars
<1>1. CASE ExistingJob(t) \/ NonJob(t)
    BY <1>1 DEF ExistingJob, NonJob, MayExecve
<1>2. CASE PublishJob(t) \/ JobProcfs(t) \/ KernelExecveFails(t)
    BY <1>2 DEF PublishJob, JobProcfs, KernelExecveFails
<1>3. CASE ForkFails(t) \/ ThreadProcfs(t)
    BY <1>3 DEF ForkFails, ThreadProcfs
<1>4. CASE ScheduleTail(t)
    BY <1>4 DEF ScheduleTail, AttachToJob
<1>5. CASE ExitDetach(t) \/ ExitNoThread(t)
    BY <1>5 DEF ExitDetach, ExitNoThread, search_thread_by_task
<1>6. CASE FiniThread(t) \/ UnlistJob(t) \/ FreeJob(t) \/ ExitMm(t)
    BY <1>6 DEF FiniThread, UnlistJob, FreeJob, ExitMm
<1> QED  BY <1>1, <1>2, <1>3, <1>4, <1>5, <1>6 DEF Quiet

\* Quiet steps keep the accounts.
LEMMA QuietSteps ==
    ASSUME ThreadExec = FALSE, IInv, ExactInv, NEW t \in Tasks, Quiet(t)
    PROVE  ExactInv'
BY QuietFrame, QuietHold, QuietExact

\* A successful do_execve keeps the pid, as the task leads its group, and replaces
\* an address space nobody else lives in.
LEMMA KernelExecveExact ==
    ASSUME IInv, ExactInv, NEW t \in Tasks, KernelExecve(t)
    PROVE  ExactInv'
<1>1. /\ pc[t] = "execve" /\ pc' = [pc EXCEPT ![t] = "init_tsi"]
      /\ tgid' = tgid /\ slot' = slot /\ loc' = loc /\ entry' = entry
      /\ link' = [link EXCEPT ![tgid[t]] = NoJob] /\ alive_proc' = alive_proc
      /\ pid' = [pid EXCEPT ![t] = tgid[t]] /\ Siblings(t) = {}
    BY DEF KernelExecve, Goto, jobVars
<1>2. pid' = pid /\ Findable(t)'
    BY <1>1 DEF IInv, TypeOK, Consistent, ExactInv, Findable, search_job_by_task
<1>3. CountedIn(t)' = CountedIn(t)
    BY <1>1 DEF IInv, TypeOK, Consistent, CountedIn
<1>4. ASSUME NEW u \in Tasks \ {t} PROVE Findable(u)' /\ CountedIn(u)' = CountedIn(u)
  <2>1. /\ pc'[u] = pc[u]
        /\ pc[u] \notin {"unborn", "dead"} => search_job_by_task(u)' = search_job_by_task(u)
      BY <1>1 DEF IInv, TypeOK, search_job_by_task, Siblings
  <2> QED  BY <1>1, <1>2, <2>1, OtherFindable DEF ExactInv, CountedIn
<1>5. \A j \in Jobs : Forkers(j)' = Forkers(j)
    BY <1>1 DEF IInv, TypeOK, Forkers
<1>6. CountExact'
    BY <1>1, <1>3, <1>4, <1>5, SameAccounts DEF ExactInv
<1> QED  BY <1>2, <1>4, <1>6 DEF ExactInv

\* init_job(&tsi) links the job of the root's entry.
LEMMA InitTsiExact ==
    ASSUME IInv, ExactInv, NEW t \in Tasks, InitTsi(t)
    PROVE  ExactInv'
<1>1. /\ pc[t] = "init_tsi" /\ pc' = [pc EXCEPT ![t] = "user"]
      /\ tgid' = tgid /\ pid' = pid /\ slot' = slot /\ entry' = entry
      /\ loc' = [loc EXCEPT ![t] = NoJob] /\ alive_proc' = alive_proc
      /\ link' = IF loc[t] = NoJob THEN link ELSE [link EXCEPT ![tgid[t]] = loc[t]]
    BY DEF InitTsi, Goto, taskVars, jobVars
<1>2. Findable(t)' /\ CountedIn(t)' = CountedIn(t)
    BY <1>1 DEF IInv, TypeOK, Consistent, ExactInv, Findable, CountedIn, search_job_by_task
<1>3. ASSUME NEW u \in Tasks \ {t} PROVE Findable(u)' /\ CountedIn(u)' = CountedIn(u)
  <2>1. /\ pc'[u] = pc[u] /\ loc'[u] = loc[u]
        /\ pc[u] \notin {"unborn", "dead"} => search_job_by_task(u)' = search_job_by_task(u)
      BY <1>1 DEF IInv, TypeOK, Consistent, search_job_by_task, Siblings
  <2> QED  BY <1>1, <2>1, OtherFindable DEF ExactInv, CountedIn
<1>4. \A j \in Jobs : Forkers(j)' = Forkers(j)
    BY <1>1 DEF IInv, TypeOK, Forkers
<1>5. CountExact'
    BY <1>1, <1>2, <1>3, <1>4, SameAccounts DEF ExactInv
<1> QED  BY <1>2, <1>3, <1>5 DEF ExactInv

-----------------------------------------------------------------------------
(* The steps that count.                                                   *)

\* A step of one task that keeps the link of everyone, for what it counts.
LEMMA CountingFrame ==
    ASSUME IInv, ExactInv, NEW t \in Tasks, pc[t] \notin {"unborn", "dead"},
           NEW l \in PC, l # "unborn", pc' = [pc EXCEPT ![t] = l],
           tgid' = tgid, pid' = pid, link' = link,
           \A u \in Tasks \ {t} : loc'[u] = loc[u] /\ entry'[u] = entry[u] /\ slot'[u] = slot[u]
    PROVE  /\ \A u \in Tasks \ {t} : Findable(u)' /\ CountedIn(u)' = CountedIn(u)
           /\ \A j \in Jobs : Forkers(j)' \ {t} = Forkers(j) \ {t}
<1>1. \A u \in Tasks \ {t} : pc'[u] = pc[u]
    BY DEF IInv, TypeOK
<1>2. \A u \in Tasks \ {t} : CountedIn(u)' = CountedIn(u)
    BY LocalStep DEF IInv
<1>3. \A u \in Tasks \ {t} : Findable(u)'
    BY <1>1, OtherFindable DEF ExactInv, search_job_by_task
<1>4. \A j \in Jobs : Forkers(j)' \ {t} = Forkers(j) \ {t}
    BY <1>1 DEF Forkers
<1> QED  BY <1>2, <1>3, <1>4

\* The new job counts its root.
LEMMA NewJobExact ==
    ASSUME ThreadExec = FALSE, IInv, ExactInv, NEW t \in Tasks, NEW j \in Jobs, NewJob(t, j)
    PROVE  ExactInv'
<1>1. /\ pc[t] = "user" /\ pc' = [pc EXCEPT ![t] = "init_job"] /\ pid[t] = tgid[t]
      /\ tgid' = tgid /\ pid' = pid /\ link' = link
      /\ loc' = [loc EXCEPT ![t] = j] /\ entry' = [entry EXCEPT ![t] = j]
      /\ slot' = [slot EXCEPT ![t] = Slot(pid[t])]
      /\ search_job_by_task(t) = NoJob /\ j \notin allocated
      /\ alive_proc' = [alive_proc EXCEPT ![j] = 1]
    BY DEF NewJob, MayExecve, AttachToJob, Goto
<1>2. /\ \A u \in Tasks \ {t} : Findable(u)' /\ CountedIn(u)' = CountedIn(u)
      /\ \A k \in Jobs : Forkers(k)' \ {t} = Forkers(k) \ {t}
    BY <1>1, CountingFrame DEF IInv, TypeOK, PC
<1>3. CountedIn(t) = NoJob /\ CountedIn(t)' = j /\ Findable(t)'
    BY <1>1 DEF IInv, TypeOK, Consistent, CountedIn, Findable, search_job_by_task
<1>4. \A k \in Jobs : Forkers(k)' = Forkers(k)
    BY <1>1, <1>2 DEF IInv, TypeOK, Forkers
<1>5. ASSUME NEW k \in Jobs
      PROVE  alive_proc'[k] = Cardinality(Members(k)') + Cardinality(Forkers(k)')
  <2>1. CASE k = j
    <3>1. alive_proc[j] = 0
        BY <1>1 DEF IInv, Counted
    <3>2. Members(j) = {} /\ Cardinality(Forkers(j)) = 0
        BY <3>1, HoldersFinite, FS_EmptySet DEF ExactInv, CountExact
    <3>3. Members(j)' = {t}
        BY <1>2, <1>3, <3>2 DEF Members
    <3>4. alive_proc'[j] = 1 /\ Cardinality({t}) = 1
        BY <1>1, FS_Singleton DEF IInv, TypeOK
    <3> QED  BY <1>4, <2>1, <3>2, <3>3, <3>4
  <2>2. CASE k # j
    <3>1. Members(k)' = Members(k)
        BY <1>2, <1>3, <2>2 DEF Members
    <3> QED  BY <1>1, <1>4, <2>2, <3>1, SameAccount DEF ExactInv, IInv, TypeOK
  <2> QED  BY <2>1, <2>2
<1> QED  BY <1>2, <1>3, <1>5 DEF ExactInv, CountExact

\* get_thread counts the child of its parent's job.
LEMMA ForkEnterExact ==
    ASSUME IInv, ExactInv, NEW t \in Tasks, ForkEnter(t)
    PROVE  ExactInv'
<1>0. PICK j \in MaybeJob : j = search_job_by_task(t)
    BY DEF IInv, TypeOK, search_job_by_task
<1>1. /\ pc[t] = "user" /\ pc' = [pc EXCEPT ![t] = "do_fork"]
      /\ tgid' = tgid /\ pid' = pid /\ slot' = slot /\ link' = link /\ entry' = entry
      /\ loc' = [loc EXCEPT ![t] = j]
      /\ alive_proc' = IF j = NoJob THEN alive_proc ELSE [alive_proc EXCEPT ![j] = @ + 1]
    BY <1>0 DEF ForkEnter, Goto, taskVars
<1>2. /\ \A u \in Tasks \ {t} : Findable(u)' /\ CountedIn(u)' = CountedIn(u)
      /\ \A k \in Jobs : Forkers(k)' \ {t} = Forkers(k) \ {t}
    BY <1>1, CountingFrame DEF IInv, TypeOK, PC
<1>3. CountedIn(t)' = CountedIn(t) /\ Findable(t)'
    BY <1>0, <1>1 DEF IInv, TypeOK, Consistent, ExactInv, CountedIn, Findable, search_job_by_task
<1>4. ASSUME NEW k \in Jobs
      PROVE  alive_proc'[k] = Cardinality(Members(k)') + Cardinality(Forkers(k)')
  <2>1. Members(k)' = Members(k)
      BY <1>2, <1>3 DEF Members
  <2>2. t \notin Forkers(k) /\ (t \in Forkers(k)' <=> k = j)
      BY <1>0, <1>1 DEF IInv, TypeOK, Forkers
  <2>3. CASE k = j
    <3>1. Forkers(j)' = Forkers(j) \cup {t}
        BY <1>2, <2>2, <2>3
    <3>2. Cardinality(Forkers(j)') = Cardinality(Forkers(j)) + 1
        BY <2>2, <2>3, <3>1, HoldersFinite, FS_AddElement
    <3>3. alive_proc'[j] = alive_proc[j] + 1
        BY <1>1, <2>3 DEF IInv, TypeOK
    <3> QED  BY <2>1, <2>3, <3>2, <3>3, HoldersFinite DEF ExactInv, CountExact
  <2>4. CASE k # j
    <3>1. Forkers(k)' = Forkers(k)
        BY <1>2, <2>2, <2>4
    <3> QED  BY <1>1, <2>1, <2>4, <3>1, SameAccount DEF ExactInv, IInv, TypeOK
  <2> QED  BY <2>3, <2>4
<1> QED  BY <1>2, <1>3, <1>4 DEF ExactInv, CountExact

\* The hold of a forker becomes the hold of its child.
LEMMA ForkChildExact ==
    ASSUME IInv, ExactInv, NEW t \in Tasks, NEW c \in Tasks, NEW thread \in BOOLEAN,
           ForkChild(t, c, thread)
    PROVE  ExactInv'
<1>0. PICK j \in MaybeJob : j = loc[t]
    BY DEF IInv, TypeOK
<1>1. /\ pc[t] = "do_fork" /\ pc[c] = "unborn" /\ t # c
      /\ pc' = [pc EXCEPT ![t] = "user", ![c] = "newborn"]
      /\ tgid' = [tgid EXCEPT ![c] = IF thread THEN tgid[t] ELSE c]
      /\ link' = IF thread THEN link ELSE [link EXCEPT ![c] = j]
      /\ loc' = [loc EXCEPT ![t] = NoJob]
      /\ pid' = pid /\ entry' = entry /\ slot' = slot /\ alive_proc' = alive_proc
    BY <1>0 DEF ForkChild, jobVars, IInv, Consistent
<1>2. \A u \in Tasks \ {c} : search_job_by_task(u)' = search_job_by_task(u)
    BY <1>1 DEF IInv, TypeOK, Groups, search_job_by_task
<1>3. search_job_by_task(c)' = j
    BY <1>0, <1>1 DEF IInv, TypeOK, Consistent, search_job_by_task
<1>4. ASSUME NEW u \in Tasks \ {t, c} PROVE Findable(u)' /\ CountedIn(u)' = CountedIn(u)
  <2>1. pc'[u] = pc[u] /\ loc'[u] = loc[u] /\ tgid'[u] = tgid[u]
      BY <1>1 DEF IInv, TypeOK
  <2> QED  BY <1>1, <1>2, <2>1, OtherFindable DEF ExactInv, CountedIn
<1>5. Findable(t)' /\ CountedIn(t)' = CountedIn(t)
    BY <1>1, <1>2 DEF IInv, TypeOK, ExactInv, Findable, CountedIn
<1>6. Findable(c)' /\ CountedIn(c) = NoJob /\ CountedIn(c)' = j
    BY <1>1, <1>3 DEF IInv, TypeOK, Consistent, Findable, CountedIn
<1>7. ASSUME NEW k \in Jobs
      PROVE  alive_proc'[k] = Cardinality(Members(k)') + Cardinality(Forkers(k)')
  <2>1. CASE k = j
    <3>1. Members(j)' = Members(j) \cup {c} /\ c \notin Members(j)
        BY <1>4, <1>5, <1>6, <2>1 DEF Members
    <3>2. Forkers(j)' = Forkers(j) \ {t} /\ t \in Forkers(j)
        BY <1>0, <1>1, <2>1 DEF IInv, TypeOK, Forkers
    <3>3. Cardinality(Members(j)') = Cardinality(Members(j)) + 1
        BY <2>1, <3>1, HoldersFinite, FS_AddElement
    <3>4. Cardinality(Forkers(j)') = Cardinality(Forkers(j)) - 1
        BY <2>1, <3>2, HoldersFinite, FS_RemoveElement
    <3> QED  BY <1>1, <2>1, <3>3, <3>4, HoldersFinite DEF ExactInv, CountExact
  <2>2. CASE k # j
    <3>1. Members(k)' = Members(k)
        BY <1>4, <1>5, <1>6, <2>2 DEF Members
    <3>2. Forkers(k)' = Forkers(k)
        BY <1>0, <1>1, <2>2 DEF IInv, TypeOK, Forkers
    <3> QED  BY <1>1, <3>1, <3>2, SameAccount DEF ExactInv
  <2> QED  BY <2>1, <2>2
<1> QED  BY <1>4, <1>5, <1>6, <1>7 DEF ExactInv, CountExact

\* put_thread takes back the child that was not born.
LEMMA ForkPutExact ==
    ASSUME IInv, ExactInv, NEW t \in Tasks, ForkPut(t)
    PROVE  ExactInv'
<1>0. PICK j \in Jobs : j = loc[t] /\ alive_proc[j] >= 2
    BY ForkPutCount DEF IInv, ForkPut
<1>1. /\ pc[t] = "fork_put" /\ pc' = [pc EXCEPT ![t] = "user"]
      /\ tgid' = tgid /\ pid' = pid /\ slot' = slot /\ link' = link /\ entry' = entry
      /\ loc' = [loc EXCEPT ![t] = NoJob]
      /\ alive_proc' = [alive_proc EXCEPT ![j] = @ - 1]
    BY <1>0 DEF IInv, TypeOK, ForkPut, put_thread, Goto, taskVars
<1>2. /\ \A u \in Tasks \ {t} : Findable(u)' /\ CountedIn(u)' = CountedIn(u)
      /\ \A k \in Jobs : Forkers(k)' \ {t} = Forkers(k) \ {t}
    BY <1>1, CountingFrame DEF IInv, TypeOK, PC
<1>3. CountedIn(t)' = CountedIn(t) /\ Findable(t)'
    BY <1>1 DEF IInv, TypeOK, ExactInv, CountedIn, Findable, search_job_by_task
<1>4. ASSUME NEW k \in Jobs
      PROVE  alive_proc'[k] = Cardinality(Members(k)') + Cardinality(Forkers(k)')
  <2>1. Members(k)' = Members(k)
      BY <1>2, <1>3 DEF Members
  <2>2. t \notin Forkers(k)' /\ (t \in Forkers(k) <=> k = j)
      BY <1>0, <1>1 DEF IInv, TypeOK, Forkers
  <2>3. CASE k = j
    <3>1. Forkers(j)' = Forkers(j) \ {t}
        BY <1>2, <2>2, <2>3
    <3>2. Cardinality(Forkers(j)') = Cardinality(Forkers(j)) - 1
        BY <2>2, <2>3, <3>1, HoldersFinite, FS_RemoveElement
    <3>3. alive_proc'[j] = alive_proc[j] - 1
        BY <1>1 DEF IInv, TypeOK
    <3> QED  BY <2>1, <2>3, <3>2, <3>3, HoldersFinite DEF ExactInv, CountExact
  <2>4. CASE k # j
    <3>1. Forkers(k)' = Forkers(k)
        BY <1>2, <2>2, <2>4
    <3> QED  BY <1>1, <2>1, <2>4, <3>1, SameAccount DEF ExactInv, IInv, TypeOK
  <2> QED  BY <2>3, <2>4
<1> QED  BY <1>2, <1>3, <1>4 DEF ExactInv, CountExact

\* put_thread in the exit hook takes back the member.
LEMMA PutThreadExact ==
    ASSUME IInv, ExactInv, NEW t \in Tasks, PutThread(t)
    PROVE  ExactInv'
<1>0. PICK j \in Jobs : j = loc[t]
    BY DEF IInv, TypeOK, MaybeJob, Consistent, PutThread
<1> DEFINE l == IF alive_proc[j] = 1 THEN "del_job" ELSE "exiting"
<1>1. /\ pc[t] = "put" /\ pc' = [pc EXCEPT ![t] = l] /\ l \in PC
      /\ tgid' = tgid /\ pid' = pid /\ slot' = slot /\ link' = link /\ entry' = entry
      /\ loc' = IF alive_proc[j] = 1 THEN loc ELSE [loc EXCEPT ![t] = NoJob]
      /\ alive_proc' = [alive_proc EXCEPT ![j] = @ - 1]
    BY <1>0 DEF PutThread, put_thread, Goto, taskVars, PC
<1>2. /\ \A u \in Tasks \ {t} : Findable(u)' /\ CountedIn(u)' = CountedIn(u)
      /\ \A k \in Jobs : Forkers(k)' \ {t} = Forkers(k) \ {t}
  <2>1. \A u \in Tasks \ {t} : loc'[u] = loc[u]
      BY <1>1 DEF IInv, TypeOK
  <2> QED  BY <1>1, <2>1, CountingFrame DEF IInv, TypeOK
<1>3. CountedIn(t) = j /\ CountedIn(t)' = NoJob /\ Findable(t)'
    BY <1>0, <1>1 DEF IInv, TypeOK, Consistent, CountedIn, Findable
<1>4. ASSUME NEW k \in Jobs
      PROVE  alive_proc'[k] = Cardinality(Members(k)') + Cardinality(Forkers(k)')
  <2>1. Forkers(k)' = Forkers(k)
      BY <1>1, <1>2 DEF IInv, TypeOK, Forkers
  <2>2. CASE k = j
    <3>1. Members(j)' = Members(j) \ {t} /\ t \in Members(j)
        BY <1>2, <1>3 DEF Members
    <3>2. Cardinality(Members(j)') = Cardinality(Members(j)) - 1
        BY <3>1, HoldersFinite, FS_RemoveElement
    <3>3. alive_proc'[j] = alive_proc[j] - 1
        BY <1>1 DEF IInv, TypeOK
    <3> QED  BY <2>1, <2>2, <3>2, <3>3, HoldersFinite DEF ExactInv, CountExact
  <2>3. CASE k # j
    <3>1. Members(k)' = Members(k)
        BY <1>2, <1>3, <2>3 DEF Members
    <3> QED  BY <1>1, <2>1, <2>3, <3>1, SameAccount DEF ExactInv, IInv, TypeOK
  <2> QED  BY <2>2, <2>3
<1> QED  BY <1>2, <1>3, <1>4 DEF ExactInv, CountExact

-----------------------------------------------------------------------------
(* The theorems.                                                           *)

\* At the start there is no job and nobody is counted.
LEMMA InitExactInv == Init => ExactInv
<1> SUFFICES ASSUME Init PROVE ExactInv
    OBVIOUS
<1>1. ASSUME NEW j \in Jobs
      PROVE  alive_proc[j] = 0 /\ Members(j) = {} /\ Forkers(j) = {}
  <2>1. Members(j) = {}
      BY DEF Init, Members, CountedIn, search_job_by_task
  <2> QED  BY <2>1 DEF Init, Forkers
<1>2. CountExact
    BY <1>1, FS_EmptySet DEF CountExact
<1>3. \A t \in Tasks : Findable(t)
    BY DEF Init, Findable, search_job_by_task
<1> QED  BY <1>2, <1>3 DEF ExactInv

\* Every step keeps the accounts.
LEMMA NextExactInv ==
    ASSUME AllocMayFail = FALSE, ThreadExec = FALSE, IInv, ExactInv, [Next]_vars
    PROVE  ExactInv'
<1>1. ASSUME NEW t \in Tasks, Execve(t) PROVE ExactInv'
    BY <1>1, QuietSteps, NewJobExact, KernelExecveExact, InitTsiExact DEF Execve, Quiet
<1>2. ASSUME NEW t \in Tasks, Fork(t) PROVE ExactInv'
  <2>1. ~ScheduleTailNoMemory(t)
      BY DEF ScheduleTailNoMemory
  <2> QED  BY <1>2, <2>1, QuietSteps, ForkEnterExact, ForkChildExact, ForkPutExact DEF Fork, Quiet
<1>3. ASSUME NEW t \in Tasks, Exit(t) PROVE ExactInv'
    BY <1>3, QuietSteps, PutThreadExact DEF Exit, Quiet
<1>4. CASE UNCHANGED vars
  <2>1. \A u \in Tasks : CountedIn(u)' = CountedIn(u) /\ Findable(u)'
      BY <1>4 DEF vars, ExactInv, CountedIn, Findable, search_job_by_task
  <2>2. \A j \in Jobs : Forkers(j)' = Forkers(j)
      BY <1>4 DEF vars, Forkers
  <2>3. CountExact'
      BY <1>4, <2>1, <2>2, SameAccounts DEF vars, ExactInv
  <2> QED  BY <2>1, <2>3 DEF ExactInv
<1> QED  BY <1>1, <1>2, <1>3, <1>4 DEF Next

\* Nothing is lost in any reachable state.
LEMMA ExactInvariance ==
    ASSUME AllocMayFail = FALSE, ThreadExec = FALSE, ThreadedRoots = FALSE
    PROVE  Spec => []ExactInv
<1>1. IInv /\ ExactInv /\ [Next]_vars => ExactInv'
    BY NextExactInv
<1> QED  BY InitExactInv, Invariance, <1>1, PTL DEF Spec

(* get_thread and put_thread (sched/sched.h:48) are balanced: a job's count *)
(* is the number of its members and of the children on their way, so that  *)
(* the last put_thread is the one that deletes the job.                    *)
THEOREM CountsAreExact ==
    ASSUME AllocMayFail = FALSE, ThreadExec = FALSE, ThreadedRoots = FALSE
    PROVE  Spec => []CountExact
<1>1. ExactInv => CountExact
    BY DEF ExactInv
<1> QED  BY ExactInvariance, <1>1, PTL
=============================================================================
