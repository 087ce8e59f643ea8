--------------------------- MODULE Inception_proofs ---------------------------
(***************************************************************************)
(* Proofs about loading and unloading, for any number of tasks.  HookInv   *)
(* follows the switch points through both orders; nothing is assumed of    *)
(* what may fail.  ReleaseInv follows the resources through the labels of  *)
(* yasched_init and yasched_exit.  DrainInv says at which stages a removal *)
(* can be, and who is still inside once it has stopped waiting.            *)
(***************************************************************************)
EXTENDS Inception, FiniteSetTheorems, TLAPS

Early == {"region", "cdev", "proc_root", "zone", "job_cache", "thread_cache"}

Late == {"drain", "exit_sched", "fini_procfs", "destroy_cdev", "free", "gone"}

HookInv ==
    /\ \A p \in Points : saved[p] = "null" => text[p] = "kernel"
    /\ \A p \in Points : saved[p] # text[p]
    /\ stage \in Early => pos = 1 /\ \A p \in Points : saved[p] = "null"
    /\ stage = "install" =>
        /\ pos <= N
        /\ \A k \in 1..N : pos <= k => saved[InstallOrder[k]] = "null"
        /\ \A k \in 1..N : k < pos /\ InstallOrder[k] \notin ForkPoints
                                => text[InstallOrder[k]] = "module"
    /\ stage \in {"install", "running"} => \A p \in Points : saved[p] # "module"
    /\ stage = "restore" =>
        \A k \in 1..N : IF k < pos THEN text[RestoreOrder[k]] = "kernel"
                                   ELSE saved[RestoreOrder[k]] # "module"
    /\ stage \in Late => \A p \in Points : text[p] = "kernel"

HInv == TypeOK /\ HookInv /\ CountedChildrenCanLeave

USE DEF N

-----------------------------------------------------------------------------
(* The two orders.                                                         *)

\* Both orders consist of the switch points.
LEMMA OrdersAreOfPoints ==
    \A k \in 1..N : InstallOrder[k] \in Points /\ RestoreOrder[k] \in Points
BY DEF InstallOrder, RestoreOrder, Points

\* No point comes twice.
LEMMA OrdersAreInjective ==
    \A k, l \in 1..N : k # l => /\ InstallOrder[k] # InstallOrder[l]
                                /\ RestoreOrder[k] # RestoreOrder[l]
BY DEF InstallOrder, RestoreOrder

\* No point is forgotten.
LEMMA OrdersAreComplete ==
    \A p \in Points : /\ \E k \in 1..N : p = InstallOrder[k]
                      /\ \E k \in 1..N : p = RestoreOrder[k]
<1>1. \A p \in Points : \E k \in 1..N : p = InstallOrder[k]
  <2> SUFFICES ASSUME NEW p \in Points PROVE \E k \in 1..N : p = InstallOrder[k]
      OBVIOUS
  <2>1. \/ p = InstallOrder[1] \/ p = InstallOrder[2] \/ p = InstallOrder[3]
        \/ p = InstallOrder[4] \/ p = InstallOrder[5] \/ p = InstallOrder[6]
        \/ p = InstallOrder[7] \/ p = InstallOrder[8] \/ p = InstallOrder[9]
        \/ p = InstallOrder[10]
      BY DEF InstallOrder, Points
  <2> QED  BY <2>1
<1>2. \A p \in Points : \E k \in 1..N : p = RestoreOrder[k]
  <2> SUFFICES ASSUME NEW p \in Points PROVE \E k \in 1..N : p = RestoreOrder[k]
      OBVIOUS
  <2>1. \/ p = RestoreOrder[1] \/ p = RestoreOrder[2] \/ p = RestoreOrder[3]
        \/ p = RestoreOrder[4] \/ p = RestoreOrder[5] \/ p = RestoreOrder[6]
        \/ p = RestoreOrder[7] \/ p = RestoreOrder[8] \/ p = RestoreOrder[9]
        \/ p = RestoreOrder[10]
      BY DEF RestoreOrder, Points
  <2> QED  BY <2>1
<1> QED  BY <1>1, <1>2

\* All but the fork points are restored in the reverse order.
LEMMA OrdersAreReverse ==
    \A k \in 1..N : RestoreOrder[k] = InstallOrder[IF k <= 3 THEN k + 7 ELSE 11 - k]
BY DEF InstallOrder, RestoreOrder

\* Where the fork points, the exit hook and schedule_tail stand.
LEMMA ForkPositions ==
    /\ \A k \in 1..N : InstallOrder[k] \in ForkPoints <=> k >= 8
    /\ \A k \in 1..N : RestoreOrder[k] \in ForkPoints <=> k <= 3
    /\ InstallOrder[7] = "exit" /\ InstallOrder[4] = "tail"
    /\ RestoreOrder[4] = "exit" /\ RestoreOrder[7] = "tail"
    /\ ForkPoints \subseteq Points
BY DEF InstallOrder, RestoreOrder, ForkPoints, Points

-----------------------------------------------------------------------------
(* The switch points.                                                      *)

\* At the start nothing is redirected.
LEMMA InitHInv == Init => HInv
BY ForkPositions
   DEF Init, HInv, HookInv, TypeOK, CountedChildrenCanLeave, Early, Late, Stages, Resources, Places

\* Steps that leave the switch points alone and stay before or after them.
LEMMA ResourceStep ==
    ASSUME HInv, UNCHANGED hookVars, pos' = pos, TypeOK',
           \/ stage \in Early /\ stage' \in Early \cup {"free", "destroy_cdev", "fini_procfs", "install"}
           \/ stage \in Late /\ stage' \in Late
    PROVE  HInv'
<1>1. stage \in Early => \A p \in Points : text[p] = "kernel" /\ saved[p] = "null"
    BY DEF HInv, HookInv
<1>2. stage \in Late => stage' \in Late /\ \A p \in Points : text[p] = "kernel"
    BY DEF HInv, HookInv, Early, Late
<1>3. \A k \in 1..N : InstallOrder[k] \in Points /\ RestoreOrder[k] \in Points
    BY OrdersAreOfPoints
<1>4. CountedChildrenCanLeave'
    BY DEF HInv, CountedChildrenCanLeave, hookVars
<1>5. HookInv'
    BY <1>1, <1>2, <1>3 DEF HInv, HookInv, hookVars, Early, Late
<1> QED  BY <1>4, <1>5 DEF HInv

\* The steps of yasched_init before perform_inception.
LEMMA StartStep ==
    ASSUME HInv, CreateCharDevice \/ InitProcfs \/ InitSched
    PROVE  HInv'
<1>1. UNCHANGED hookVars /\ pos' = pos
    BY DEF CreateCharDevice, InitProcfs, InitSched, Acquire, Fail
<1>2. stage \in Early /\ stage' \in Early \cup {"free", "destroy_cdev", "fini_procfs", "install"}
    BY DEF CreateCharDevice, InitProcfs, InitSched, Acquire, Fail, Early
<1>3. TypeOK'
    BY DEF CreateCharDevice, InitProcfs, InitSched, Acquire, Fail, HInv, TypeOK, Stages,
           Resources, hookVars, taskVars
<1> QED  BY <1>1, <1>2, <1>3, ResourceStep

\* The steps after the switch points are restored.
LEMMA StopStep ==
    ASSUME HInv, Drain \/ ExitSched \/ FiniProcfs \/ DestroyCharDevice \/ FreeModule
    PROVE  HInv'
<1>1. UNCHANGED hookVars /\ pos' = pos
    BY DEF Drain, ExitSched, FiniProcfs, DestroyCharDevice, FreeModule, Release
<1>2. stage \in Late /\ stage' \in Late
    BY DEF Drain, ExitSched, FiniProcfs, DestroyCharDevice, FreeModule, Release, Late
<1>3. TypeOK'
    BY DEF Drain, ExitSched, FiniProcfs, DestroyCharDevice, FreeModule, Release, HInv, TypeOK,
           Stages, Resources, Uncounted, hookVars, taskVars
<1> QED  BY <1>1, <1>2, <1>3, ResourceStep

\* Redirecting the next point: those before it are redirected, so the exit hook
\* and schedule_tail are when it is a fork point.
LEMMA InstallStep == ASSUME HInv, Install PROVE HInv'
<1> DEFINE q == InstallOrder[pos]
<1>1. /\ stage = "install" /\ pos \in 1..N /\ q \in Points
      /\ saved[q] = "null" /\ text[q] = "kernel"
    BY OrdersAreOfPoints DEF HInv, HookInv, TypeOK, Install
<1>2. /\ text' = [text EXCEPT ![q] = "module"]
      /\ saved' = [saved EXCEPT ![q] = "kernel"]
      /\ pos' = pos + 1
      /\ stage' = IF pos = N THEN "running" ELSE "install"
    BY <1>1 DEF Install, Exchange, Installed
<1>3. TypeOK'
    BY <1>1, <1>2 DEF HInv, TypeOK, Install, Stages, taskVars
<1>4. \A k \in 1..N : k # pos => InstallOrder[k] # q /\ InstallOrder[k] \in Points
    BY <1>1, OrdersAreInjective, OrdersAreOfPoints
<1>5. HookInv'
  <2>1. \A p \in Points : /\ saved'[p] # text'[p] /\ saved'[p] # "module"
                          /\ saved'[p] = "null" => text'[p] = "kernel"
      BY <1>1, <1>2 DEF HInv, HookInv, TypeOK
  <2>2. stage' = "install" =>
          /\ pos' <= N
          /\ \A k \in 1..N : pos' <= k => saved'[InstallOrder[k]] = "null"
          /\ \A k \in 1..N : k < pos' /\ InstallOrder[k] \notin ForkPoints
                                => text'[InstallOrder[k]] = "module"
      BY <1>1, <1>2, <1>4 DEF HInv, HookInv, TypeOK
  <2> QED  BY <1>2, <2>1, <2>2 DEF HookInv, Early, Late
<1>6. CountedChildrenCanLeave'
  <2>1. CASE q \in ForkPoints
    <3>1. pos >= 8
        BY <1>1, <2>1, ForkPositions
    <3>2. text["exit"] = "module" /\ text["tail"] = "module"
        BY <1>1, <3>1, ForkPositions DEF HInv, HookInv, ForkPoints
    <3> QED  BY <1>1, <1>2, <2>1, <3>2 DEF CountedChildrenCanLeave, HInv, TypeOK, ForkPoints, Points
  <2>2. CASE q \notin ForkPoints
      BY <1>1, <1>2, <2>2 DEF CountedChildrenCanLeave, HInv, TypeOK, ForkPoints, Points
  <2> QED  BY <2>1, <2>2
<1> QED  BY <1>3, <1>5, <1>6 DEF HInv

\* Skipping a fork point.
LEMMA SkipForkStep == ASSUME HInv, SkipFork PROVE HInv'
<1>1. /\ stage = "install" /\ pos \in 1..N /\ InstallOrder[pos] \in ForkPoints
      /\ UNCHANGED hookVars /\ pos' = pos + 1
      /\ stage' = IF pos = N THEN "running" ELSE "install"
    BY DEF HInv, HookInv, TypeOK, SkipFork, Installed
<1>2. TypeOK'
    BY <1>1 DEF HInv, TypeOK, SkipFork, Stages, hookVars, taskVars
<1>3. HookInv'
    BY <1>1 DEF HInv, HookInv, hookVars, Early, Late
<1>4. CountedChildrenCanLeave'
    BY <1>1 DEF HInv, CountedChildrenCanLeave, hookVars
<1> QED  BY <1>2, <1>3, <1>4 DEF HInv

\* The roll-back starts where nothing is redirected any more.
LEMMA InstallFailsStep == ASSUME HInv, InstallFails PROVE HInv'
<1>1. /\ stage = "install" /\ pos \in 1..N /\ UNCHANGED hookVars /\ stage' = "restore"
      /\ pos' = IF pos >= 8 THEN 1 ELSE 12 - pos
    BY ForkPositions DEF HInv, HookInv, TypeOK, InstallFails
<1>2. TypeOK'
    BY <1>1 DEF HInv, TypeOK, InstallFails, Stages, hookVars, taskVars
<1>3. \A k \in 1..N : k < pos' => text[RestoreOrder[k]] = "kernel"
  <2> SUFFICES ASSUME NEW k \in 1..N, k < pos' PROVE text[RestoreOrder[k]] = "kernel"
      OBVIOUS
  <2> DEFINE l == IF k <= 3 THEN k + 7 ELSE 11 - k
  <2>1. l \in 1..N /\ pos <= l /\ RestoreOrder[k] = InstallOrder[l]
      BY <1>1, OrdersAreReverse
  <2>2. saved[InstallOrder[l]] = "null" /\ InstallOrder[l] \in Points
      BY <1>1, <2>1, OrdersAreOfPoints DEF HInv, HookInv
  <2> QED  BY <2>1, <2>2 DEF HInv, HookInv
<1>4. \A k \in 1..N : saved[RestoreOrder[k]] # "module"
    BY <1>1, OrdersAreOfPoints DEF HInv, HookInv
<1>5. HookInv'
    BY <1>1, <1>3, <1>4 DEF HInv, HookInv, hookVars, Early, Late
<1>6. CountedChildrenCanLeave'
    BY <1>1 DEF HInv, CountedChildrenCanLeave, hookVars
<1> QED  BY <1>2, <1>5, <1>6 DEF HInv

\* rmmod starts at the first point.
LEMMA RemoveStep == ASSUME HInv, Remove PROVE HInv'
<1>1. stage = "running" /\ UNCHANGED hookVars /\ stage' = "restore" /\ pos' = 1
    BY DEF Remove
<1>2. TypeOK'
    BY <1>1 DEF HInv, TypeOK, Remove, Stages, hookVars, taskVars
<1>3. \A k \in 1..N : saved[RestoreOrder[k]] # "module"
    BY <1>1, OrdersAreOfPoints DEF HInv, HookInv
<1>4. HookInv'
    BY <1>1, <1>3 DEF HInv, HookInv, hookVars, Early, Late
<1>5. CountedChildrenCanLeave'
    BY <1>1 DEF HInv, CountedChildrenCanLeave, hookVars
<1> QED  BY <1>2, <1>4, <1>5 DEF HInv

\* Restoring the next point: the exit hook and schedule_tail go after the fork
\* points.
LEMMA RestoreStep == ASSUME HInv, Restore PROVE HInv'
<1> DEFINE q == RestoreOrder[pos]
<1>1. stage = "restore" /\ pos \in 1..N /\ q \in Points /\ saved[q] \in {"null", "kernel"}
    BY OrdersAreOfPoints DEF HInv, HookInv, TypeOK, Restore
<1>2. /\ stage' = stage /\ pos' = pos + 1
      /\ text'[q] = "kernel" /\ saved'[q] # "kernel"
      /\ \A p \in Points : p # q => text'[p] = text[p] /\ saved'[p] = saved[p]
      /\ saved'[q] = "null" => text'[q] = "kernel"
    BY <1>1 DEF Restore, Exchange, hookVars, HInv, HookInv, TypeOK
<1>3. TypeOK'
    BY <1>1 DEF HInv, TypeOK, Restore, Exchange, Stages, hookVars, taskVars
<1>4. \A k \in 1..N : k # pos => RestoreOrder[k] # q /\ RestoreOrder[k] \in Points
    BY <1>1, OrdersAreInjective, OrdersAreOfPoints
<1>5. HookInv'
  <2>1. \A k \in 1..N : IF k < pos' THEN text'[RestoreOrder[k]] = "kernel"
                                    ELSE saved'[RestoreOrder[k]] # "module"
      BY <1>1, <1>2, <1>4 DEF HInv, HookInv
  <2>2. \A p \in Points : saved'[p] # text'[p] /\ (saved'[p] = "null" => text'[p] = "kernel")
      BY <1>1, <1>2 DEF HInv, HookInv
  <2> QED  BY <1>1, <1>2, <2>1, <2>2 DEF HookInv, Early, Late
<1>6. CountedChildrenCanLeave'
  <2> SUFFICES ASSUME NEW p \in ForkPoints, text'[p] = "module"
               PROVE  text'["exit"] = "module" /\ text'["tail"] = "module"
      BY DEF CountedChildrenCanLeave
  <2>1. p \in Points /\ p # q /\ text[p] = "module"
      BY <1>2, ForkPositions
  <2>2. PICK k \in 1..N : p = RestoreOrder[k]
      BY <2>1, OrdersAreComplete
  <2>3. k <= 3 /\ pos <= k
      BY <1>1, <2>1, <2>2, ForkPositions DEF HInv, HookInv
  <2>4. "exit" # q /\ "tail" # q
      BY <1>1, <1>4, <2>3, ForkPositions
  <2>5. text["exit"] = "module" /\ text["tail"] = "module"
      BY <2>1 DEF HInv, CountedChildrenCanLeave
  <2> QED  BY <1>2, <2>4, <2>5 DEF Points
<1> QED  BY <1>3, <1>5, <1>6 DEF HInv

\* At the end of the order every point is the kernel's again.
LEMMA RestoredStep == ASSUME HInv, Restored PROVE HInv'
<1>1. stage = "restore" /\ pos = N + 1 /\ UNCHANGED <<hookVars, pos>> /\ stage' \in Late
    BY DEF Restored, Late
<1>2. TypeOK'
    BY <1>1 DEF HInv, TypeOK, Restored, Stages, hookVars, taskVars
<1>3. \A p \in Points : text[p] = "kernel"
  <2> SUFFICES ASSUME NEW p \in Points PROVE text[p] = "kernel"
      OBVIOUS
  <2>1. PICK k \in 1..N : p = RestoreOrder[k]
      BY OrdersAreComplete
  <2> QED  BY <1>1, <2>1 DEF HInv, HookInv
<1>4. HookInv'
    BY <1>1, <1>3 DEF HInv, HookInv, hookVars, Early, Late
<1>5. CountedChildrenCanLeave'
    BY <1>1 DEF HInv, CountedChildrenCanLeave, hookVars
<1> QED  BY <1>2, <1>4, <1>5 DEF HInv

-----------------------------------------------------------------------------
(* The count.                                                              *)

\* The tasks whose constant is part of ya_count.
Inside == {t \in Tasks : at[t] \in {"agent", "oopsed"}}

CountInv == ya_count = Cardinality(Inside)

IInv == HInv /\ CountInv

\* ya_count is a number.
LEMMA InsideFinite == IsFiniteSet(Inside) /\ Cardinality(Inside) \in Nat
BY TasksAssumption, FS_Subset, FS_CardinalityType DEF Inside

\* A task moves between two places and ya_count follows it.
LEMMA TaskStep ==
    ASSUME IInv, NEW t \in Tasks, AgentStep(t) \/ Jump(t) \/ Oops(t)
    PROVE  IInv'
<1>1. UNCHANGED <<loaderVars, held, hookVars, loaded, late>>
    BY DEF AgentStep, Count, Uncount, Return, Jump, Oops
<1>2. at \in [Tasks -> Places] /\ ya_count \in Nat /\ ya_count = Cardinality(Inside)
    BY DEF IInv, HInv, TypeOK, CountInv
<1>3. ya_count' = Cardinality(Inside') /\ at' \in [Tasks -> Places]
  <2>1. CASE Count(t)
    <3>1. Inside' = Inside \cup {t} /\ t \notin Inside /\ at' \in [Tasks -> Places]
        BY <2>1, <1>2 DEF Count, Move, Inside, Places
    <3> QED  BY <2>1, <3>1, <1>2, InsideFinite, FS_AddElement DEF Count
  <2>2. CASE Uncount(t)
    <3>1. Inside' = Inside \ {t} /\ t \in Inside /\ at' \in [Tasks -> Places]
        BY <2>2, <1>2 DEF Uncount, Move, Inside, Places
    <3> QED  BY <2>2, <3>1, <1>2, InsideFinite, FS_RemoveElement DEF Uncount
  <2>3. CASE Return(t) \/ Jump(t) \/ Oops(t)
    <3>1. Inside' = Inside /\ at' \in [Tasks -> Places] /\ ya_count' = ya_count
        BY <2>3, <1>2 DEF Return, Jump, Oops, Move, Inside, Places
    <3> QED  BY <3>1, <1>2
  <2> QED  BY <2>1, <2>2, <2>3 DEF AgentStep
<1>4. TypeOK'
  <2>1. ya_count' \in Nat
    <3>1. Inside' \subseteq Tasks
        BY DEF Inside
    <3> QED  BY <3>1, <1>3, TasksAssumption, FS_Subset, FS_CardinalityType
  <2> QED  BY <1>1, <1>3, <2>1 DEF IInv, HInv, TypeOK, loaderVars, hookVars
<1>5. HookInv' /\ CountedChildrenCanLeave'
    BY <1>1 DEF IInv, HInv, HookInv, CountedChildrenCanLeave, loaderVars, hookVars
<1> QED  BY <1>3, <1>4, <1>5 DEF IInv, HInv, CountInv

\* The loader leaves the tasks where they are.
LEMMA LoaderStep == ASSUME IInv, Start \/ Remove \/ Stop PROVE IInv'
<1>1. HInv'
    BY StartStep, StopStep, InstallStep, SkipForkStep, InstallFailsStep, RemoveStep,
       RestoreStep, RestoredStep DEF IInv, Start, Stop
<1>2. UNCHANGED taskVars
    BY DEF Start, Stop, Remove, CreateCharDevice, InitProcfs, InitSched, Acquire, Fail, Install,
           SkipFork, InstallFails, Restore, Restored, Drain, ExitSched, FiniProcfs,
           DestroyCharDevice, Release, FreeModule
<1> QED  BY <1>1, <1>2 DEF IInv, CountInv, Inside, taskVars

\* Nobody is inside at the start.
LEMMA InitIInv == Init => IInv
<1> SUFFICES ASSUME Init PROVE IInv
    OBVIOUS
<1>1. Inside = {}
    BY DEF Init, Inside
<1> QED  BY <1>1, InitHInv, FS_EmptySet DEF IInv, CountInv, Init

\* A step that changes nothing keeps everything.
LEMMA StutterStep == ASSUME IInv, UNCHANGED vars PROVE IInv'
BY DEF IInv, HInv, TypeOK, HookInv, CountedChildrenCanLeave, CountInv, Inside, vars

\* IInv is an invariant, whatever may fail.
THEOREM Inductive == Spec => []IInv
<1>1. IInv /\ [Next]_vars => IInv'
    BY LoaderStep, TaskStep, StutterStep DEF Next
<1> QED  BY InitIInv, <1>1, PTL DEF Spec

\* Every reachable state is well typed; in particular no agent gives ya_count
\* (hook/*.c) more than it took.
THEOREM TypeCorrect == Spec => []TypeOK
<1>1. IInv => TypeOK
    BY DEF IInv, HInv
<1> QED  BY Inductive, <1>1, PTL

\* After a roll-back or a removal (inception.c:97-140) no jump into the module
\* is left in the kernel's text.
THEOREM KernelTextIsClean == Spec => []KernelTextClean
<1>1. IInv => KernelTextClean
    BY DEF IInv, HInv, HookInv, KernelTextClean, Late
<1> QED  BY Inductive, <1>1, PTL

\* Children are counted (hook/fork.c:78) only while they can be uncounted.
THEOREM ForkHooksAreInnermost == Spec => []CountedChildrenCanLeave
<1>1. IInv => CountedChildrenCanLeave
    BY DEF IInv, HInv
<1> QED  BY Inductive, <1>1, PTL

-----------------------------------------------------------------------------
(* The drain.                                                              *)

Drained == {"exit_sched", "fini_procfs", "destroy_cdev", "free", "gone"}

\* A removal passes the drain, and whom it leaves inside it has not seen.
DrainInv ==
    /\ outcome = "removed" => stage \in {"restore", "drain"} \cup Drained
    /\ RemovalWaitsForAgents

\* The count is zero only when no agent is counted; the others inside are late.
LEMMA DrainLoaderStep == ASSUME IInv, DrainInv, Start \/ Remove \/ Stop PROVE DrainInv'
<1> USE DEF DrainInv, RemovalWaitsForAgents, Drained, hookVars, taskVars
<1>1. CASE CreateCharDevice
    BY <1>1 DEF CreateCharDevice, Acquire, Fail
<1>2. CASE InitProcfs
    BY <1>2 DEF InitProcfs, Acquire, Fail
<1>3. CASE InitSched
    BY <1>3 DEF InitSched, Acquire, Fail
<1>4. CASE Install
    BY <1>4 DEF Install, Installed
<1>5. CASE SkipFork \/ InstallFails
    BY <1>5 DEF SkipFork, InstallFails, Installed
<1>6. CASE Remove
    BY <1>6 DEF Remove
<1>7. CASE Restore
    BY <1>7 DEF Restore
<1>8. CASE Restored
    BY <1>8 DEF Restored
<1>9. CASE Drain
  <2>1. Inside = {}
    <3>1. Cardinality(Inside) = 0
        BY <1>9 DEF Drain, IInv, CountInv
    <3> QED  BY <3>1, InsideFinite, FS_EmptySet
  <2>2. \A t \in Tasks : at[t] # "agent"
      BY <2>1 DEF Inside
  <2> QED  BY <1>9, <2>2 DEF Drain, Uncounted
<1>10. CASE ExitSched \/ FiniProcfs \/ DestroyCharDevice
    BY <1>10 DEF ExitSched, FiniProcfs, DestroyCharDevice, Release
<1>11. CASE FreeModule
    BY <1>11 DEF FreeModule
<1> QED  BY <1>1, <1>2, <1>3, <1>4, <1>5, <1>6, <1>7, <1>8, <1>9, <1>10, <1>11 DEF Start, Stop

\* A task gets inside only through a redirected switch point, and there is none
\* once they are restored.
LEMMA DrainTaskStep ==
    ASSUME IInv, DrainInv, NEW t \in Tasks, AgentStep(t) \/ Jump(t) \/ Oops(t)
    PROVE  DrainInv'
<1>1. UNCHANGED <<stage, outcome, late>>
    BY DEF AgentStep, Count, Uncount, Return, Jump, Oops, loaderVars
<1>2. ASSUME outcome = "removed", stage \in Drained,
             NEW u \in Tasks, at'[u] \in {"entering", "agent", "leaving"}
      PROVE  u \in late
  <2>1. \A p \in Points : text[p] = "kernel"
      BY <1>2 DEF IInv, HInv, HookInv, Late, Drained
  <2>2. ~Jump(t)
      BY <2>1 DEF Jump
  <2>3. at[u] \in {"entering", "agent", "leaving"}
      BY <1>2, <2>2 DEF AgentStep, Count, Uncount, Return, Oops, Move, IInv, HInv, TypeOK
  <2> QED  BY <1>2, <2>3 DEF DrainInv, RemovalWaitsForAgents, Drained
<1> QED  BY <1>1, <1>2 DEF DrainInv, RemovalWaitsForAgents, Drained

\* remove_inception (inception.c:142) waits for every agent that has counted
\* itself, whatever fails and whoever dies, and nobody comes in behind the wait.
THEOREM RemovalWaits == Spec => []RemovalWaitsForAgents
<1>1. Init => DrainInv
    BY DEF Init, DrainInv, RemovalWaitsForAgents
<1>2. IInv /\ DrainInv /\ [Next]_vars => DrainInv'
  <2> SUFFICES ASSUME IInv, DrainInv, [Next]_vars PROVE DrainInv'
      OBVIOUS
  <2>1. CASE UNCHANGED vars
      BY <2>1 DEF DrainInv, RemovalWaitsForAgents, vars
  <2> QED  BY <2>1, DrainLoaderStep, DrainTaskStep DEF Next
<1>3. DrainInv => RemovalWaitsForAgents
    BY DEF DrainInv
<1> QED  BY <1>1, <1>2, <1>3, Inductive, PTL DEF Spec

-----------------------------------------------------------------------------
(* The resources.                                                          *)

\* What can still be held at the labels of yasched_init, unless it jumped there
\* before perform_inception.
ReleaseInv ==
    /\ outcome = "none" => stage \in Early \cup {"install", "running"}
    /\ outcome # "no_init" =>
        /\ stage = "fini_procfs" => held \subseteq {"region", "cdev", "proc_root"}
        /\ stage = "destroy_cdev" => held \subseteq {"region", "cdev"}
        /\ stage \in {"free", "gone"} => held = {}

\* The labels release everything that can be held when they are reached in turn.
LEMMA ReleaseStep == ASSUME IInv, ReleaseInv, Next PROVE ReleaseInv'
<1> USE DEF ReleaseInv, Early
<1>1. held \subseteq Resources
    BY DEF IInv, HInv, TypeOK
<1>2. CASE CreateCharDevice \/ InitProcfs \/ InitSched
    BY <1>2 DEF CreateCharDevice, InitProcfs, InitSched, Acquire, Fail
<1>3. CASE Install \/ SkipFork \/ InstallFails \/ Remove
    BY <1>3 DEF Install, Installed, SkipFork, InstallFails, Remove
<1>4. CASE Restore \/ Restored \/ Drain
    BY <1>4 DEF Restore, Restored, Drain
<1>5. CASE ExitSched
    BY <1>5, <1>1 DEF ExitSched, Release, Resources
<1>6. CASE FiniProcfs \/ DestroyCharDevice
    BY <1>6 DEF FiniProcfs, DestroyCharDevice, Release
<1>7. CASE FreeModule
    BY <1>7 DEF FreeModule
<1>8. ASSUME NEW t \in Tasks, AgentStep(t) \/ Jump(t) \/ Oops(t) PROVE ReleaseInv'
    BY <1>8 DEF AgentStep, Count, Uncount, Return, Jump, Oops, loaderVars
<1> QED  BY <1>2, <1>3, <1>4, <1>5, <1>6, <1>7, <1>8 DEF Next, Start, Stop

\* A failed installation (main.c:53) and rmmod (main.c:65) give back the device,
\* the /proc directories and the caches, whatever was acquired.
THEOREM EverythingReleased == Spec => []NothingLeft
<1>1. Init => ReleaseInv
    BY DEF Init, ReleaseInv, Early
<1>2. IInv /\ ReleaseInv /\ [Next]_vars => ReleaseInv'
    BY ReleaseStep DEF ReleaseInv, vars
<1>3. ReleaseInv => NothingLeft
    BY DEF ReleaseInv, NothingLeft
<1> QED  BY <1>1, <1>2, <1>3, Inductive, PTL DEF Spec
=============================================================================
