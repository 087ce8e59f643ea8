-------------------------------- MODULE Admin --------------------------------
(***************************************************************************)
(* The way of a command from the command line of yasadmin to the job:      *)
(* subcommand and options (cli/yasadmin.c, opts.c, common.c), the device   *)
(* (cli/ioctl.c, lkm/yacdev.c), the ioctl and its mutex (lkm/user/ioctl.c),*)
(* the zone's list of jobs and its lock (lkm/sched/sched.c).  Several      *)
(* yasadmin processes run at once, jobs begin and end meanwhile, and the   *)
(* module may be removed.                                                  *)
(***************************************************************************)
EXTENDS Integers, Sequences, FiniteSets, SequencesExt

CONSTANTS
    Clients,        \* the yasadmin processes
    NoClient,       \* nobody: the holder of a free lock
    Jobs,           \* the addresses of ya_job_t objects
    NoJob,          \* the NULL job
    MaxJid,         \* bound: job ids are 0 .. MaxJid
    ULONG,          \* the number of values of an unsigned long
    CommandLines,   \* the option lists that users type
    ForcedRemoval   \* is it rmmod -f, which minds no open file?

ASSUME NoClientAssumption == NoClient \notin Clients
ASSUME NoJobAssumption == NoJob \notin Jobs
ASSUME WidthAssumption ==
    MaxJid \in Nat /\ ULONG \in Nat /\ ULONG \div 2 \in Nat \ {0} /\ MaxJid < ULONG
ASSUME CommandLinesAssumption == CommandLines \subseteq Seq([opt : STRING, form : STRING, val : Int])
ASSUME ForcedRemovalAssumption == ForcedRemoval \in BOOLEAN

VARIABLES
    pc,         \* where each client is
    jop,        \* its ya_job_op_t
    ret,        \* the value returned, "none" until it is known
    fd,         \* has it the device open (which refers to the module)?
    found,      \* the local variable "job" of kill_job, suspend_job, resume_job
    mutex,      \* the holder of ya_ioctl_mutex
    zone_lock,  \* the client that holds the zone's lock
    where,      \* of each job object: "free", "listed" in the zone, "unlisted"
    id, state,  \* job->id and job->state
    max_jid,    \* the number of job ids given out
    module,     \* "live", "going" or "gone"
    meant       \* history: what the user typed, read by the manual

clientVars == <<pc, jop, ret, fd, found, meant>>
lockVars == <<mutex, zone_lock>>
jobVars == <<where, id, state, max_jid>>
vars == <<clientVars, lockVars, jobVars, module>>

\* include/ioctl.h: job_op_t.
KILL_JOB == 0
SUSPEND_JOB == 1
RESUME_JOB == 2
UNKNOWN_CTL == 3

Goto(c, l) == pc' = [pc EXCEPT ![c] = l]

\* The client at l returns r.
GotoWith(c, l, r) == Goto(c, l) /\ ret' = [ret EXCEPT ![c] = r]

-----------------------------------------------------------------------------
(* The command line.  An option is [opt, form, val]: -z, -j or -h, anything*)
(* else being "bad"; its argument is a number, or out of a long's range,   *)
(* or text.                                                                *)

NoRequest == [op |-> "none", zone |-> 0, job |-> 0]

LONG_MAX == ULONG \div 2 - 1

\* strtol and its checks; -1 stands for an error, even if it was typed.
arg_to_ulong(o) == IF o.form = "number" /\ o.val \in -(ULONG \div 2) .. LONG_MAX THEN o.val ELSE -1

\* Mutant: the fields of ya_job_op_t are signed.
ParseOption_Signed(o, acc) ==
    LET lval == arg_to_ulong(o) IN
    IF acc.end # "no" THEN acc ELSE
    CASE o.opt \notin {"z", "j"} \/ lval = -1 -> [acc EXCEPT !.end = "EINVAL"]
      [] o.opt = "z" /\ lval # -1 -> [acc EXCEPT !.zone = lval, !.set = @ \cup {"zone"}]
      [] o.opt = "j" /\ lval # -1 -> [acc EXCEPT !.job = lval, !.set = @ \cup {"job"}]

\* One turn of the loop over getopt_long.
ParseOption(o, acc) ==
    LET lval == arg_to_ulong(o) IN
    IF acc.end # "no" THEN acc ELSE
    CASE o.opt = "h"                            -> [acc EXCEPT !.end = "help"]
      [] o.opt \notin {"h", "z", "j"}           -> [acc EXCEPT !.end = "EINVAL"]
      [] o.opt \in {"z", "j"} /\ lval = -1      -> [acc EXCEPT !.end = "EINVAL"]
      [] o.opt = "z" /\ lval # -1 ->
            [acc EXCEPT !.zone = lval % ULONG, !.set = @ \cup {"zone"}]
      [] o.opt = "j" /\ lval # -1 ->
            [acc EXCEPT !.job = lval % ULONG, !.set = @ \cup {"job"}]

\* Mutant: the first bit alone is tested.
parse_jobop_argv_AnySet(opts) ==
    LET acc == FoldLeft(LAMBDA a, o : ParseOption(o, a),
                        [end |-> "no", set |-> {}, zone |-> 0, job |-> 0], opts)
    IN  IF acc.end = "no" /\ acc.set = {} THEN [acc EXCEPT !.end = "EINVAL"] ELSE acc

(* parse_jobop_argv: both options must have been set.  The fields start    *)
(* uninitialized; nothing is sent unless both were assigned.               *)
parse_jobop_argv(opts) ==
    LET acc == FoldLeft(LAMBDA a, o : ParseOption(o, a),
                        [end |-> "no", set |-> {}, zone |-> 0, job |-> 0], opts)
    IN  IF acc.end = "no" /\ acc.set # {"zone", "job"} THEN [acc EXCEPT !.end = "EINVAL"] ELSE acc

\* suspend_job, resume_job, kill_job of yasadmin.c: the op each one sends.
jop_op(s) == CASE s = "kill" -> KILL_JOB [] s = "suspend" -> SUSPEND_JOB [] s = "resume" -> RESUME_JOB

\* How the usage text reads a list of options: both must be there, all be
\* numbers, and the last of each kind counts.
Options(opts, o) == {k \in DOMAIN opts : opts[k].opt = o}

Proper(opts) ==
    /\ Options(opts, "z") # {} /\ Options(opts, "j") # {}
    /\ \A k \in DOMAIN opts :
        /\ opts[k].opt \in {"z", "j"} /\ opts[k].form = "number"
        /\ opts[k].val \in -(ULONG \div 2) .. LONG_MAX \ {-1}

Named(opts, o) == opts[Max(Options(opts, o))].val % ULONG

\* What the user asks for: an op, a zone and a job, or nothing.
Request(s, opts) ==
    IF Proper(opts) THEN [op |-> s, zone |-> Named(opts, "z"), job |-> Named(opts, "j")] ELSE NoRequest

(* main of yasadmin.c: a job operation with good options goes on to send   *)
(* it; with any other command line yasadmin ends and nothing has happened. *)
RunYasadmin(c, s, opts) ==
    LET p == parse_jobop_argv(opts) IN
    /\ pc[c] = "idle"
    /\ p.end = "no"
    /\ jop' = [jop EXCEPT ![c] = [op |-> jop_op(s), zone_id |-> p.zone, job_id |-> p.job]]
    /\ meant' = [meant EXCEPT ![c] = Request(s, opts)]
    /\ Goto(c, "open")
    /\ UNCHANGED <<ret, fd, found, lockVars, jobVars, module>>

-----------------------------------------------------------------------------
\* Mutant: the file operations name no owner.
OpenDevice_NoOwner(c) ==
    /\ pc[c] = "open" /\ module = "live"
    /\ Goto(c, "ioctl")
    /\ UNCHANGED <<jop, ret, fd, found, meant, lockVars, jobVars, module>>

(* send_ctl opens the device; .owner = THIS_MODULE refers to the module.   *)
OpenDevice(c) ==
    /\ pc[c] = "open" /\ module = "live"
    /\ fd' = [fd EXCEPT ![c] = TRUE]
    /\ Goto(c, "ioctl")
    /\ UNCHANGED <<jop, ret, found, meant, lockVars, jobVars, module>>

\* A module that is on its way out cannot be referred to.
OpenFails(c) ==
    /\ pc[c] = "open" /\ module # "live"
    /\ GotoWith(c, "exit", "ENODEV")
    /\ UNCHANGED <<jop, fd, found, meant, lockVars, jobVars, module>>

(* yacdev_ioctl: one command at a time.                                    *)
LockMutex(c) ==
    /\ pc[c] = "ioctl" /\ mutex = NoClient
    /\ mutex' = c
    /\ Goto(c, "handle")
    /\ UNCHANGED <<jop, ret, fd, found, meant, zone_lock, jobVars, module>>

\* Mutant: the error returns from yacdev_ioctl and forgets the mutex.
HandleJobOp_KeepsMutex(c) ==
    /\ pc[c] = "handle"
    /\ IF jop[c].op \in KILL_JOB .. UNKNOWN_CTL - 1 /\ jop[c].zone_id = 0
         THEN Goto(c, "lock_zone") /\ UNCHANGED ret
         ELSE GotoWith(c, "exit", "EINVAL")
    /\ UNCHANGED <<jop, fd, found, meant, lockVars, jobVars, module>>

(* __handle_job_op, and __search_zone_by_id: there is only zone 0.         *)
HandleJobOp(c) ==
    /\ pc[c] = "handle"
    /\ IF jop[c].op \in KILL_JOB .. UNKNOWN_CTL - 1 /\ jop[c].zone_id = 0
         THEN Goto(c, "lock_zone") /\ UNCHANGED ret
         ELSE GotoWith(c, "unlock_mutex", "EINVAL")
    /\ UNCHANGED <<jop, fd, found, meant, lockVars, jobVars, module>>

LockZone(c) ==
    /\ pc[c] = "lock_zone" /\ zone_lock = NoClient
    /\ zone_lock' = c
    /\ Goto(c, "search")
    /\ UNCHANGED <<jop, ret, fd, found, meant, mutex, jobVars, module>>

Matches(c) == {j \in Jobs : where[j] = "listed" /\ id[j] = jop[c].job_id}

(* search_job_by_id, under the zone's lock.                                *)
SearchJob(c) ==
    /\ pc[c] = "search"
    /\ IF Matches(c) = {}
         THEN GotoWith(c, "unlock_zone", "EINVAL") /\ UNCHANGED found
         ELSE /\ \E j \in Matches(c) : found' = [found EXCEPT ![c] = j]
              /\ Goto(c, "apply") /\ UNCHANGED ret
    /\ UNCHANGED <<jop, fd, meant, lockVars, jobVars, module>>

\* Mutant: the table is in the order of the ioctl numbers.
job_op_funcs_ByNumber(op) == <<"suspend_job", "resume_job", "kill_job">>[op + 1]

\* user/ioctl.c: the table of functions, indexed by op; the ioctl's own
\* number plays no part.
job_op_funcs(op) == <<"kill_job", "suspend_job", "resume_job">>[op + 1]

(* __kill_job, __suspend_job, __resume_job up to their wake_up.            *)
Apply(c) ==
    LET j == found[c]
        f == job_op_funcs(jop[c].op)
        wakes == f # "suspend_job" /\ state[j] = "SUSPENDED"
    IN  /\ pc[c] = "apply"
        /\ state' = [state EXCEPT ![j] = CASE f = "kill_job" -> "KILLED"
                                           [] f = "suspend_job" -> "SUSPENDED"
                                           [] f = "resume_job" /\ wakes -> "RUNNING"
                                           [] f = "resume_job" /\ ~wakes -> @]
        /\ GotoWith(c, IF wakes THEN "wake" ELSE "unlock_zone", "ok")
        /\ UNCHANGED <<jop, fd, found, meant, lockVars, where, id, max_jid, module>>

(* wake_up(&job->suspended_threads), of which JobControl tells the rest.   *)
WakeUp(c) ==
    /\ pc[c] = "wake"
    /\ Goto(c, "unlock_zone")
    /\ UNCHANGED <<jop, ret, fd, found, meant, lockVars, jobVars, module>>

UnlockZone(c) ==
    /\ pc[c] = "unlock_zone"
    /\ zone_lock' = NoClient
    /\ found' = [found EXCEPT ![c] = NoJob]
    /\ Goto(c, "unlock_mutex")
    /\ UNCHANGED <<jop, ret, fd, meant, mutex, jobVars, module>>

UnlockMutex(c) ==
    /\ pc[c] = "unlock_mutex"
    /\ mutex' = NoClient
    /\ Goto(c, "exit")
    /\ UNCHANGED <<jop, ret, fd, found, meant, zone_lock, jobVars, module>>

(* send_ctl closes the device after a success; after a failure the exit of *)
(* the process does.                                                       *)
ExitYasadmin(c) ==
    /\ pc[c] = "exit"
    /\ fd' = [fd EXCEPT ![c] = FALSE]
    /\ meant' = [meant EXCEPT ![c] = NoRequest]
    /\ GotoWith(c, "idle", "none")
    /\ jop' = [jop EXCEPT ![c] = [op |-> UNKNOWN_CTL, zone_id |-> 0, job_id |-> 0]]
    /\ UNCHANGED <<found, lockVars, jobVars, module>>

-----------------------------------------------------------------------------
(* Jobs come and go under the zone's lock: __ya_init_job, ya_del_job.      *)

NewJob(j) ==
    /\ module # "gone" /\ zone_lock = NoClient
    /\ where[j] = "free" /\ max_jid <= MaxJid
    /\ where' = [where EXCEPT ![j] = "listed"]
    /\ id' = [id EXCEPT ![j] = max_jid]
    /\ state' = [state EXCEPT ![j] = "RUNNING"]
    /\ max_jid' = max_jid + 1
    /\ UNCHANGED <<clientVars, lockVars, module>>

\* Mutant: the deleter does not lock the zone.
UnlistJob_NoLock(j) ==
    /\ module # "gone" /\ where[j] = "listed"
    /\ where' = [where EXCEPT ![j] = "unlisted"]
    /\ UNCHANGED <<clientVars, lockVars, id, state, max_jid, module>>

(* The last member of a job leaves at any time.                            *)
UnlistJob(j) ==
    /\ module # "gone" /\ zone_lock = NoClient
    /\ where[j] = "listed"
    /\ where' = [where EXCEPT ![j] = "unlisted"]
    /\ UNCHANGED <<clientVars, lockVars, id, state, max_jid, module>>

FreeJob(j) ==
    /\ where[j] = "unlisted"
    /\ where' = [where EXCEPT ![j] = "free"]
    /\ id' = [id EXCEPT ![j] = 0]
    /\ state' = [state EXCEPT ![j] = "RUNNING"]
    /\ UNCHANGED <<clientVars, lockVars, max_jid, module>>

(* rmmod: the module must not be referred to, unless it is forced.         *)
StartRemoval ==
    /\ module = "live"
    /\ ForcedRemoval \/ \A c \in Clients : ~fd[c]
    /\ module' = "going"
    /\ UNCHANGED <<clientVars, lockVars, jobVars>>

(* The module's text is freed, after no hook runs any more (Inception).    *)
FreeText ==
    /\ module = "going"
    /\ \A j \in Jobs : where[j] # "unlisted"
    /\ module' = "gone"
    /\ UNCHANGED <<clientVars, lockVars, jobVars>>

-----------------------------------------------------------------------------
Subcommands == {"kill", "suspend", "resume"}

PC == {"idle", "open", "ioctl", "handle", "lock_zone", "search", "apply", "wake",
       "unlock_zone", "unlock_mutex", "exit"}

TypeOK ==
    /\ pc \in [Clients -> PC]
    /\ jop \in [Clients -> [op : KILL_JOB .. UNKNOWN_CTL, zone_id : 0 .. ULONG - 1, job_id : 0 .. ULONG - 1]]
    /\ ret \in [Clients -> {"none", "ok", "EINVAL", "ENODEV"}]
    /\ fd \in [Clients -> BOOLEAN]
    /\ found \in [Clients -> Jobs \cup {NoJob}]
    /\ mutex \in Clients \cup {NoClient}
    /\ zone_lock \in Clients \cup {NoClient}
    /\ where \in [Jobs -> {"free", "listed", "unlisted"}]
    /\ id \in [Jobs -> Nat]
    /\ state \in [Jobs -> {"RUNNING", "SUSPENDED", "KILLED"}]
    /\ max_jid \in Nat
    /\ module \in {"live", "going", "gone"}

Init ==
    /\ pc = [c \in Clients |-> "idle"]
    /\ jop = [c \in Clients |-> [op |-> UNKNOWN_CTL, zone_id |-> 0, job_id |-> 0]]
    /\ ret = [c \in Clients |-> "none"]
    /\ fd = [c \in Clients |-> FALSE]
    /\ found = [c \in Clients |-> NoJob]
    /\ meant = [c \in Clients |-> NoRequest]
    /\ mutex = NoClient /\ zone_lock = NoClient
    /\ where = [j \in Jobs |-> "free"]
    /\ id = [j \in Jobs |-> 0]
    /\ state = [j \in Jobs |-> "RUNNING"]
    /\ max_jid = 0
    /\ module = "live"

ClientStep(c) ==
    \/ OpenDevice(c) \/ OpenFails(c) \/ LockMutex(c) \/ HandleJobOp(c)
    \/ LockZone(c) \/ SearchJob(c) \/ Apply(c) \/ WakeUp(c)
    \/ UnlockZone(c) \/ UnlockMutex(c) \/ ExitYasadmin(c)

Next ==
    \/ \E c \in Clients :
        \/ ClientStep(c)
        \/ \E s \in Subcommands, opts \in CommandLines : RunYasadmin(c, s, opts)
    \/ \E j \in Jobs : NewJob(j) \/ UnlistJob(j) \/ FreeJob(j)
    \/ StartRemoval \/ FreeText

Spec == Init /\ [][Next]_vars

\* A client runs on, and the two locks are fair to those who wait for them.
FairSpec ==
    /\ Spec
    /\ \A c \in Clients :
        WF_vars(ClientStep(c)) /\ SF_vars(LockMutex(c)) /\ SF_vars(LockZone(c))
-----------------------------------------------------------------------------
\* The job that has the id now, if it is listed.
JobState(i) ==
    LET J == {j \in Jobs : where[j] = "listed" /\ id[j] = i}
    IN  IF J = {} THEN "none" ELSE state[CHOOSE j \in J : TRUE]

Commands == INSTANCE JobCommands WITH
    Jids <- 0 .. MaxJid,
    Numbers <- 0 .. ULONG - 1,
    serving <- (module = "live"),
    given <- 0 .. max_jid - 1,
    jobs <- [i \in 0 .. MaxJid |-> JobState(i)],
    request <- meant,
    result <- [c \in Clients |-> IF ret[c] = "none" THEN "pending" ELSE ret[c]]

(* From the command line to the job, a command takes effect at one instant,*)
(* once, on the very job that its options name, and its result tells       *)
(* whether there was one: whatever other commands, births and deaths of    *)
(* jobs and the removal of the module do between its steps.                *)
ImplementsCommands == Commands!Spec

(* What is sent is what the usage text makes of the command line, which is *)
(* proper: no field of the ya_job_op_t on the client's stack is sent       *)
(* uninitialized, swapped or truncated.                                    *)
OnlyProperSent ==
    \A c \in Clients : pc[c] # "idle" =>
        /\ meant[c].op \in Subcommands
        /\ jop[c] = [op |-> jop_op(meant[c].op), zone_id |-> meant[c].zone, job_id |-> meant[c].job]

(* The job that a command works on is still listed, so allocated, up to    *)
(* the wake_up of its wait queue, although its last member may leave at    *)
(* any time and commands hold no count of it.                              *)
CommandTouchesLiveJob ==
    \A c \in Clients :
        pc[c] \in {"apply", "wake"} => where[found[c]] = "listed" /\ id[found[c]] = jop[c].job_id

(* The module's text is not freed under an ioctl, which ya_count does not  *)
(* count, nor under an open file, whose operations lie in the module.      *)
NoIoctlInFreedText ==
    module = "gone" => \A c \in Clients :
        ~fd[c] /\ pc[c] \notin {"ioctl", "handle", "lock_zone", "search", "apply", "wake",
                                "unlock_zone", "unlock_mutex"}

(* Every command ends, on all of the ways out through the two locks.       *)
CommandEnds == \A c \in Clients : pc[c] # "idle" ~> pc[c] = "idle"
=============================================================================
