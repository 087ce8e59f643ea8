----------------------------- MODULE Admin_proofs -----------------------------
(***************************************************************************)
(* Proofs about yasadmin's commands, for any number of clients, jobs and   *)
(* ids and for any command lines: what is sent is what the usage text makes*)
(* of the command line, a command works on a job that is listed, no ioctl  *)
(* is in flight when the module's text goes, and the whole way of a command*)
(* implements JobCommands.                                                 *)
(***************************************************************************)
EXTENDS Admin, FoldLemmas, TLAPS

(* The parser: a loop over the options, which the model folds.  FoldLeft   *)
(* works on a function of sets of places, so that function comes first.    *)

\* What the loop over getopt_long starts with.
Acc0 == [end |-> "no", set |-> {}, zone |-> 0, job |-> 0]

\* g gives the result of the loop over the options at each set of places.
IsLoop(opts, D, g) ==
    g = [s \in SUBSET D |-> IF s = {} THEN Acc0 ELSE ParseOption(opts[Max(s)], g[s \ {Max(s)}])]

\* The function that the fold chooses.
Turns(opts) == CHOOSE g : IsLoop(opts, DOMAIN opts, g)

\* FoldLeft takes that function at all of the options.
LEMMA FoldIsTurns ==
    ASSUME NEW opts
    PROVE FoldLeft(LAMBDA a, o : ParseOption(o, a), Acc0, opts) = Turns(opts)[DOMAIN opts]
BY Zenon DEF FoldLeft, MapThenFoldSet, Turns, IsLoop

\* There is such a function: what it is for n + 1 options follows from n.
LEMMA LoopExists ==
    ASSUME NEW opts, NEW n \in Nat
    PROVE  \E g : IsLoop(opts, 1 .. n, g)
<1> DEFINE T == {k \in Nat : \E g : IsLoop(opts, 1 .. k, g)}
<1>1. 0 \in T
  <2> DEFINE g == [s \in SUBSET (1 .. 0) |-> Acc0]
  <2>1. \A s \in SUBSET (1 .. 0) : s = {}
      OBVIOUS
  <2>2. IsLoop(opts, 1 .. 0, g)
      BY <2>1 DEF IsLoop
  <2> QED  BY <2>2
<1>2. ASSUME NEW k \in T PROVE k + 1 \in T
  <2>1. PICK g : IsLoop(opts, 1 .. k, g)
      OBVIOUS
  <2> DEFINE h == [s \in SUBSET (1 .. k + 1) |->
                     IF k + 1 \in s THEN ParseOption(opts[k + 1], g[s \ {k + 1}]) ELSE g[s]]
  <2>2. ASSUME NEW s \in SUBSET (1 .. k + 1)
        PROVE  h[s] = IF s = {} THEN Acc0 ELSE ParseOption(opts[Max(s)], h[s \ {Max(s)}])
    <3>1. CASE k + 1 \in s
      <4>1. Max(s) = k + 1
          BY <3>1, MaxIs
      <4>2. h[s \ {k + 1}] = g[s \ {k + 1}]
          OBVIOUS
      <4> QED  BY <3>1, <4>1, <4>2
    <3>2. CASE k + 1 \notin s
      <4>1. s \in SUBSET (1 .. k)
          BY <3>2
      <4>2. h[s] = g[s]
          BY <3>2
      <4>3. g[s] = IF s = {} THEN Acc0 ELSE ParseOption(opts[Max(s)], g[s \ {Max(s)}])
          BY <2>1, <4>1 DEF IsLoop
      <4>4. h[s \ {Max(s)}] = g[s \ {Max(s)}]
          BY <3>2
      <4> QED  BY <4>2, <4>3, <4>4
    <3> QED  BY <3>1, <3>2
  <2> HIDE DEF h
  <2>3. h = [s \in SUBSET (1 .. k + 1) |-> h[s]]
      BY DEF h
  <2>4. IsLoop(opts, 1 .. k + 1, h)
      BY <2>2, <2>3 DEF IsLoop
  <2> QED  BY <2>4
<1>3. T = Nat
    BY <1>1, <1>2, NatSetInd
<1> QED  BY <1>3

\* One more option is one more turn.
LEMMA TurnsStep ==
    ASSUME NEW S, NEW opts \in Seq(S)
    PROVE  /\ Turns(opts)[1 .. 0] = Acc0
           /\ \A k \in 0 .. Len(opts) - 1 :
                Turns(opts)[1 .. k + 1] = ParseOption(opts[k + 1], Turns(opts)[1 .. k])
<1>1. DOMAIN opts = 1 .. Len(opts) /\ Len(opts) \in Nat
    OBVIOUS
<1> DEFINE g == Turns(opts)
<1>2. IsLoop(opts, 1 .. Len(opts), g)
    BY <1>1, LoopExists DEF Turns
<1>3. g[1 .. 0] = Acc0
    BY <1>1, <1>2 DEF IsLoop
<1>4. ASSUME NEW k \in 0 .. Len(opts) - 1
      PROVE  g[1 .. k + 1] = ParseOption(opts[k + 1], g[1 .. k])
  <2>1. 1 .. k + 1 \in SUBSET (1 .. Len(opts)) /\ 1 .. k + 1 # {}
    <3>1. k + 1 \in 1 .. k + 1 /\ \A n \in 1 .. k + 1 : n \in 1 .. Len(opts)
        BY <1>1
    <3> QED  BY <3>1
  <2>2. Max(1 .. k + 1) = k + 1
    <3>1. k + 1 \in 1 .. k + 1 /\ 1 .. k + 1 \in SUBSET Int /\ \A n \in 1 .. k + 1 : n <= k + 1
        OBVIOUS
    <3> QED  BY <3>1, MaxIs
  <2>3. (1 .. k + 1) \ {k + 1} = 1 .. k
      OBVIOUS
  <2> HIDE DEF g
  <2>4. g[1 .. k + 1] = ParseOption(opts[Max(1 .. k + 1)], g[(1 .. k + 1) \ {Max(1 .. k + 1)}])
      BY <1>2, <2>1 DEF IsLoop
  <2> QED  BY <2>2, <2>3, <2>4
<1> QED  BY <1>3, <1>4

\* v is the argument of the last option o among the first k.
LastIs(opts, k, o, v) ==
    \E m \in 1 .. k :
        /\ opts[m].opt = o /\ v = opts[m].val % ULONG
        /\ \A n \in 1 .. k : opts[n].opt = o => n <= m

\* An option that the usage text allows: one conjunct of Proper.
ProperOption(o) ==
    o.opt \in {"z", "j"} /\ o.form = "number" /\ o.val \in -(ULONG \div 2) .. LONG_MAX \ {-1}

\* The loop's invariant: what acc says of the first k options.
Parsed(opts, k, acc) ==
    /\ acc \in [end : {"no", "EINVAL", "help"}, set : SUBSET {"zone", "job"},
                 zone : 0 .. ULONG - 1, job : 0 .. ULONG - 1]
    /\ acc.end = "no" =>
        /\ \A m \in 1 .. k : ProperOption(opts[m])
        /\ "zone" \in acc.set => LastIs(opts, k, "z", acc.zone)
        /\ "job" \in acc.set => LastIs(opts, k, "j", acc.job)

\* What a long is to an unsigned long.
LEMMA ModIn == ASSUME NEW v \in Int PROVE v % ULONG \in 0 .. ULONG - 1
BY WidthAssumption

\* A turn that assigns one of the two fields keeps the invariant.
LEMMA ParsedSet ==
    ASSUME NEW opts, NEW k \in Nat, NEW acc, Parsed(opts, k, acc), acc.end = "no",
           ProperOption(opts[k + 1]), NEW new, NEW v \in 0 .. ULONG - 1, LastIs(opts, k + 1, opts[k + 1].opt, v),
           \/ opts[k + 1].opt = "z" /\ new = [acc EXCEPT !.zone = v, !.set = @ \cup {"zone"}]
           \/ opts[k + 1].opt = "j" /\ new = [acc EXCEPT !.job = v, !.set = @ \cup {"job"}]
    PROVE  Parsed(opts, k + 1, new)
<1>1. \A m \in 1 .. k + 1 : m \in 1 .. k \/ m = k + 1
    OBVIOUS
<1>2. \A m \in 1 .. k + 1 : ProperOption(opts[m])
    BY <1>1 DEF Parsed
<1>3. ASSUME NEW o, NEW w, o # opts[k + 1].opt, LastIs(opts, k, o, w) PROVE LastIs(opts, k + 1, o, w)
    BY <1>1, <1>3 DEF LastIs
<1>4. acc \in [end : {"no", "EINVAL", "help"}, set : SUBSET {"zone", "job"},
               zone : 0 .. ULONG - 1, job : 0 .. ULONG - 1]
    BY DEF Parsed
<1>5. CASE opts[k + 1].opt = "z" /\ new = [acc EXCEPT !.zone = v, !.set = @ \cup {"zone"}]
  <2>1. new \in [end : {"no", "EINVAL", "help"}, set : SUBSET {"zone", "job"},
                 zone : 0 .. ULONG - 1, job : 0 .. ULONG - 1]
      BY <1>4, <1>5
  <2>2. new.zone = v /\ new.job = acc.job /\ ("job" \in new.set => "job" \in acc.set)
      BY <1>4, <1>5
  <2>3. "job" \in acc.set => LastIs(opts, k + 1, "j", acc.job)
      BY <1>3, <1>5 DEF Parsed
  <2>4. LastIs(opts, k + 1, "z", v)
      BY <1>5
  <2> QED  BY <1>2, <2>1, <2>2, <2>3, <2>4 DEF Parsed
<1>6. CASE opts[k + 1].opt = "j" /\ new = [acc EXCEPT !.job = v, !.set = @ \cup {"job"}]
  <2>1. new \in [end : {"no", "EINVAL", "help"}, set : SUBSET {"zone", "job"},
                 zone : 0 .. ULONG - 1, job : 0 .. ULONG - 1]
      BY <1>4, <1>6
  <2>2. new.job = v /\ new.zone = acc.zone /\ ("zone" \in new.set => "zone" \in acc.set)
      BY <1>4, <1>6
  <2>3. "zone" \in acc.set => LastIs(opts, k + 1, "z", acc.zone)
      BY <1>3, <1>6 DEF Parsed
  <2>4. LastIs(opts, k + 1, "j", v)
      BY <1>6
  <2> QED  BY <1>2, <2>1, <2>2, <2>3, <2>4 DEF Parsed
<1> QED  BY <1>5, <1>6

\* Every turn keeps it.
LEMMA ParsedStep ==
    ASSUME NEW opts \in Seq([opt : STRING, form : STRING, val : Int]), NEW k \in 0 .. Len(opts) - 1,
           NEW acc, Parsed(opts, k, acc)
    PROVE  Parsed(opts, k + 1, ParseOption(opts[k + 1], acc))
<1> DEFINE o == opts[k + 1]
           new == ParseOption(o, acc)
<1>1. CASE acc.end # "no"
    BY <1>1 DEF Parsed, ParseOption
<1>2. CASE acc.end = "no" /\ ~ProperOption(o)
  <2>1. new = [acc EXCEPT !.end = "help"] \/ new = [acc EXCEPT !.end = "EINVAL"]
      BY <1>2, WidthAssumption DEF ParseOption, ProperOption, arg_to_ulong
  <2> QED  BY <2>1 DEF Parsed
<1>3. CASE acc.end = "no" /\ ProperOption(o)
  <2>1. o.val \in Int /\ k \in Nat
      BY <1>3, WidthAssumption DEF ProperOption, LONG_MAX
  <2>2. PICK v \in 0 .. ULONG - 1 : v = o.val % ULONG
      BY <2>1, ModIn
  <2>3. LastIs(opts, k + 1, o.opt, v)
      BY <2>2 DEF LastIs
  <2>4. CASE o.opt = "z"
    <3>1. new = [acc EXCEPT !.zone = v, !.set = @ \cup {"zone"}]
        BY <1>3, <2>2, <2>4 DEF ParseOption, ProperOption, arg_to_ulong
    <3> QED  BY <1>3, <2>1, <2>3, <2>4, <3>1, ParsedSet
  <2>5. CASE o.opt = "j"
    <3>1. new = [acc EXCEPT !.job = v, !.set = @ \cup {"job"}]
        BY <1>3, <2>2, <2>5 DEF ParseOption, ProperOption, arg_to_ulong
    <3> QED  BY <1>3, <2>1, <2>3, <2>5, <3>1, ParsedSet
  <2> QED  BY <1>3, <2>4, <2>5 DEF ProperOption
<1> QED  BY <1>1, <1>2, <1>3

\* It holds when the options are used up.
LEMMA ParsedAll ==
    ASSUME NEW opts \in CommandLines
    PROVE  Parsed(opts, Len(opts), Turns(opts)[DOMAIN opts])
<1>1. opts \in Seq([opt : STRING, form : STRING, val : Int])
    BY CommandLinesAssumption
<1>2. Len(opts) \in Nat /\ DOMAIN opts = 1 .. Len(opts)
    BY <1>1
<1> DEFINE g == Turns(opts)
           T == {k \in Nat : k <= Len(opts) => Parsed(opts, k, g[1 .. k])}
<1>3. 0 \in T
  <2>1. g[1 .. 0] = Acc0
      BY <1>1, TurnsStep
  <2> QED  BY <2>1, WidthAssumption DEF Parsed, Acc0
<1>4. ASSUME NEW k \in T PROVE k + 1 \in T
  <2>1. SUFFICES ASSUME k + 1 <= Len(opts) PROVE Parsed(opts, k + 1, g[1 .. k + 1])
      OBVIOUS
  <2>2. k \in 0 .. Len(opts) - 1 /\ Parsed(opts, k, g[1 .. k])
      BY <1>2, <2>1
  <2>3. g[1 .. k + 1] = ParseOption(opts[k + 1], g[1 .. k])
      BY <1>1, <2>2, TurnsStep
  <2> HIDE DEF g
  <2> QED  BY <1>1, <2>2, <2>3, ParsedStep
<1>5. T = Nat
  <2> HIDE DEF T
  <2> QED  BY <1>3, <1>4, NatSetInd DEF T
<1> QED  BY <1>2, <1>5

(* parse_jobop_argv lets proper command lines through and no others, and  *)
(* reads the zone and the job off them as the usage text does.             *)
LEMMA ParserReads ==
    ASSUME NEW opts \in CommandLines, NEW p, p = parse_jobop_argv(opts), p.end = "no"
    PROVE  /\ Proper(opts)
           /\ p.zone = Named(opts, "z") /\ p.job = Named(opts, "j")
           /\ p.zone \in 0 .. ULONG - 1 /\ p.job \in 0 .. ULONG - 1
<1> DEFINE acc == Turns(opts)[DOMAIN opts]
<1>1. opts \in Seq([opt : STRING, form : STRING, val : Int])
    BY CommandLinesAssumption
<1>2. Len(opts) \in Nat /\ DOMAIN opts = 1 .. Len(opts)
    BY <1>1
<1>3. Parsed(opts, Len(opts), acc)
    BY ParsedAll
<1>4. p = IF acc.end = "no" /\ acc.set # {"zone", "job"} THEN [acc EXCEPT !.end = "EINVAL"] ELSE acc
  <2> DEFINE f == FoldLeft(LAMBDA a, o : ParseOption(o, a), Acc0, opts)
  <2>1. f = acc
      BY FoldIsTurns, Zenon
  <2>2. p = IF f.end = "no" /\ f.set # {"zone", "job"} THEN [f EXCEPT !.end = "EINVAL"] ELSE f
      BY Zenon DEF parse_jobop_argv, Acc0
  <2> HIDE DEF f, acc
  <2> QED  BY <2>1, <2>2
<1> HIDE DEF acc
<1>5. p = acc /\ acc.end = "no" /\ acc.set = {"zone", "job"}
    BY <1>3, <1>4 DEF Parsed
<1>6. ASSUME NEW o, NEW v, LastIs(opts, Len(opts), o, v)
      PROVE  Options(opts, o) # {} /\ v = Named(opts, o)
  <2>1. PICK m \in 1 .. Len(opts) :
          /\ opts[m].opt = o /\ v = opts[m].val % ULONG
          /\ \A n \in 1 .. Len(opts) : opts[n].opt = o => n <= m
      BY <1>6 DEF LastIs
  <2>2. m \in Options(opts, o) /\ Options(opts, o) \in SUBSET Int /\ \A n \in Options(opts, o) : n <= m
      BY <1>2, <2>1 DEF Options
  <2>3. Max(Options(opts, o)) = m
      BY <2>2, MaxIs
  <2> QED  BY <2>1, <2>2, <2>3 DEF Named
<1> QED  BY <1>2, <1>3, <1>5, <1>6 DEF Parsed, Proper, ProperOption
-----------------------------------------------------------------------------

\* The types, and what __handle_job_op has checked: the table of functions
\* has an entry for the op.
Types ==
    /\ pc \in [Clients -> PC]
    /\ jop \in [Clients -> [op : KILL_JOB .. UNKNOWN_CTL, zone_id : 0 .. ULONG - 1, job_id : 0 .. ULONG - 1]]
    /\ ret \in [Clients -> {"none", "ok", "EINVAL", "ENODEV"}]
    /\ fd \in [Clients -> BOOLEAN]
    /\ found \in [Clients -> Jobs \cup {NoJob}]
    /\ meant = [c \in Clients |-> meant[c]]
    /\ mutex \in Clients \cup {NoClient}
    /\ zone_lock \in Clients \cup {NoClient}
    /\ where \in [Jobs -> {"free", "listed", "unlisted"}]
    /\ id \in [Jobs -> Nat]
    /\ state \in [Jobs -> {"RUNNING", "SUSPENDED", "KILLED"}]
    /\ max_jid \in 0 .. MaxJid + 1
    /\ module \in {"live", "going", "gone"}
    /\ \A c \in Clients :
        pc[c] \in {"lock_zone", "search", "apply"} => jop[c].op \in KILL_JOB .. UNKNOWN_CTL - 1

\* Who is between lock_ya_zone and unlock_ya_zone, and on what job.
HoldsZone(c) == pc[c] \in {"search", "apply", "wake", "unlock_zone"}

LockInv ==
    \A c \in Clients :
        /\ HoldsZone(c) <=> zone_lock = c
        /\ pc[c] \in {"apply", "wake"} =>
            found[c] \in Jobs /\ where[found[c]] = "listed" /\ id[found[c]] = jop[c].job_id

\* A client that is inside the module's text.
InText(c) ==
    pc[c] \in {"ioctl", "handle", "lock_zone", "search", "apply", "wake", "unlock_zone", "unlock_mutex"}

FileInv == \A c \in Clients : (InText(c) => fd[c]) /\ (fd[c] => module = "live")

\* At the start nobody holds anything.
LEMMA InitInv == Init => Types /\ LockInv /\ FileInv
BY NoClientAssumption, WidthAssumption
   DEF Init, Types, LockInv, FileInv, HoldsZone, InText, PC, KILL_JOB, UNKNOWN_CTL

\* What the parser delivers has the types of ya_job_op_t.
LEMMA SentTypes ==
    ASSUME NEW c \in Clients, NEW s \in Subcommands, NEW opts \in CommandLines, RunYasadmin(c, s, opts)
    PROVE  /\ jop' = [jop EXCEPT ![c] = [op |-> jop_op(s), zone_id |-> Named(opts, "z"),
                                         job_id |-> Named(opts, "j")]]
           /\ meant' = [meant EXCEPT ![c] = [op |-> s, zone |-> Named(opts, "z"), job |-> Named(opts, "j")]]
           /\ jop_op(s) \in KILL_JOB .. UNKNOWN_CTL
           /\ Named(opts, "z") \in 0 .. ULONG - 1 /\ Named(opts, "j") \in 0 .. ULONG - 1
<1> DEFINE p == parse_jobop_argv(opts)
<1>1. p.end = "no" /\ jop' = [jop EXCEPT ![c] = [op |-> jop_op(s), zone_id |-> p.zone, job_id |-> p.job]]
    BY DEF RunYasadmin
<1>2. /\ Proper(opts)
      /\ p.zone = Named(opts, "z") /\ p.job = Named(opts, "j")
      /\ p.zone \in 0 .. ULONG - 1 /\ p.job \in 0 .. ULONG - 1
    BY <1>1, ParserReads
<1>3. jop_op(s) \in KILL_JOB .. UNKNOWN_CTL
    BY DEF Subcommands, jop_op, KILL_JOB, SUSPEND_JOB, RESUME_JOB, UNKNOWN_CTL
<1>4. meant' = [meant EXCEPT ![c] = [op |-> s, zone |-> Named(opts, "z"), job |-> Named(opts, "j")]]
    BY <1>2 DEF RunYasadmin, Request
<1> HIDE DEF p
<1> QED  BY <1>1, <1>2, <1>3, <1>4

\* The types are kept.
LEMMA TypesStep == Types /\ [Next]_vars => Types'
<1> SUFFICES ASSUME Types, [Next]_vars PROVE Types'
    OBVIOUS
<1> USE DEF Types
<1>1. ASSUME NEW c \in Clients, ClientStep(c) PROVE Types'
  <2> USE DEF Goto, GotoWith, lockVars, jobVars
  <2>1. CASE OpenDevice(c)   BY <2>1 DEF OpenDevice, PC
  <2>2. CASE OpenFails(c)    BY <2>2 DEF OpenFails, PC
  <2>3. CASE LockMutex(c)    BY <2>3 DEF LockMutex, PC
  <2>4. CASE HandleJobOp(c)  BY <2>4 DEF HandleJobOp, PC
  <2>5. CASE LockZone(c)     BY <2>5 DEF LockZone, PC
  <2>6. CASE SearchJob(c)    BY <2>6 DEF SearchJob, Matches, PC
  <2>7. CASE Apply(c)
    <3>1. job_op_funcs(jop[c].op) \in {"kill_job", "suspend_job", "resume_job"}
        BY <2>7 DEF Apply, job_op_funcs, KILL_JOB, UNKNOWN_CTL
    <3>2. state' \in [Jobs -> {"RUNNING", "SUSPENDED", "KILLED"}]
        BY <2>7, <3>1 DEF Apply
    <3> QED  BY <2>7, <3>2 DEF Apply, PC
  <2>8. CASE WakeUp(c)       BY <2>8 DEF WakeUp, PC
  <2>9. CASE UnlockZone(c)   BY <2>9 DEF UnlockZone, PC
  <2>10. CASE UnlockMutex(c) BY <2>10 DEF UnlockMutex, PC
  <2>11. CASE ExitYasadmin(c)
    <3>1. [op |-> UNKNOWN_CTL, zone_id |-> 0, job_id |-> 0]
            \in [op : KILL_JOB .. UNKNOWN_CTL, zone_id : 0 .. ULONG - 1, job_id : 0 .. ULONG - 1]
        BY WidthAssumption DEF KILL_JOB, UNKNOWN_CTL
    <3>2. jop' \in [Clients -> [op : KILL_JOB .. UNKNOWN_CTL, zone_id : 0 .. ULONG - 1, job_id : 0 .. ULONG - 1]]
        BY <2>11, <3>1 DEF ExitYasadmin
    <3>3. \A d \in Clients : pc'[d] \in {"lock_zone", "search", "apply"} =>
            pc'[d] = pc[d] /\ jop'[d] = jop[d]
        BY <2>11 DEF ExitYasadmin
    <3> QED  BY <2>11, <3>2, <3>3 DEF ExitYasadmin, PC
  <2> QED  BY <1>1, <2>1, <2>2, <2>3, <2>4, <2>5, <2>6, <2>7, <2>8, <2>9, <2>10, <2>11 DEF ClientStep
<1>2. ASSUME NEW c \in Clients, NEW s \in Subcommands, NEW opts \in CommandLines, RunYasadmin(c, s, opts)
      PROVE  Types'
  <2>1. jop' \in [Clients -> [op : KILL_JOB .. UNKNOWN_CTL, zone_id : 0 .. ULONG - 1, job_id : 0 .. ULONG - 1]]
      BY <1>2, SentTypes
  <2>2. /\ pc' = [pc EXCEPT ![c] = "open"] /\ meant' = [meant EXCEPT ![c] = Request(s, opts)]
        /\ UNCHANGED <<ret, fd, found, lockVars, jobVars, module>>
      BY <1>2 DEF RunYasadmin, Goto
  <2>3. \A d \in Clients : d # c => pc'[d] = pc[d] /\ jop'[d] = jop[d]
      BY <1>2, <2>2, SentTypes
  <2> QED  BY <2>1, <2>2, <2>3 DEF lockVars, jobVars, PC
<1>3. ASSUME NEW j \in Jobs, NewJob(j) \/ UnlistJob(j) \/ FreeJob(j) PROVE Types'
  <2> USE DEF clientVars, lockVars
  <2>1. CASE NewJob(j)    BY <2>1, WidthAssumption DEF NewJob
  <2>2. CASE UnlistJob(j) BY <2>2 DEF UnlistJob
  <2>3. CASE FreeJob(j)   BY <2>3 DEF FreeJob
  <2> QED  BY <1>3, <2>1, <2>2, <2>3
<1>4. CASE StartRemoval \/ FreeText
    BY <1>4 DEF StartRemoval, FreeText, clientVars, lockVars, jobVars
<1>5. CASE UNCHANGED vars
    BY <1>5 DEF vars, clientVars, lockVars, jobVars
<1> QED  BY <1>1, <1>2, <1>3, <1>4, <1>5 DEF Next

(* The fields of the ya_job_op_t on every client's stack are unsigned longs*)
(* and an op, whatever was typed; ids, states and locks have their types.  *)
THEOREM TypeCorrect == Spec => []TypeOK
<1>1. Types => TypeOK
    BY WidthAssumption DEF Types, TypeOK
<1> QED  BY InitInv, TypesStep, <1>1, PTL DEF Spec

\* What a client has sent stays, with what its user meant, to its exit.
LEMMA SentStep == Types /\ OnlyProperSent /\ [Next]_vars => OnlyProperSent'
<1> SUFFICES ASSUME Types, OnlyProperSent, [Next]_vars PROVE OnlyProperSent'
    OBVIOUS
<1>1. ASSUME NEW c \in Clients, ClientStep(c), ~ExitYasadmin(c) PROVE OnlyProperSent'
  <2>1. pc[c] # "idle" /\ UNCHANGED <<jop, meant>> /\ \A d \in Clients : d # c => pc'[d] = pc[d]
      BY <1>1 DEF ClientStep, OpenDevice, OpenFails, LockMutex, HandleJobOp, LockZone, SearchJob, Apply,
                  WakeUp, UnlockZone, UnlockMutex, Goto, GotoWith, Types
  <2> QED  BY <2>1 DEF OnlyProperSent
<1>2. ASSUME NEW c \in Clients, ExitYasadmin(c) PROVE OnlyProperSent'
    BY <1>2 DEF ExitYasadmin, GotoWith, Goto, OnlyProperSent, Types
<1>3. ASSUME NEW c \in Clients, NEW s \in Subcommands, NEW opts \in CommandLines, RunYasadmin(c, s, opts)
      PROVE  OnlyProperSent'
  <2>1. pc' = [pc EXCEPT ![c] = "open"]
      BY <1>3 DEF RunYasadmin, Goto
  <2>2. \A d \in Clients : d # c => pc'[d] = pc[d] /\ jop'[d] = jop[d] /\ meant'[d] = meant[d]
      BY <1>3, <2>1, SentTypes DEF Types
  <2>3. /\ jop'[c] = [op |-> jop_op(s), zone_id |-> Named(opts, "z"), job_id |-> Named(opts, "j")]
        /\ meant'[c] = [op |-> s, zone |-> Named(opts, "z"), job |-> Named(opts, "j")]
      BY <1>3, SentTypes DEF Types
  <2> QED  BY <2>2, <2>3 DEF OnlyProperSent
<1>4. CASE UNCHANGED <<pc, jop, meant>>
    BY <1>4 DEF OnlyProperSent
<1> QED
    BY <1>1, <1>2, <1>3, <1>4
       DEF Next, NewJob, UnlistJob, FreeJob, StartRemoval, FreeText, vars, clientVars

(* What is sent is what the usage text makes of the command line: no field *)
(* is sent uninitialized, swapped or truncated.                            *)
THEOREM SentIsProper == Spec => []OnlyProperSent
<1>1. Init => OnlyProperSent
    BY DEF Init, OnlyProperSent
<1>2. Types /\ OnlyProperSent /\ [Next]_vars => (Types /\ OnlyProperSent)'
    BY TypesStep, SentStep
<1> QED  BY InitInv, <1>1, <1>2, PTL DEF Spec

\* The zone's lock keeps the job that a command has found on the list.
LEMMA LockStep == Types /\ LockInv /\ [Next]_vars => LockInv'
<1> SUFFICES ASSUME Types, LockInv, [Next]_vars PROVE LockInv'
    OBVIOUS
<1> USE NoClientAssumption DEF Types, LockInv, HoldsZone
<1>1. ASSUME NEW c \in Clients, ClientStep(c) PROVE LockInv'
  <2> USE DEF Goto, GotoWith, lockVars, jobVars
  <2>1. CASE OpenDevice(c)   BY <2>1 DEF OpenDevice
  <2>2. CASE OpenFails(c)    BY <2>2 DEF OpenFails
  <2>3. CASE LockMutex(c)    BY <2>3 DEF LockMutex
  <2>4. CASE HandleJobOp(c)  BY <2>4 DEF HandleJobOp
  <2>5. CASE LockZone(c)     BY <2>5 DEF LockZone
  <2>6. CASE SearchJob(c)    BY <2>6 DEF SearchJob, Matches
  <2>7. CASE Apply(c)        BY <2>7 DEF Apply
  <2>8. CASE WakeUp(c)       BY <2>8 DEF WakeUp
  <2>9. CASE UnlockZone(c)   BY <2>9 DEF UnlockZone
  <2>10. CASE UnlockMutex(c) BY <2>10 DEF UnlockMutex
  <2>11. CASE ExitYasadmin(c) BY <2>11 DEF ExitYasadmin
  <2> QED  BY <1>1, <2>1, <2>2, <2>3, <2>4, <2>5, <2>6, <2>7, <2>8, <2>9, <2>10, <2>11 DEF ClientStep
<1>2. ASSUME NEW c \in Clients, NEW s, NEW opts, RunYasadmin(c, s, opts) PROVE LockInv'
    BY <1>2 DEF RunYasadmin, Goto, lockVars, jobVars
<1>3. ASSUME NEW j \in Jobs, NewJob(j) \/ UnlistJob(j) \/ FreeJob(j) PROVE LockInv'
    BY <1>3 DEF NewJob, UnlistJob, FreeJob, clientVars, lockVars
<1>4. CASE StartRemoval \/ FreeText
    BY <1>4 DEF StartRemoval, FreeText, clientVars, lockVars, jobVars
<1>5. CASE UNCHANGED vars
    BY <1>5 DEF vars, clientVars, lockVars, jobVars
<1> QED  BY <1>1, <1>2, <1>3, <1>4, <1>5 DEF Next

(* The job that a command works on stays listed up to its wake_up.         *)
THEOREM CommandsTouchLiveJobs == Spec => []CommandTouchesLiveJob
<1>1. Types /\ LockInv => CommandTouchesLiveJob
    BY DEF LockInv, CommandTouchesLiveJob
<1>2. Types /\ LockInv /\ [Next]_vars => (Types /\ LockInv)'
    BY TypesStep, LockStep
<1> QED  BY InitInv, <1>1, <1>2, PTL DEF Spec

\* An open file refers to the module, and an ioctl has an open file.
LEMMA FileStep == ~ForcedRemoval /\ Types /\ FileInv /\ [Next]_vars => FileInv'
<1> SUFFICES ASSUME ~ForcedRemoval, Types, FileInv, [Next]_vars PROVE FileInv'
    OBVIOUS
<1> USE DEF Types, FileInv, InText
<1>1. ASSUME NEW c \in Clients, ClientStep(c) PROVE FileInv'
  <2> USE DEF Goto, GotoWith, lockVars, jobVars
  <2>1. CASE OpenDevice(c)   BY <2>1 DEF OpenDevice
  <2>2. CASE OpenFails(c)    BY <2>2 DEF OpenFails
  <2>3. CASE LockMutex(c)    BY <2>3 DEF LockMutex
  <2>4. CASE HandleJobOp(c)  BY <2>4 DEF HandleJobOp
  <2>5. CASE LockZone(c)     BY <2>5 DEF LockZone
  <2>6. CASE SearchJob(c)    BY <2>6 DEF SearchJob
  <2>7. CASE Apply(c)        BY <2>7 DEF Apply
  <2>8. CASE WakeUp(c)       BY <2>8 DEF WakeUp
  <2>9. CASE UnlockZone(c)   BY <2>9 DEF UnlockZone
  <2>10. CASE UnlockMutex(c) BY <2>10 DEF UnlockMutex
  <2>11. CASE ExitYasadmin(c) BY <2>11 DEF ExitYasadmin
  <2> QED  BY <1>1, <2>1, <2>2, <2>3, <2>4, <2>5, <2>6, <2>7, <2>8, <2>9, <2>10, <2>11 DEF ClientStep
<1>2. ASSUME NEW c \in Clients, NEW s, NEW opts, RunYasadmin(c, s, opts) PROVE FileInv'
    BY <1>2 DEF RunYasadmin, Goto, lockVars, jobVars
<1>3. ASSUME NEW j \in Jobs, NewJob(j) \/ UnlistJob(j) \/ FreeJob(j) PROVE FileInv'
    BY <1>3 DEF NewJob, UnlistJob, FreeJob, clientVars, lockVars
<1>4. CASE StartRemoval \/ FreeText
    BY <1>4 DEF StartRemoval, FreeText, clientVars, lockVars, jobVars
<1>5. CASE UNCHANGED vars
    BY <1>5 DEF vars, clientVars, lockVars, jobVars
<1> QED  BY <1>1, <1>2, <1>3, <1>4, <1>5 DEF Next

(* A removal that is not forced frees the text under no ioctl.             *)
THEOREM TextOutlivesIoctls == ~ForcedRemoval => (Spec => []NoIoctlInFreedText)
<1> SUFFICES ASSUME ~ForcedRemoval PROVE Spec => []NoIoctlInFreedText
    OBVIOUS
<1>1. Types /\ FileInv => NoIoctlInFreedText
    BY DEF Types, FileInv, InText, NoIoctlInFreedText
<1>2. Types /\ FileInv /\ [Next]_vars => (Types /\ FileInv)'
    BY TypesStep, FileStep
<1> QED  BY InitInv, <1>1, <1>2, PTL DEF Spec
-----------------------------------------------------------------------------
(* The refinement.                                                         *)

\* Before the command has taken effect or failed.
Asked(c) == pc[c] \in {"idle", "open", "ioctl", "handle", "lock_zone", "search", "apply"}

CommandInv ==
    \A c \in Clients :
        /\ pc[c] = "idle" => meant[c] = NoRequest
        /\ ret[c] = "none" <=> Asked(c)
        /\ pc[c] \in {"lock_zone", "search", "apply"} => jop[c].zone_id = 0

\* No two listed jobs share an id.
IdInv ==
    \A j \in Jobs : where[j] = "listed" =>
        /\ id[j] < max_jid
        /\ \A k \in Jobs : where[k] = "listed" /\ id[k] = id[j] => k = j

\* At the start no job has an id.
LEMMA InitCommandInv == Init => CommandInv /\ IdInv
BY DEF Init, CommandInv, IdInv, Asked

\* The client's place tells how far its command is.
LEMMA CommandStep == Types /\ CommandInv /\ [Next]_vars => CommandInv'
<1> SUFFICES ASSUME Types, CommandInv, [Next]_vars PROVE CommandInv'
    OBVIOUS
<1> USE DEF Types, CommandInv, Asked
<1>1. ASSUME NEW c \in Clients, ClientStep(c) PROVE CommandInv'
  <2> USE DEF Goto, GotoWith, lockVars, jobVars
  <2>1. CASE OpenDevice(c)   BY <2>1 DEF OpenDevice
  <2>2. CASE OpenFails(c)    BY <2>2 DEF OpenFails
  <2>3. CASE LockMutex(c)    BY <2>3 DEF LockMutex
  <2>4. CASE HandleJobOp(c)  BY <2>4 DEF HandleJobOp
  <2>5. CASE LockZone(c)     BY <2>5 DEF LockZone
  <2>6. CASE SearchJob(c)    BY <2>6 DEF SearchJob
  <2>7. CASE Apply(c)        BY <2>7 DEF Apply
  <2>8. CASE WakeUp(c)       BY <2>8 DEF WakeUp
  <2>9. CASE UnlockZone(c)   BY <2>9 DEF UnlockZone
  <2>10. CASE UnlockMutex(c) BY <2>10 DEF UnlockMutex
  <2>11. CASE ExitYasadmin(c) BY <2>11 DEF ExitYasadmin
  <2> QED  BY <1>1, <2>1, <2>2, <2>3, <2>4, <2>5, <2>6, <2>7, <2>8, <2>9, <2>10, <2>11 DEF ClientStep
<1>2. ASSUME NEW c \in Clients, NEW s, NEW opts, RunYasadmin(c, s, opts) PROVE CommandInv'
    BY <1>2 DEF RunYasadmin, Goto, lockVars, jobVars
<1>3. ASSUME NEW j \in Jobs, NewJob(j) \/ UnlistJob(j) \/ FreeJob(j) PROVE CommandInv'
    BY <1>3 DEF NewJob, UnlistJob, FreeJob, clientVars, lockVars
<1>4. CASE StartRemoval \/ FreeText
    BY <1>4 DEF StartRemoval, FreeText, clientVars, lockVars, jobVars
<1>5. CASE UNCHANGED vars
    BY <1>5 DEF vars, clientVars, lockVars, jobVars
<1> QED  BY <1>1, <1>2, <1>3, <1>4, <1>5 DEF Next

\* Clients leave the jobs' ids and places alone.
LEMMA ClientsKeepIds ==
    ASSUME NEW c \in Clients, ClientStep(c)
    PROVE  UNCHANGED <<where, id, max_jid>>
BY DEF ClientStep, OpenDevice, OpenFails, LockMutex, HandleJobOp, LockZone, SearchJob, Apply,
       WakeUp, UnlockZone, UnlockMutex, ExitYasadmin, lockVars, jobVars

\* Ids are given in ascending order, so never twice.
LEMMA IdStep == Types /\ IdInv /\ [Next]_vars => IdInv'
<1> SUFFICES ASSUME Types, IdInv, [Next]_vars PROVE IdInv'
    OBVIOUS
<1>1. CASE UNCHANGED <<where, id, max_jid>>
    BY <1>1 DEF IdInv
<1>2. ASSUME NEW j \in Jobs, NewJob(j) PROVE IdInv'
    BY <1>2, WidthAssumption DEF NewJob, IdInv, Types
<1>3. ASSUME NEW j \in Jobs, UnlistJob(j) \/ FreeJob(j) PROVE IdInv'
    BY <1>3 DEF UnlistJob, FreeJob, IdInv, Types
<1> QED
    BY <1>1, <1>2, <1>3, ClientsKeepIds
       DEF Next, RunYasadmin, StartRemoval, FreeText, vars, clientVars, lockVars, jobVars

\* The state of the job with id i, as a function of the three fields.
Holders(w, n, i) == {j \in Jobs : w[j] = "listed" /\ n[j] = i}

Lookup(w, n, s, i) ==
    IF Holders(w, n, i) = {} THEN "none" ELSE s[CHOOSE j \in Holders(w, n, i) : TRUE]

\* An id that one listed job has leads to that job.
LEMMA LookupListed ==
    ASSUME NEW w, NEW n, NEW s, NEW i, NEW j, Holders(w, n, i) = {j}
    PROVE  Lookup(w, n, s, i) = s[j]
<1>1. (CHOOSE k \in {j} : TRUE) = j
    OBVIOUS
<1> QED  BY <1>1 DEF Lookup

\* An id that no listed job has leads nowhere.
LEMMA LookupNone ==
    ASSUME NEW w, NEW n, NEW s, NEW i, Holders(w, n, i) = {}
    PROVE  Lookup(w, n, s, i) = "none"
BY DEF Lookup

\* Two states with the same listed jobs under i agree on it.
LEMMA LookupSame ==
    ASSUME NEW w, NEW n, NEW s, NEW v, NEW m, NEW r, NEW i,
           Holders(w, n, i) = Holders(v, m, i),
           \A j \in Holders(w, n, i) : s[j] = r[j]
    PROVE  Lookup(w, n, s, i) = Lookup(v, m, r, i)
<1> DEFINE J == Holders(w, n, i)
<1>1. J # {} => (CHOOSE j \in J : TRUE) \in J
    OBVIOUS
<1> QED  BY <1>1 DEF Lookup

\* What JobCommands sees of the jobs and of the results.
jobsBar == [i \in 0 .. MaxJid |-> JobState(i)]
resultBar == [c \in Clients |-> IF ret[c] = "none" THEN "pending" ELSE ret[c]]

\* The two states of JobState.
LEMMA JobStateIsLookup ==
    /\ \A i : JobState(i) = Lookup(where, id, state, i)
    /\ \A i : JobState(i)' = Lookup(where', id', state', i)
BY DEF JobState, Lookup, Holders

\* The jobs that JobCommands sees stay as they are.
LEMMA JobsBarSame ==
    ASSUME UNCHANGED <<where, id, state>>
    PROVE  jobsBar' = jobsBar
BY DEF jobsBar, JobState

\* Whether a client's request names a job that is there.
LEMMA ExistsIsListed ==
    ASSUME NEW c \in Clients, TypeOK, Types, IdInv, meant[c].zone = 0, meant[c].job = jop[c].job_id
    PROVE  /\ Matches(c) = {} => ~Commands!Exists(meant[c])
           /\ \A j \in Matches(c) :
                /\ Commands!Exists(meant[c])
                /\ id[j] \in 0 .. MaxJid
                /\ JobState(id[j]) = state[j]
<1>1. ASSUME Matches(c) = {} PROVE ~Commands!Exists(meant[c])
  <2>1. JobState(jop[c].job_id) = "none"
      BY <1>1, LookupNone, JobStateIsLookup DEF Matches, Holders
  <2> QED  BY <2>1 DEF Commands!Exists
<1>2. ASSUME NEW j \in Matches(c)
      PROVE  /\ Commands!Exists(meant[c])
             /\ id[j] \in 0 .. MaxJid
             /\ JobState(id[j]) = state[j]
  <2>1. j \in Jobs /\ where[j] = "listed" /\ id[j] = jop[c].job_id
      BY <1>2 DEF Matches
  <2>2. Holders(where, id, id[j]) = {j}
      BY <2>1 DEF IdInv, Holders
  <2>5. Lookup(where, id, state, id[j]) = state[j]
      BY <2>1, <2>2, LookupListed
  <2>3. id[j] \in 0 .. MaxJid
      BY <2>1, WidthAssumption DEF IdInv, TypeOK, Types
  <2>4. state[j] # "none"
      BY <2>1 DEF TypeOK
  <2> QED  BY <2>1, <2>3, <2>4, <2>5, JobStateIsLookup DEF Commands!Exists
<1> QED  BY <1>1, <1>2

\* A result that is known changes from "pending".
LEMMA ResultKnown ==
    ASSUME Types, NEW c \in Clients, NEW r \in {"ok", "EINVAL", "ENODEV"},
           ret[c] = "none", ret' = [ret EXCEPT ![c] = r]
    PROVE  resultBar[c] = "pending" /\ resultBar' = [resultBar EXCEPT ![c] = r]
BY DEF Types, resultBar

\* A client on its way has a request.
LEMMA OnTheWay ==
    ASSUME OnlyProperSent, CommandInv, NEW c \in Clients,
           pc[c] \in {"open", "ioctl", "handle", "lock_zone", "search", "apply"}
    PROVE  /\ Commands!Pending(c)
           /\ ret[c] = "none"
           /\ jop[c].op \in KILL_JOB .. UNKNOWN_CTL - 1
           /\ meant[c].zone = jop[c].zone_id /\ meant[c].job = jop[c].job_id
           /\ meant[c].op \in Subcommands /\ jop[c].op = jop_op(meant[c].op)
<1>1. /\ ret[c] = "none"
      /\ meant[c].op \in Subcommands
      /\ jop[c] = [op |-> jop_op(meant[c].op), zone_id |-> meant[c].zone, job_id |-> meant[c].job]
    BY DEF OnlyProperSent, CommandInv, Asked
<1>2. meant[c] # Commands!NoRequest
    BY <1>1 DEF Subcommands, Commands!NoRequest
<1> QED
    BY <1>1, <1>2 DEF Commands!Pending, jop_op, Subcommands, KILL_JOB, SUSPEND_JOB, RESUME_JOB, UNKNOWN_CTL

\* What each step is to JobCommands.
CommandsStep == [Commands!Next]_(Commands!vars)

Inv == Types /\ LockInv /\ CommandInv /\ IdInv

\* What the parser has delivered.
SentInv == TypeOK /\ OnlyProperSent

\* A step that JobCommands does not see.
LEMMA Unseen ==
    ASSUME UNCHANGED <<where, id, state, max_jid, ret, meant, module>>
    PROVE  CommandsStep
BY JobsBarSame DEF CommandsStep, Commands!vars, jobsBar

\* A command that fails.
LEMMA Fails ==
    ASSUME Inv, SentInv, NEW c \in Clients,
           pc[c] \in {"open", "ioctl", "handle", "lock_zone", "search", "apply"},
           UNCHANGED <<where, id, state, max_jid, meant, module>>,
           \/ ~Commands!Exists(meant[c]) /\ ret' = [ret EXCEPT ![c] = "EINVAL"]
           \/ module # "live" /\ ret' = [ret EXCEPT ![c] = "ENODEV"]
    PROVE  CommandsStep
<1>1. Commands!Pending(c) /\ ret[c] = "none"
    BY OnTheWay DEF Inv, SentInv
<1>2. jobsBar' = jobsBar
    BY JobsBarSame
<1>3. CASE ~Commands!Exists(meant[c]) /\ ret' = [ret EXCEPT ![c] = "EINVAL"]
  <2>1. resultBar' = [resultBar EXCEPT ![c] = "EINVAL"]
      BY <1>1, <1>3, ResultKnown DEF Inv
  <2>2. Commands!NoSuchJob(c)
      BY <1>1, <1>2, <1>3, <2>1 DEF Commands!NoSuchJob, Commands!Outcome, jobsBar, resultBar
  <2> QED  BY <2>2 DEF CommandsStep, Commands!Next
<1>4. CASE module # "live" /\ ret' = [ret EXCEPT ![c] = "ENODEV"]
  <2>1. resultBar' = [resultBar EXCEPT ![c] = "ENODEV"]
      BY <1>1, <1>4, ResultKnown DEF Inv
  <2>2. Commands!NotServed(c)
      BY <1>1, <1>2, <1>4, <2>1 DEF Commands!NotServed, Commands!Outcome, jobsBar, resultBar
  <2> QED  BY <2>2 DEF CommandsStep, Commands!Next
<1> QED  BY <1>3, <1>4

\* The one instant at which a command takes effect.
LEMMA ApplyDoes ==
    ASSUME Inv, SentInv, NEW c \in Clients, Apply(c)
    PROVE  Commands!Do(c)
<1> DEFINE j == found[c]
           op == meant[c].op
<1>1. /\ Commands!Pending(c) /\ ret[c] = "none"
      /\ meant[c].zone = 0 /\ meant[c].job = jop[c].job_id
      /\ op \in Subcommands /\ jop[c].op = jop_op(op)
    BY OnTheWay DEF Inv, SentInv, Apply, CommandInv
<1>2. j \in Matches(c) /\ id[j] = meant[c].job
    BY <1>1 DEF Inv, LockInv, Apply, Matches
<1>3. PICK i \in 0 .. MaxJid :
        i = meant[c].job /\ Commands!Exists(meant[c]) /\ JobState(i) = state[j]
    BY <1>1, <1>2, ExistsIsListed DEF Inv, SentInv
<1>4. state' = [state EXCEPT ![j] = Commands!Becomes(op, state[j])]
  <2>1. job_op_funcs(jop[c].op) = CASE op = "kill" -> "kill_job" [] op = "suspend" -> "suspend_job"
                                    [] op = "resume" -> "resume_job"
      BY <1>1 DEF job_op_funcs, jop_op, Subcommands, KILL_JOB, SUSPEND_JOB, RESUME_JOB
  <2>2. CASE op = "kill"
      BY <2>1, <2>2 DEF Apply, Commands!Becomes
  <2>3. CASE op = "suspend"
      BY <2>1, <2>3 DEF Apply, Commands!Becomes
  <2>4. CASE op = "resume"
      BY <2>1, <2>4 DEF Apply, Commands!Becomes
  <2> QED  BY <1>1, <2>2, <2>3, <2>4 DEF Subcommands
<1>5. /\ UNCHANGED <<where, id, max_jid, module, meant>>
      /\ ret' = [ret EXCEPT ![c] = "ok"]
    BY DEF Apply, GotoWith
<1>6. Holders(where, id, i) = {j}
    BY <1>2, <1>3 DEF Matches, Holders, Inv, IdInv
<1>7. jobsBar' = [jobsBar EXCEPT ![i] = Commands!Becomes(op, @)]
  <2>1. JobState(i)' = Commands!Becomes(op, JobState(i))
    <3>1. Lookup(where', id', state', i) = state'[j]
        BY <1>5, <1>6, LookupListed
    <3>2. state'[j] = Commands!Becomes(op, state[j])
        BY <1>2, <1>4 DEF Matches, SentInv, TypeOK
    <3> QED  BY <1>3, <3>1, <3>2, JobStateIsLookup
  <2>2. ASSUME NEW k \in 0 .. MaxJid, k # i PROVE JobState(k)' = JobState(k)
    <3>1. Holders(where, id, k) = Holders(where', id', k)
        BY <1>5 DEF Holders
    <3>2. \A h \in Holders(where, id, k) : h # j
        BY <1>2, <1>3, <2>2 DEF Holders
    <3>3. \A h \in Holders(where, id, k) : state[h] = state'[h]
        BY <1>4, <3>2 DEF Holders, SentInv, TypeOK
    <3> QED  BY <3>1, <3>3, LookupSame, JobStateIsLookup
  <2> QED  BY <1>3, <2>1, <2>2 DEF jobsBar
<1>8. resultBar' = [resultBar EXCEPT ![c] = "ok"]
    BY <1>1, <1>5, ResultKnown DEF Inv
<1> QED
    BY <1>1, <1>3, <1>5, <1>7, <1>8 DEF Commands!Do, Commands!Outcome, jobsBar, resultBar

\* The birth and the death of a job.
LEMMA JobSteps ==
    ASSUME Inv, Inv', SentInv, NEW j \in Jobs, NewJob(j) \/ UnlistJob(j) \/ FreeJob(j)
    PROVE  CommandsStep
<1>1. UNCHANGED <<ret, meant, module>>
    BY DEF NewJob, UnlistJob, FreeJob, clientVars
<1>2. resultBar' = resultBar
    BY <1>1 DEF resultBar
<1>3. CASE NewJob(j)
  <2>1. PICK i \in 0 .. MaxJid : i = max_jid /\ max_jid' = i + 1
      BY <1>3, WidthAssumption DEF NewJob, Inv, Types
  <2>2. Holders(where', id', i) = {j}
      BY <1>3, <2>1 DEF NewJob, Holders, Inv, Types, IdInv
  <2>3. JobState(i)' = "RUNNING"
    <3>1. Lookup(where', id', state', i) = state'[j]
        BY <2>2, LookupListed
    <3>2. state'[j] = "RUNNING"
        BY <1>3 DEF NewJob, SentInv, TypeOK
    <3> QED  BY <3>1, <3>2, JobStateIsLookup
  <2>4. ASSUME NEW k \in 0 .. MaxJid, k # i PROVE JobState(k)' = JobState(k)
    <3>1. Holders(where, id, k) = Holders(where', id', k)
        BY <1>3, <2>1, <2>4 DEF NewJob, Holders, Inv, Types
    <3>2. \A h \in Holders(where, id, k) : state[h] = state'[h]
        BY <1>3 DEF NewJob, Holders, SentInv, TypeOK
    <3> QED  BY <3>1, <3>2, LookupSame, JobStateIsLookup
  <2>5. jobsBar' = [jobsBar EXCEPT ![i] = "RUNNING"]
      BY <2>1, <2>3, <2>4 DEF jobsBar
  <2>6. i \notin 0 .. max_jid - 1 /\ 0 .. max_jid' - 1 = (0 .. max_jid - 1) \cup {i}
      BY <2>1
  <2>7. Commands!JobBegins(i)
      BY <1>1, <1>2, <2>5, <2>6 DEF Commands!JobBegins, jobsBar, resultBar
  <2> QED  BY <2>1, <2>7 DEF CommandsStep, Commands!Next
<1>4. CASE UnlistJob(j)
  <2>1. PICK i \in 0 .. MaxJid : i = id[j] /\ UNCHANGED <<id, state, max_jid>>
      BY <1>4, WidthAssumption DEF UnlistJob, Inv, Types, IdInv
  <2>2. Holders(where, id, i) = {j} /\ Holders(where', id', i) = {}
      BY <1>4, <2>1 DEF UnlistJob, Holders, Inv, Types, IdInv
  <2>3. JobState(i)' = "none"
      BY <2>2, LookupNone, JobStateIsLookup
  <2>4. JobState(i) # "none"
    <3>1. Lookup(where, id, state, i) = state[j]
        BY <2>2, LookupListed
    <3> QED  BY <3>1, JobStateIsLookup DEF SentInv, TypeOK
  <2>5. ASSUME NEW k \in 0 .. MaxJid, k # i PROVE JobState(k)' = JobState(k)
    <3>1. Holders(where, id, k) = Holders(where', id', k)
        BY <1>4, <2>1, <2>5 DEF UnlistJob, Holders, Inv, Types
    <3>2. \A h \in Holders(where, id, k) : state[h] = state'[h]
        BY <2>1
    <3> QED  BY <3>1, <3>2, LookupSame, JobStateIsLookup
  <2>6. jobsBar' = [jobsBar EXCEPT ![i] = "none"]
      BY <2>1, <2>3, <2>5 DEF jobsBar
  <2>7. Commands!JobEnds(i)
      BY <1>1, <1>2, <2>1, <2>4, <2>6 DEF Commands!JobEnds, jobsBar, resultBar
  <2> QED  BY <2>1, <2>7 DEF CommandsStep, Commands!Next
<1>5. CASE FreeJob(j)
  <2>1. UNCHANGED max_jid
      BY <1>5 DEF FreeJob
  <2>2. ASSUME NEW k \in 0 .. MaxJid PROVE JobState(k)' = JobState(k)
    <3>1. Holders(where, id, k) = Holders(where', id', k)
        BY <1>5 DEF FreeJob, Holders, Inv, Types
    <3>2. \A h \in Holders(where, id, k) : state[h] = state'[h]
        BY <1>5 DEF FreeJob, Holders, SentInv, TypeOK
    <3> QED  BY <3>1, <3>2, LookupSame, JobStateIsLookup
  <2>3. jobsBar' = jobsBar
      BY <2>2 DEF jobsBar
  <2> QED  BY <1>1, <1>2, <2>1, <2>3 DEF CommandsStep, Commands!vars, jobsBar, resultBar
<1> QED  BY <1>3, <1>4, <1>5

\* A step of a client.
LEMMA ClientSteps ==
    ASSUME Inv, SentInv, NEW c \in Clients, ClientStep(c)
    PROVE  CommandsStep
<1> USE DEF Goto, GotoWith, lockVars, jobVars
<1>1. CASE OpenDevice(c) \/ LockMutex(c) \/ LockZone(c) \/ WakeUp(c) \/ UnlockZone(c) \/ UnlockMutex(c)
    BY <1>1, Unseen DEF OpenDevice, LockMutex, LockZone, WakeUp, UnlockZone, UnlockMutex
<1>2. CASE OpenFails(c)
    BY <1>2, Fails DEF OpenFails
<1>3. CASE HandleJobOp(c)
  <2>1. pc[c] \in {"open", "ioctl", "handle", "lock_zone", "search", "apply"}
      BY <1>3 DEF HandleJobOp
  <2>2. jop[c].op \in KILL_JOB .. UNKNOWN_CTL - 1 /\ meant[c].zone = jop[c].zone_id
      BY <2>1, OnTheWay DEF Inv, SentInv
  <2>3. CASE jop[c].zone_id = 0
      BY <1>3, <2>2, <2>3, Unseen DEF HandleJobOp
  <2>4. CASE jop[c].zone_id # 0
    <3>1. ~Commands!Exists(meant[c])
        BY <2>2, <2>4 DEF Commands!Exists
    <3>2. UNCHANGED <<where, id, state, max_jid, meant, module>> /\ ret' = [ret EXCEPT ![c] = "EINVAL"]
        BY <1>3, <2>4 DEF HandleJobOp
    <3> QED  BY <2>1, <3>1, <3>2, Fails
  <2> QED  BY <2>3, <2>4
<1>4. CASE SearchJob(c)
  <2>1. pc[c] = "search"
      BY <1>4 DEF SearchJob
  <2>2. CASE Matches(c) # {}
      BY <1>4, <2>2, Unseen DEF SearchJob
  <2>3. CASE Matches(c) = {}
    <3>1. meant[c].zone = 0 /\ meant[c].job = jop[c].job_id
        BY <2>1, OnTheWay DEF Inv, SentInv, CommandInv
    <3>2. ~Commands!Exists(meant[c])
        BY <2>3, <3>1, ExistsIsListed DEF Inv, SentInv
    <3>3. UNCHANGED <<where, id, state, max_jid, meant, module>> /\ ret' = [ret EXCEPT ![c] = "EINVAL"]
        BY <1>4, <2>3 DEF SearchJob
    <3> QED  BY <2>1, <3>2, <3>3, Fails
  <2> QED  BY <2>2, <2>3
<1>5. CASE Apply(c)
    BY <1>5, ApplyDoes DEF CommandsStep, Commands!Next
<1>6. CASE ExitYasadmin(c)
  <2>1. ret[c] # "none" /\ resultBar[c] # "pending"
      BY <1>6 DEF ExitYasadmin, Inv, Types, CommandInv, Asked, resultBar
  <2>2. /\ UNCHANGED <<where, id, state, max_jid, module>>
        /\ meant' = [meant EXCEPT ![c] = Commands!NoRequest]
        /\ ret' = [ret EXCEPT ![c] = "none"]
      BY <1>6 DEF ExitYasadmin, NoRequest, Commands!NoRequest
  <2>3. resultBar' = [resultBar EXCEPT ![c] = "pending"]
      BY <2>2 DEF resultBar, Inv, Types
  <2>4. jobsBar' = jobsBar
      BY <2>2, JobsBarSame
  <2>5. Commands!Return(c)
      BY <2>1, <2>2, <2>3, <2>4 DEF Commands!Return, jobsBar, resultBar
  <2> QED  BY <2>5 DEF CommandsStep, Commands!Next
<1> QED  BY <1>1, <1>2, <1>3, <1>4, <1>5, <1>6 DEF ClientStep

\* A command line that is sent asks for what the usage text makes of it.
LEMMA AskStep ==
    ASSUME Inv, SentInv, SentInv', NEW c \in Clients, NEW s \in Subcommands, NEW opts,
           RunYasadmin(c, s, opts)
    PROVE  CommandsStep
<1>1. /\ UNCHANGED <<where, id, state, max_jid, module, ret>>
      /\ meant[c] = Commands!NoRequest
      /\ pc'[c] # "idle"
    BY DEF RunYasadmin, Goto, jobVars, Inv, CommandInv, Types, NoRequest, Commands!NoRequest
<1>2. meant' = [meant EXCEPT ![c] = Request(s, opts)] /\ meant'[c] = Request(s, opts)
    BY DEF RunYasadmin, Inv, Types
<1>3. Request(s, opts) = NoRequest
        \/ Request(s, opts) = [op |-> s, zone |-> Named(opts, "z"), job |-> Named(opts, "j")]
    BY DEF Request
<1>4. /\ Request(s, opts).op \in Subcommands
      /\ jop'[c].zone_id = Request(s, opts).zone /\ jop'[c].job_id = Request(s, opts).job
  <2>1. /\ meant'[c].op \in Subcommands
        /\ jop'[c] = [op |-> jop_op(meant'[c].op), zone_id |-> meant'[c].zone, job_id |-> meant'[c].job]
      BY <1>1 DEF SentInv, OnlyProperSent, jop_op, Subcommands
  <2> QED  BY <1>2, <2>1
<1>5. Request(s, opts) # NoRequest
    BY <1>4 DEF NoRequest, Subcommands
<1>6. PICK zone \in 0 .. ULONG - 1, job \in 0 .. ULONG - 1 :
        Request(s, opts) = [op |-> s, zone |-> zone, job |-> job]
    BY <1>3, <1>4, <1>5 DEF SentInv, TypeOK
<1>7. Commands!Ask(c, s, zone, job)
    BY <1>1, <1>2, <1>6, JobsBarSame DEF Commands!Ask, jobsBar
<1> QED  BY <1>7 DEF CommandsStep, Commands!Next, Subcommands

\* Every step is a step of JobCommands or none.
LEMMA RefineStep ==
    Inv /\ Inv' /\ SentInv /\ SentInv' /\ [Next]_vars => [Commands!Next]_(Commands!vars)
<1> SUFFICES ASSUME Inv, Inv', SentInv, SentInv', [Next]_vars PROVE CommandsStep
    BY DEF CommandsStep
<1>1. CASE StartRemoval
  <2>1. Commands!StopServing
      BY <1>1, JobsBarSame DEF StartRemoval, clientVars, jobVars, Commands!StopServing, jobsBar
  <2> QED  BY <2>1 DEF CommandsStep, Commands!Next
<1>2. CASE FreeText
  <2>1. /\ UNCHANGED <<where, id, state, max_jid, ret, meant>>
        /\ (module = "live") = FALSE /\ (module' = "live") = FALSE
      BY <1>2 DEF FreeText, clientVars, jobVars
  <2> QED  BY <2>1, JobsBarSame DEF CommandsStep, Commands!vars, jobsBar
<1>3. CASE UNCHANGED vars
    BY <1>3, Unseen DEF vars, clientVars, jobVars
<1> QED  BY <1>1, <1>2, <1>3, ClientSteps, AskStep, JobSteps DEF Next

\* The start.
LEMMA RefineInit == Init => Commands!Init
<1> SUFFICES ASSUME Init PROVE Commands!Init
    OBVIOUS
<1>1. \A i : Holders(where, id, i) = {}
    BY DEF Init, Holders
<1>2. jobsBar = [i \in 0 .. MaxJid |-> "none"]
    BY <1>1, LookupNone, JobStateIsLookup DEF jobsBar
<1>3. 0 .. max_jid - 1 = {}
    BY DEF Init
<1> QED  BY <1>2, <1>3 DEF Init, Commands!Init, jobsBar, NoRequest, Commands!NoRequest

(* From the command line to the job a command takes effect once, at one    *)
(* instant, on the job it names, whatever happens between its steps.       *)
THEOREM CommandsImplemented == Spec => ImplementsCommands
<1>1. Init => Inv
    BY InitInv, InitCommandInv DEF Inv
<1>2. Inv /\ [Next]_vars => Inv'
    BY TypesStep, LockStep, CommandStep, IdStep DEF Inv
<1>3. Spec => []SentInv
    BY TypeCorrect, SentIsProper, PTL DEF SentInv
<1> QED  BY RefineInit, RefineStep, <1>1, <1>2, <1>3, PTL DEF Spec, ImplementsCommands, Commands!Spec
=============================================================================
