------------------------------ MODULE HookSearch ------------------------------
(***************************************************************************)
(* How the switch functions of yasched (lkm/arch/x86_64) find the place in *)
(* the kernel's machine code that they redirect: they search its bytes for *)
(* the opcodes of call (e8) and jmp (e9), knowing nothing of where an      *)
(* instruction starts or a function ends.  One behaviour is one search     *)
(* from the entry of one function on; what is then exchanged, and in which *)
(* order, is Inception's.                                                  *)
(***************************************************************************)
EXTENDS Integers, Sequences, FiniteSetsExt, SequencesExt

CONSTANTS
    Codes,          \* what is searched: the kernel's instructions from a function's
                    \* entry on, its own and those of the functions behind it
    Prologues,      \* the functions that start with 55 or 41 57
    NEAR,           \* 64 in the code: the window of switch_execve and switch_schedule_tail
    FORK_WINDOW,    \* 128 in the code: the window of __switch_do_fork
    MAX_OFFSET,     \* 512 in the code: the window of the interrupt entries
    DISP            \* the bytes of a displacement, 4 in the code

ASSUME WindowsAssumption == {NEAR, FORK_WINDOW, MAX_OFFSET, DISP} \subseteq Nat \ {0}

\* An instruction is its opcode, the function that a call or jmp leads to, and
\* its other bytes: a displacement, or whatever the instruction has.
ASSUME CodesAssumption ==
    \A c \in Codes :
        /\ c \in Seq([op : STRING, to : STRING, rest : Seq(STRING)])
        /\ \A k \in DOMAIN c : c[k].op \in {"e8", "e9"} => Len(c[k].rest) = DISP

VARIABLES
    code, point,    \* what is searched, and for which hook
    kernel,         \* what else __switch_do_fork depends on
    result

vars == <<code, point, kernel, result>>

\* What kallsyms says of _do_fork, and what lies where four bytes lead that are
\* no displacement.
Kernels == [orig_do_fork : {"found", "zero", "error"}, junk : {"prologue", "other", "unmapped"}]

Points == {"execve", "pgfault", "timer", "tail", "do_fork"}

\* The bytes of an instruction.
Bytes(i) == <<i.op>> \o i.rest

Text(c) == FlattenSeq([k \in DOMAIN c |-> Bytes(c[k])])

\* Where the n-th instruction starts.
Start(c, n) == 1 + MapThenSumSet(LAMBDA k : Len(Bytes(c[k])), 1 .. n - 1)

\* The function that the displacement behind position p leads to.
Target(c, p) ==
    LET N == {n \in DOMAIN c : c[n].op \in {"e8", "e9"} /\ Start(c, n) = p}
    IN  IF N = {} THEN "junk" ELSE c[CHOOSE n \in N : TRUE].to

NULL == 0

\* memmem for a needle of one byte: its first occurrence in the window, which
\* knows no function's end.  (Behind the last byte modelled there is none.)
memmem(c, from, len, byte) ==
    LET text == Text(c)
        Found == {p \in from .. from + len - 1 : p <= Len(text) /\ text[p] = byte}
    IN  IF Found = {} THEN NULL ELSE Min(Found)

Hook(p) == [is |-> "hook", at |-> p]
ENOSYS == [is |-> "ENOSYS", at |-> NULL]
Oops == [is |-> "oops", at |-> NULL]
Nothing == [is |-> "nothing", at |-> NULL]

-----------------------------------------------------------------------------
\* Mutant: the search goes on behind the opcode and not behind the call.
switch_execve_NextByte(c) ==
    LET p == memmem(c, 1, NEAR, "e8")
        q == memmem(c, p + 1, NEAR, "e8")
    IN  IF p # NULL /\ Target(c, p) = "getname" /\ q # NULL THEN Hook(q) ELSE ENOSYS

\* switch_execve: the first call must be that of getname, the second is taken.
switch_execve(c) ==
    LET p == memmem(c, 1, NEAR, "e8")
        q == memmem(c, p + 1 + DISP, NEAR, "e8")
    IN  IF p # NULL /\ Target(c, p) = "getname" /\ q # NULL THEN Hook(q) ELSE ENOSYS

\* switch_schedule_tail
switch_schedule_tail(c) ==
    LET p == memmem(c, 1, NEAR, "e8") IN IF p = NULL THEN ENOSYS ELSE Hook(p)

\* switch_pgfault_handler does not test what memmem returns, and reads there.
switch_pgfault_handler(c) ==
    LET p == memmem(c, 1, MAX_OFFSET, "e8")
        q == memmem(c, p + 1, MAX_OFFSET, "e8")
    IN  IF p = NULL \/ q = NULL THEN Oops ELSE Hook(q)

\* Mutant: the kernel has no call of enter_from_user_mode there.
switch_smp_apic_timer_interrupt_Second(c) ==
    LET p == memmem(c, 1, MAX_OFFSET, "e8")
        q == memmem(c, p + 1, MAX_OFFSET, "e8")
    IN  IF p = NULL \/ q = NULL THEN ENOSYS ELSE Hook(q)

\* switch_smp_apic_timer_interrupt: the third e8, each searched from the byte
\* behind the last one, that is in the last one's displacement.
switch_smp_apic_timer_interrupt(c) ==
    LET p == memmem(c, 1, MAX_OFFSET, "e8")
        q == memmem(c, p + 1, MAX_OFFSET, "e8")
        r == memmem(c, q + 1, MAX_OFFSET, "e8")
    IN  IF p = NULL \/ q = NULL \/ r = NULL THEN ENOSYS ELSE Hook(r)

\* Mutant: a call is preferred to a jmp.
Candidate_CallFirst(c, distance) ==
    LET p == memmem(c, 1, FORK_WINDOW - distance, "e8")
    IN  IF p # NULL THEN p ELSE memmem(c, 1, FORK_WINDOW - distance, "e9")

\* The candidate of one turn of the loop in __switch_do_fork: a jmp, or else a
\* call, always from the start of the function.
Candidate(c, distance) ==
    LET p == memmem(c, 1, FORK_WINDOW - distance, "e9")
    IN  IF p # NULL THEN p ELSE memmem(c, 1, FORK_WINDOW - distance, "e8")

\* What is read at the function a candidate leads to, when kallsyms gave no
\* address to compare with.
Read(f, k) == IF f = "junk" THEN k.junk ELSE IF f \in Prologues THEN "prologue" ELSE "other"

Accepts(c, p, k) ==
    \/ k.orig_do_fork = "found" /\ Target(c, p) = "do_fork"
    \/ k.orig_do_fork = "zero" /\ Read(Target(c, p), k) = "prologue"

Faults(c, p, k) == k.orig_do_fork = "zero" /\ Read(Target(c, p), k) = "unmapped"

\* __switch_do_fork: the window shrinks by the candidate's offset in each turn.
switch_do_fork(c, k) ==
    LET turn[distance \in 0 .. FORK_WINDOW] ==
            LET p == Candidate(c, distance) IN
            IF distance >= FORK_WINDOW THEN Nothing
            ELSE IF p = NULL THEN ENOSYS
            ELSE IF Faults(c, p, k) THEN Oops
            ELSE IF Accepts(c, p, k) THEN Hook(p)
            ELSE turn[distance + p]
    IN  turn[0]

Search(pt, c, k) ==
    CASE pt = "execve"  -> switch_execve(c)
      [] pt = "tail"    -> switch_schedule_tail(c)
      [] pt = "pgfault" -> switch_pgfault_handler(c)
      [] pt = "timer"   -> switch_smp_apic_timer_interrupt(c)
      [] pt = "do_fork" -> switch_do_fork(c, k)

Unsearched == [is |-> "unsearched", at |-> NULL]

\* The kernel varies for the fork points only.
Init ==
    /\ code \in Codes
    /\ point \in Points
    /\ kernel \in Kernels
    /\ point # "do_fork" => kernel = [orig_do_fork |-> "found", junk |-> "other"]
    /\ result = Unsearched

Next ==
    /\ result = Unsearched
    /\ result' = Search(point, code, kernel)
    /\ UNCHANGED <<code, point, kernel>>

Spec == Init /\ [][Next]_vars

-----------------------------------------------------------------------------
Done == result # Unsearched

\* The calls of c, and where the n-th one starts.
Calls(c) == {k \in DOMAIN c : c[k].op = "e8"}
NthCall(c, n) == Start(c, CHOOSE k \in Calls(c) : Cardinality({m \in Calls(c) : m <= k}) = n)

\* The bytes that look like a call, and those among them that are none: they
\* are in a displacement, an operand or an immediate (48 89 e8).
Looks(c) == LET text == Text(c) IN {p \in 1 .. Len(text) : text[p] = "e8"}
Strays(c) == Looks(c) \ {Start(c, k) : k \in Calls(c)}

\* Each of the first n calls starts within a window behind the one before.
InReach(c, n, window) ==
    \A k \in 1 .. n : NthCall(c, k) <= window + (IF k = 1 THEN 0 ELSE NthCall(c, k - 1))

(* The search by bytes takes the very call that its comment counts to (the *)
(* third one of the timer's entry, apic_timer.c:59, the second of the page *)
(* fault's, the first of ret_from_fork) exactly if the calls up to it are  *)
(* in reach of each other, to the last byte of each window, and no byte    *)
(* before it looks like a call; otherwise, if in reach, it takes a place   *)
(* before that call.  In a function with fewer calls the next function's   *)
(* count.                                                                  *)
CountedCallHooked ==
    LET n == CASE point = "timer" -> 3 [] point = "pgfault" -> 2 [] OTHER -> 1
        window == IF point = "tail" THEN NEAR ELSE MAX_OFFSET
    IN  Done /\ point \in {"timer", "pgfault", "tail"} /\ Cardinality(Calls(code)) >= n
            => /\ result = Hook(NthCall(code, n))
                     <=> /\ InReach(code, n, window)
                         /\ \A p \in Strays(code) : p > NthCall(code, n)
               /\ InReach(code, n, window) => result.is = "hook" /\ result.at <= NthCall(code, n)

(* switch_execve looks behind the whole call of getname: it takes the      *)
(* second call exactly if the first is getname's, both are in reach, and   *)
(* nothing before the first and nothing between the two looks like a call  *)
(* (in getname's displacement it may).  It redirects nothing if the first  *)
(* call is another one's.                                                  *)
CallAfterGetnameHooked ==
    LET first == NthCall(code, 1)
        second == NthCall(code, 2)
    IN  Done /\ point = "execve" /\ Cardinality(Calls(code)) >= 2
            => /\ result = Hook(second)
                     <=> /\ first <= NEAR /\ Target(code, first) = "getname"
                         /\ second <= first + DISP + NEAR
                         /\ \A p \in Strays(code) : p \in first .. first + DISP \/ p > second
               /\ result.is = "hook" =>
                     Target(code, first) = "getname" /\ result.at \in first + DISP + 1 .. second

(* The loop of __switch_do_fork tries two places, however often it turns:  *)
(* the first e9, and the first e8 in what the turns with the first e9 have *)
(* left of the window.  If neither is accepted the fork point is passed    *)
(* over without hook or error exactly if the turns use up the window, and  *)
(* the search fails if something is left of it.                            *)
OnlyFirstPlacesTried ==
    LET Right(p) == p # NULL /\ (Accepts(code, p, kernel) \/ Faults(code, p, kernel))
        Outcome(p) == IF Faults(code, p, kernel) THEN Oops ELSE Hook(p)
        jmp == memmem(code, 1, FORK_WINDOW, "e9")
        left == IF jmp = NULL THEN FORK_WINDOW ELSE FORK_WINDOW % jmp
        call == memmem(code, 1, left, "e8")
        rest == IF call = NULL THEN left ELSE left % call
    IN  Done /\ point = "do_fork" =>
            result = IF Right(jmp) THEN Outcome(jmp)
                     ELSE IF Right(call) THEN Outcome(call)
                     ELSE IF rest = 0 THEN Nothing ELSE ENOSYS
=============================================================================
