------------------------------ MODULE ExecveScan ------------------------------
(***************************************************************************)
(* The search of new_job (lkm/hook/execve.c) for YA_SCHED_ZONE_ID in the   *)
(* environment of a task that calls execve.  Every variable is copied into *)
(* the one static buffer envbuf and examined there, without a lock, by all *)
(* tasks that are in execve at the time.                                   *)
(*                                                                         *)
(* The string YA_SCHED_ZONE_ID=0 is cut into the cells that the code       *)
(* addresses: "YA_SCHED", one character that it skips, "ZONE_ID=", and the *)
(* rest; the NUL at the end counts as a character.  strncpy_from_user      *)
(* writes cell after cell and leaves those behind the end of a short       *)
(* string as they were.                                                    *)
(***************************************************************************)
EXTENDS Integers, Sequences, FiniteSetsExt, SequencesExt

CONSTANTS
    Tasks,          \* the tasks that call execve
    Environments,   \* the environments they pass: sequences of strings
    ENV_CELLS,      \* the cells of envbuf, ENV_MAX_LENGTH bytes in the code
    ATOL_DIGITS,    \* the digits that my_atol reads, 20 in the code
    INT_MOD         \* the number of values of an int

\* A string is [cells, faults]; a cell is [text, digits].
Blank == [text |-> "blank", digits |-> <<>>]

ya_zone_str == "YA_SCHED"
zone_id_str == "ZONE_ID="

\* The value's cell holds at least the NUL.
IsZoneVariable(s) ==
    Len(s.cells) >= 4 /\ s.cells[1].text = ya_zone_str /\ s.cells[3].text = zone_id_str

ASSUME BufferAssumption == ENV_CELLS \in Nat /\ ENV_CELLS >= 4
ASSUME NumbersAssumption == ATOL_DIGITS \in Nat /\ INT_MOD \in Nat \ {0}

\* The string "YA_SCHED" ends in its second cell: behind it the code goes on
\* to read what an earlier string left in the third.
IsBare(s) == ~s.faults /\ Len(s.cells) < 3 /\ s.cells[1].text = ya_zone_str

\* A string that can be read to its end has its NUL, in a cell behind the
\* last one that the string fills.
ASSUME EnvironmentsAssumption ==
    \A e \in Environments :
        /\ e \in Seq([cells : Seq([text : STRING, digits : Seq(Int)]), faults : BOOLEAN])
        /\ \A n \in DOMAIN e : ~e[n].faults =>
            /\ Len(e[n].cells) > 0
            /\ Len(e[n].cells) >= 3 /\ e[n].cells[3].text = zone_id_str => Len(e[n].cells) >= 4

VARIABLES
    pc,         \* where each task is in execve_agent and new_job
    envp,       \* its environment
    i,          \* the variable it is at
    copied,     \* the cells of this variable copied so far
    envbuf,     \* the buffer
    disturbed   \* history: another task wrote the buffer while this one used it

vars == <<pc, envp, i, copied, envbuf, disturbed>>

Goto(t, l) == pc' = [pc EXCEPT ![t] = l]

\* The task's current string, and how much of it the buffer takes.
String(t) == envp[t][i[t]]
Fits(s) == Min({Len(s.cells), ENV_CELLS})

\* Mutant: all digits are read.
my_atol_NoLimit(digits) ==
    FoldLeft(LAMBDA acc, d : IF acc.end \/ d \notin 0 .. 9 THEN [acc EXCEPT !.end = TRUE]
                             ELSE [acc EXCEPT !.val = (10 * @ + d) % INT_MOD],
             [end |-> FALSE, val |-> 0], digits).val

(* my_atol: at most ATOL_DIGITS digits, up to the first other character, in*)
(* an int that wraps around; 0 if there is no digit at all.                *)
my_atol(digits) ==
    FoldLeft(LAMBDA acc, d : IF acc.end \/ d \notin 0 .. 9 THEN [acc EXCEPT !.end = TRUE]
                             ELSE [acc EXCEPT !.val = (10 * @ + d) % INT_MOD],
             [end |-> FALSE, val |-> 0],
             SubSeq(digits, 1, Min({Len(digits), ATOL_DIGITS}))).val

\* __search_zone_by_id knows zone 0 only.
ZoneExists(zid) == zid = 0

-----------------------------------------------------------------------------
(* A task that is in no job calls execve.                                  *)
Execve(t, e) ==
    /\ pc[t] = "user"
    /\ envp' = [envp EXCEPT ![t] = e]
    /\ i' = [i EXCEPT ![t] = 1]
    /\ copied' = [copied EXCEPT ![t] = 0]
    /\ disturbed' = [disturbed EXCEPT ![t] = FALSE]
    /\ Goto(t, "next")
    /\ UNCHANGED envbuf

(* get_user_arg_ptr: the next string, or the end of the environment.       *)
NextString(t) ==
    /\ pc[t] = "next"
    /\ Goto(t, IF i[t] <= Len(envp[t]) THEN "copy" ELSE "plain")
    /\ UNCHANGED <<envp, i, copied, envbuf, disturbed>>

Uses(t) == pc[t] \in {"copy", "head", "name", "value"}

\* Mutant: the copy is not bounded by the buffer.
CopyCell_NoBound(t) ==
    /\ pc[t] = "copy" /\ copied[t] < Len(String(t).cells)
    /\ envbuf' = [n \in DOMAIN envbuf \cup {copied[t] + 1} |->
                    IF n = copied[t] + 1 THEN String(t).cells[n] ELSE envbuf[n]]
    /\ copied' = [copied EXCEPT ![t] = @ + 1]
    /\ disturbed' = [u \in Tasks |-> disturbed[u] \/ (u # t /\ Uses(u))]
    /\ UNCHANGED <<pc, envp, i>>

(* strncpy_from_user, one cell.                                            *)
CopyCell(t) ==
    /\ pc[t] = "copy" /\ copied[t] < Fits(String(t))
    /\ envbuf' = [envbuf EXCEPT ![copied[t] + 1] = String(t).cells[copied[t] + 1]]
    /\ copied' = [copied EXCEPT ![t] = @ + 1]
    /\ disturbed' = [u \in Tasks |-> disturbed[u] \/ (u # t /\ Uses(u))]
    /\ UNCHANGED <<pc, envp, i>>

(* The copy is complete, or hits memory that is not there: the search ends.*)
Copied(t) ==
    /\ pc[t] = "copy" /\ copied[t] = Fits(String(t))
    /\ Goto(t, IF String(t).faults THEN "plain" ELSE "head")
    /\ UNCHANGED <<envp, i, copied, envbuf, disturbed>>

Continue(t) ==
    /\ i' = [i EXCEPT ![t] = @ + 1]
    /\ copied' = [copied EXCEPT ![t] = 0]
    /\ Goto(t, "next")

TestHead(t) ==
    /\ pc[t] = "head"
    /\ IF envbuf[1].text = ya_zone_str THEN Goto(t, "name") /\ UNCHANGED <<i, copied>> ELSE Continue(t)
    /\ UNCHANGED <<envp, envbuf, disturbed>>

TestName(t) ==
    /\ pc[t] = "name"
    /\ IF envbuf[3].text = zone_id_str
         THEN Goto(t, "value") /\ UNCHANGED <<i, copied>>
         ELSE Continue(t)
    /\ UNCHANGED <<envp, envbuf, disturbed>>

\* Mutant: a zone that is not there is skipped.
TestValue_Continues(t) ==
    /\ pc[t] = "value"
    /\ IF ZoneExists(my_atol(envbuf[4].digits))
         THEN Goto(t, "founds") /\ UNCHANGED <<i, copied>>
         ELSE Continue(t)
    /\ UNCHANGED <<envp, envbuf, disturbed>>

(* The zone, or the end of the search.                                     *)
TestValue(t) ==
    /\ pc[t] = "value"
    /\ Goto(t, IF ZoneExists(my_atol(envbuf[4].digits)) THEN "founds" ELSE "plain")
    /\ UNCHANGED <<envp, i, copied, envbuf, disturbed>>

(* new_job has returned NEW_JOB ("founds") or NON_JOB ("plain"); the rest  *)
(* is JobLife's.  The task, or another one, calls execve again.            *)
Return(t) ==
    /\ pc[t] \in {"founds", "plain"}
    /\ Goto(t, "user")
    /\ envp' = [envp EXCEPT ![t] = <<>>]
    /\ i' = [i EXCEPT ![t] = 1]
    /\ copied' = [copied EXCEPT ![t] = 0]
    /\ disturbed' = [disturbed EXCEPT ![t] = FALSE]
    /\ UNCHANGED envbuf

-----------------------------------------------------------------------------
TypeOK ==
    /\ pc \in [Tasks -> {"user", "next", "copy", "head", "name", "value", "founds", "plain"}]
    /\ envp \in [Tasks -> Environments \cup {<<>>}]
    /\ i \in [Tasks -> Nat \ {0}]
    /\ copied \in [Tasks -> 0 .. ENV_CELLS]
    /\ envbuf \in [1 .. ENV_CELLS -> {Blank} \cup [text : STRING, digits : Seq(Int)]]
    /\ disturbed \in [Tasks -> BOOLEAN]

Init ==
    /\ pc = [t \in Tasks |-> "user"]
    /\ envp = [t \in Tasks |-> <<>>]
    /\ i = [t \in Tasks |-> 1]
    /\ copied = [t \in Tasks |-> 0]
    /\ envbuf = [n \in 1 .. ENV_CELLS |-> Blank]
    /\ disturbed = [t \in Tasks |-> FALSE]

Next == \E t \in Tasks :
    \/ \E e \in Environments : Execve(t, e)
    \/ NextString(t) \/ CopyCell(t) \/ Copied(t)
    \/ TestHead(t) \/ TestName(t) \/ TestValue(t) \/ Return(t)

Spec == Init /\ [][Next]_vars

-----------------------------------------------------------------------------
\* The strings before the n-th decide nothing.
Before(e, n) == \A m \in 1 .. n - 1 : ~IsZoneVariable(e[m]) /\ ~e[m].faults

\* What an environment asks for, by itself: its first string that names the
\* variable, if it can be read up to there, names zone 0.
Asks(e) == \E n \in DOMAIN e :
    /\ IsZoneVariable(e[n]) /\ ~e[n].faults /\ ZoneExists(my_atol(e[n].cells[4].digits))
    /\ Before(e, n)

\* The search comes to the string "YA_SCHED" before anything decides it.
MeetsBare(e) == \E n \in DOMAIN e : IsBare(e[n]) /\ Before(e, n)

(* A search gives the answer of the task's own environment, whatever       *)
(* earlier searches left in the buffer, unless another task writes the     *)
(* buffer under it or it comes to the string "YA_SCHED" (execve.c:83 and   *)
(* :109).                                                                  *)
UndisturbedSearchIsRight ==
    \A t \in Tasks :
        pc[t] \in {"founds", "plain"} /\ ~disturbed[t] /\ ~MeetsBare(envp[t])
            => (pc[t] = "founds" <=> Asks(envp[t]))

\* The weight of a digit that k others follow.
Ten[k \in 0 .. ATOL_DIGITS] == IF k = 0 THEN 1 ELSE 10 * Ten[k - 1]

\* The number that a sequence of characters starts with, as one writes it.
Written(s) ==
    LET Lengths == {n \in 0 .. Min({Len(s), ATOL_DIGITS}) : \A k \in 1 .. n : s[k] \in 0 .. 9}
        n == Max(Lengths)
    IN  MapThenSumSet(LAMBDA k : s[k] * Ten[n - k], 1 .. n)

(* my_atol reads the number that is written, modulo the size of an int.    *)
ZoneNumberAsWritten ==
    \A t \in Tasks : pc[t] = "value" =>
        my_atol(envbuf[4].digits) = Written(envbuf[4].digits) % INT_MOD

(* execve.c:136 "If current is the root of a new job": a task founds a job *)
(* only if its own environment asks for it.                                *)
FoundsOnlyIfAsked == \A t \in Tasks : pc[t] = "founds" => Asks(envp[t])
=============================================================================
