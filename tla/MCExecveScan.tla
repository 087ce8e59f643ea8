---------------------------- MODULE MCExecveScan ----------------------------
(* ExecveScan for TLC: two tasks, environments of up to two strings.       *)
EXTENDS ExecveScan, TLC

CONSTANTS t1, t2

TwoTasks == {t1, t2}
TaskSymmetry == Permutations(TwoTasks)

Text(s) == [text |-> s, digits |-> <<>>]
Str(cells) == [cells |-> cells, faults |-> FALSE]

Short == Str(<<Text("A=1")>>)
Long == Str(<<Text("PATH=/us"), Text("r"), Text("/bin:/sb"), Text("in:"), Text("...")>>)
Home == Str(<<Text("YA_SCHED"), Text("_"), Text("HOME=/ya"), Text("sched")>>)
Bare == Str(<<Text("YA_SCHED"), Text("")>>)
Empty == Str(<<Text("YA_SCHED"), Text("="), Text("")>>)
Zone(d) == Str(<<Text("YA_SCHED"), Text("_"), Text("ZONE_ID="), [text |-> "value", digits |-> d]>>)
Fault == [cells |-> <<Text("YA_SCHED")>>, faults |-> TRUE]

\* Zones 0, 5, 16 (which is 0 in an int of four bits), none (-1 is no digit),
\* and one with a third digit, which is not read.
Zones == {Zone(<<0>>), Zone(<<5>>), Zone(<<1, 6>>), Zone(<<-1, 7>>), Zone(<<0, 0, 5>>)}
Strings == Zones \cup {Short, Long, Home, Bare, Empty, Fault}

Pairs == {<<Home, Zone(<<0>>)>>, <<Zone(<<5>>), Zone(<<0>>)>>, <<Fault, Zone(<<0>>)>>,
          <<Zone(<<0>>), Long>>, <<Long, Home>>, <<Short, Zone(<<1, 6>>)>>,
          <<Bare, Zone(<<5>>)>>, <<Zone(<<5>>), Bare>>}
UpToTwo == {<<>>} \cup {<<s>> : s \in Strings} \cup Pairs
=============================================================================
