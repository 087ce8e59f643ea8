------------------------------- MODULE MCAdmin -------------------------------
(* Admin for TLC: two clients, two job addresses, and the command lines    *)
(* that tell the cases of the parser apart.  The proper ones name job 1,   *)
(* with job 0 as a bystander, or a zone that is not there.                 *)
EXTENDS Admin

CONSTANTS c1, c2, j1, j2

TwoClients == {c1, c2}
TwoJobs == {j1, j2}

z(n) == [opt |-> "z", form |-> "number", val |-> n]
j(n) == [opt |-> "j", form |-> "number", val |-> n]
Text(o) == [opt |-> o, form |-> "text", val |-> 0]

\* -2 is the unsigned long 2, 2 is out of the range of a long of two bits.
Lines ==
    {<<j(1), z(0)>>, <<z(1), j(-2)>>, <<z(0), j(0), j(1)>>,
     <<>>, <<z(0)>>, <<j(0)>>, <<z(0), j(-1)>>, <<z(0), j(2)>>, <<z(0), Text("j")>>,
     <<z(0), j(0), Text("h")>>, <<Text("bad"), z(0), j(0)>>}
=============================================================================
