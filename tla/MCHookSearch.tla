---------------------------- MODULE MCHookSearch ----------------------------
(* HookSearch for TLC: code of up to four instructions, some with a byte   *)
(* that looks like an opcode in a displacement or another operand, and a   *)
(* long instruction behind them that every window ends in.                 *)
EXTENDS HookSearch

I(op, to, rest) == [op |-> op, to |-> to, rest |-> rest]
Plain == <<"00", "00">>

Instructions ==
    {I("c3", "none", <<>>), I("48", "none", <<"89", "e8">>), I("b0", "none", <<"e9">>),
     I("e8", "getname", Plain), I("e8", "f", Plain), I("e8", "f", <<"e8", "00">>),
     I("e8", "do_fork", <<"00", "e9">>), I("e9", "do_fork", Plain), I("e9", "f", Plain)}

Rest == I("90", "none", [n \in 1 .. 20 |-> "90"])

UpToFour == {Append(c, Rest) : c \in UNION {[1 .. n -> Instructions] : n \in 0 .. 4}}

Usual == {"do_fork", "getname"}
=============================================================================
