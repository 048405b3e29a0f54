----------------------------- MODULE MCExplorer -----------------------------
(* Instances of ScheduleExplorer for TLC: actors that spin, count with and *)
(* without the mutex, or forget to unlock it.                              *)
EXTENDS ScheduleExplorer

Spin == <<"switch", "switch">>
Count == <<"switch", "read", "switch", "write">>
Lock == <<"switch", "acquire", "switch">>
Unlock == <<"release", "switch">>
Programs == {Spin, Count, Lock \o <<"read", "switch", "write">> \o Unlock, Lock}

\* Three threads of one actor; two threads between an init and a post part
MCScenarios ==
    {[init |-> <<>>, post |-> <<>>, parallel |-> <<<<a>>, <<b>>, <<c>>>>] : a \in Programs, b \in Programs, c \in Programs}
    \cup {[init |-> <<Count>>, post |-> <<Count>>, parallel |-> <<<<a, b>>, <<c>>>>] :
             a \in Programs, b \in Programs, c \in Programs}

\* Weights that are neither the order of the queue nor that of the prefixes
MCWeight(seed, s) == FoldLeft(LAMBDA w, c : (w * 5 + c + seed) % 11, seed, s)

Option(seed, switches, invocations, minimize) ==
    [seed |-> seed, length |-> 4, switches |-> switches, invocations |-> invocations, minimize |-> minimize]

MCConfigurations ==
    {Option(0, -1, 1000, TRUE), Option(0, -1, 4, TRUE), Option(0, 1, 1000, FALSE), Option(2, 2, 1000, TRUE)}
=============================================================================
