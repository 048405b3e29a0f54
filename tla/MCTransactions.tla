--------------------------- MODULE MCTransactions ---------------------------
EXTENDS OpacityCheck

Begin == [op |-> "begin"]
Commit == [op |-> "commit"]
Abort == [op |-> "abort"]
Read(a) == [op |-> "read", address |-> a]
Write(a, v) == [op |-> "write", address |-> a, value |-> v]
Construct(a, v) == [op |-> "construct", address |-> a, value |-> v]
Destroy(a) == [op |-> "destroy", address |-> a]

\* The events that name the fields x and y before the scripts start
Named(identity) ==
    [i \in 1..2 |-> LET a == <<"x", "y">>[i]
                    IN  [kind |-> "tx_location_init", thread |-> 1, tx |-> None, address |-> a,
                         handle |-> FirstHandle(identity, a), value |-> 0]]

Unborn == [initial |-> [l \in Addresses \X {0} |-> 0], transactions |-> <<>>]

Run(backend, identity, policy, limit, scripts) ==
    [backend |-> backend, identity |-> identity, policy |-> policy, limit |-> limit,
     scripts |-> [t \in Threads |-> IF t \in DOMAIN scripts THEN scripts[t] ELSE <<>>],
     recorded |-> Named(identity), truth |-> Unborn]

-----------------------------------------------------------------------------
(* Races of two or three threads *)

Bodies == <<<<Begin, Read("x"), Write("y", 1), Commit>>, <<Begin, Read("y"), Write("x", 1), Commit>>,
            <<Begin, Write("x", 1), Write("y", 1), Commit>>, <<Begin, Read("x"), Read("y"), Commit>>,
            <<Begin, Write("x", 2), Read("x"), Abort>>>>

Short == <<<<Begin, Read("x"), Commit>>, <<Begin, Write("x", 1), Commit>>, <<Begin, Write("x", 0), Commit>>>>

Pairwise == {Run(b, "raw", "value_history_only", 0, <<Bodies[i], Bodies[j]>>)
                : b \in {"validating", "careless"}, <<i, j>> \in {<<1, 1>>, <<1, 2>>, <<1, 3>>, <<1, 4>>, <<3, 3>>, <<3, 4>>, <<4, 5>>}}

Triples == {Run("careless", "raw", "value_history_only", 0, <<Short[i], Short[j], Short[k]>>)
                : <<i, j, k>> \in {p \in (1..3) \X (1..3) \X (1..3) : p[1] <= p[2] /\ p[2] <= p[3]}}

(* Nesting, and fields that are destroyed and made again *)

Nested == {Run("validating", i, "value_history_only", 0,
               <<<<Begin, Begin, Write("x", 1), Commit, Commit>>, <<Begin, Read("x"), Commit>>>>)
                : i \in {"raw", "registry"}}

Renewals == {<<Destroy("x"), Construct("x", 2)>>, <<Destroy("x"), Construct("x", 0), Begin, Read("x"), Commit>>}

Reuse == {[Run(b, i, p, 0, <<s, r>>) EXCEPT !.recorded = IF named THEN @ ELSE <<>>]
            : b \in {"validating", "careless"}, i \in {"raw", "registry", "lifetime"},
              p \in {"value_history_only", "strict_lifetimes"}, named \in BOOLEAN, s \in Renewals,
              r \in {<<Begin, Read("x"), Read("y"), Commit>>, <<Begin, Write("x", 1), Commit, Begin, Read("x"), Commit>>}}

-----------------------------------------------------------------------------
(* Histories recorded elsewhere: every transaction on its own thread *)

R(a, v) == [write |-> FALSE, loc |-> a, value |-> v]
W(a, v) == [write |-> TRUE, loc |-> a, value |-> v]

Contents == {<<R("x", 1)>>, <<R("x", 0), W("y", 1)>>, <<R("y", 0), W("x", 1)>>,
             <<R("x", 1), R("y", 0)>>, <<W("x", 1), W("y", 1)>>, <<R("y", 1), W("x", 0)>>}

Spans == {<<1, 2>>, <<1, 4>>, <<3, 4>>}

Shapes == {[begin |-> s[1], end |-> s[2], outcome |-> o, accesses |-> c]
                : s \in Spans, o \in {"committed", "aborted"}, c \in Contents}
          \cup {[begin |-> b, end |-> 0, outcome |-> "live", accesses |-> c] : b \in {1, 3}, c \in Contents}

Writers == {[begin |-> s[1], end |-> s[2], outcome |-> "committed", accesses |-> c]
                : s \in Spans, c \in {<<W("x", 1)>>, <<W("x", 0)>>, <<R("x", 1), W("y", 1)>>, <<R("y", 1), R("x", 0)>>}}

Event(kind, t, address, value) ==
    [kind |-> kind, thread |-> t, tx |-> 1, address |-> address, handle |-> None, value |-> value]

Body(t, shape) ==
    [k \in DOMAIN shape.accesses |->
        Event(IF shape.accesses[k].write THEN "tx_write" ELSE "tx_read", t,
              shape.accesses[k].loc, shape.accesses[k].value)]

\* What transaction t does in slot k: it begins, or does all its work and ends
Slot(t, shape, k) ==
    (IF shape.begin = k THEN <<Event("tx_begin", t, None, None)>> ELSE <<>>)
    \o (IF shape.end = k \/ (shape.end = 0 /\ shape.begin = k) THEN Body(t, shape) ELSE <<>>)
    \o (IF shape.end # k THEN <<>>
        ELSE <<Event(IF shape.outcome = "aborted" THEN "tx_abort" ELSE "tx_commit_success", t, None, None)>>)

RECURSIVE Slots(_, _, _)
Slots(shapes, t, k) ==
    IF k > 4 THEN <<>>
    ELSE IF t > Len(shapes) THEN Slots(shapes, 1, k + 1)
    ELSE Slot(t, shapes[t], k) \o Slots(shapes, t + 1, k)

IndexOf(stream, t, kinds) ==
    CHOOSE i \in DOMAIN stream : stream[i].thread = t /\ stream[i].tx # None /\ stream[i].kind \in kinds

Recorded(shapes, limit) ==
    LET stream == Named("raw") \o Slots(shapes, 1, 1)
        happened(t) ==
            [thread |-> t, begin |-> IndexOf(stream, t, {"tx_begin"}),
             end |-> IF shapes[t].end = 0 THEN 0 ELSE IndexOf(stream, t, {"tx_abort", "tx_commit_success"}),
             outcome |-> shapes[t].outcome,
             accesses |-> [k \in DOMAIN shapes[t].accesses |->
                              [shapes[t].accesses[k] EXCEPT !.loc = <<@, 0>>]]]
    IN  [Run("careless", "raw", "value_history_only", limit, <<>>) EXCEPT
            !.recorded = stream,
            !.truth.transactions = [t \in DOMAIN shapes |-> happened(t)]]

InOrder(first, second, third) ==
    {<<p, q, r>> \in first \X second \X third : p.begin <= q.begin /\ q.begin <= r.begin}

\* Two committed transactions and an aborted or live one, in any order of begins
Threes == LET done == {s \in Shapes : s.outcome = "committed"}
              other == Shapes \ done
          IN  InOrder(done, done, other) \cup InOrder(done, other, done) \cup InOrder(other, done, done)

Fours == {<<p, q, r, s>> \in Writers \X Writers \X Writers \X Writers :
              p.begin <= q.begin /\ q.begin <= r.begin /\ r.begin <= s.begin}

MCScenarios == Pairwise \cup Triples \cup Nested \cup Reuse
               \cup {Recorded(c[1], c[2]) : c \in (Threes \X {0}) \cup (Fours \X {0, 1})}
=============================================================================
