------------------------------ MODULE Opacity ------------------------------
(***************************************************************************)
(* verify_stm_opacity: does a history of transactions have an order in     *)
(* which every transaction, the aborted and the live ones included, sees a *)
(* consistent state?                                                       *)
(*                                                                         *)
(* A history has the initial values of its locations and the sequence of   *)
(* its transactions, each with the indexes of its begin and end events (0: *)
(* still live), its outcome and its accesses.  Transactions are named by   *)
(* their place in the sequence.  The sample lines and counters are left    *)
(* out.                                                                    *)
(***************************************************************************)
EXTENDS Integers, Sequences, FiniteSets

\* The last of these places, 0 if there is none
Latest(S) == IF S = {} THEN 0 ELSE CHOOSE i \in S : \A j \in S : j <= i

Precedes(left, right) == left.end # 0 /\ left.end < right.begin

\* Index of the last write to x among the first n accesses, 0 if none
LastWrite(tx, x, n) == Latest({i \in 1..n : tx.accesses[i].write /\ tx.accesses[i].loc = x})

FinalWrites(tx) ==
    LET length == Len(tx.accesses)
        written == {tx.accesses[i].loc : i \in {k \in 1..length : tx.accesses[k].write}}
    IN  [x \in written |-> tx.accesses[LastWrite(tx, x, length)].value]

\* The reads that do not see a write of their own transaction
ExternalReads(tx) ==
    {i \in DOMAIN tx.accesses :
        ~ tx.accesses[i].write /\ LastWrite(tx, tx.accesses[i].loc, i) = 0}

ReadsValid(tx, state) ==
    \A i \in DOMAIN tx.accesses : LET access == tx.accesses[i] IN ~ access.write =>
        LET own == LastWrite(tx, access.loc, i)
        IN  access.value = IF own # 0 THEN tx.accesses[own].value ELSE state[access.loc]

\* What a transaction leaves behind
After(tx, state) ==
    LET final == FinalWrites(tx)
    IN  [x \in DOMAIN state |-> IF x \in DOMAIN final THEN final[x] ELSE state[x]]

Committed(history) ==
    {i \in DOMAIN history.transactions : history.transactions[i].outcome = "committed"}

Observers(history) == DOMAIN history.transactions \ Committed(history)

-----------------------------------------------------------------------------
(* The ordering graph: what every serial order of the committed            *)
(* transactions must respect.                                              *)

Through(edges, nodes, pivot) ==
    edges \cup {e \in nodes \X nodes : <<e[1], pivot>> \in edges /\ <<pivot, e[2]>> \in edges}

CloseGraph(history, edges) ==
    LET nodes == Committed(history)
        n == Len(history.transactions)
        closed[pivot \in 0..n] ==
            IF pivot = 0 THEN edges ELSE Through(closed[pivot - 1], nodes, pivot)
    IN  closed[n]

\* A conflicting writer between the source and the reader
Shadowed(edges, source, choice) ==
    \E w \in choice.conflicting : <<source, w>> \in edges /\ <<w, choice.reader>> \in edges

RefineChoice(edges, choice) ==
    [choice EXCEPT
        !.alternatives = {s \in @ : <<choice.reader, s>> \notin edges /\ ~ Shadowed(edges, s, choice)},
        !.initial = @ /\ \A w \in choice.conflicting : <<w, choice.reader>> \notin edges]

\* One round of refinement of the ambiguous reads.  The code adds promoted
\* edges while it goes through the choices; the rounds end in the same graph.
Refine(graph) ==
    LET refined == {RefineChoice(graph.edges, c) : c \in graph.choices}
        resolved == {c \in refined : ~ c.initial /\ Cardinality(c.alternatives) = 1}
    IN  [graph EXCEPT !.choices = refined,
                      !.edges = @ \cup UNION {c.alternatives \X {c.reader} : c \in resolved},
                      !.inconsistent = @ \/ \E c \in refined : ~ c.initial /\ c.alternatives = {}]

RefineRound(history, graph) ==
    LET closed == CloseGraph(history, graph.edges)
        next == Refine([graph EXCEPT !.edges = closed])
    IN  IF graph.settled THEN graph
        ELSE IF graph.inconsistent \/ \E i \in Committed(history) : <<i, i>> \in closed
        THEN [graph EXCEPT !.inconsistent = TRUE, !.settled = TRUE]
        ELSE [next EXCEPT !.settled = (next.edges = closed)]

\* Rounds until no constraint is added; each but the last adds one
RefineAll(history, graph) ==
    LET n == Cardinality(Committed(history))
        round[k \in 0..(n * n + 1)] ==
            IF k = 0 THEN graph ELSE RefineRound(history, round[k - 1])
    IN  round[n * n + 1]

WritersOf(history, reader, x) ==
    {w \in Committed(history) \ {reader} : x \in DOMAIN FinalWrites(history.transactions[w])}

\* What an external read may have seen
ReadFrom(history, reader, access) ==
    LET writers == WritersOf(history, reader, access.loc)
        matching == {w \in writers :
                        FinalWrites(history.transactions[w])[access.loc] = access.value}
    IN  [reader |-> reader, alternatives |-> matching, conflicting |-> writers \ matching,
         initial |-> history.initial[access.loc] = access.value]

ReadsFrom(history) ==
    UNION {{ReadFrom(history, i, history.transactions[i].accesses[k])
              : k \in ExternalReads(history.transactions[i])} : i \in Committed(history)}

FirstGraph(history) ==
    LET txs == history.transactions
        nodes == Committed(history)
        reads == ReadsFrom(history)
        ofInitial == {r \in reads : r.initial /\ r.alternatives = {}}
        ofOne == {r \in reads : ~ r.initial /\ Cardinality(r.alternatives) = 1}
        inTime == {e \in nodes \X nodes : e[1] # e[2] /\ Precedes(txs[e[1]], txs[e[2]])}
    IN  [edges |-> UNION {inTime, UNION {{r.reader} \X r.conflicting : r \in ofInitial},
                          UNION {r.alternatives \X {r.reader} : r \in ofOne}},
         choices |-> reads \ (ofInitial \cup ofOne),
         inconsistent |-> (\E r \in reads : ~ r.initial /\ r.alternatives = {}),
         settled |-> FALSE]

BuildOrderingGraph(history) == RefineAll(history, FirstGraph(history))

-----------------------------------------------------------------------------
(* Orders of committed transactions.                                       *)

Placed(order) == {order[k] : k \in DOMAIN order}

\* The prefix states: what the first k transactions of an order leave behind
StatesAfter(history, order) ==
    LET states[k \in 0..Len(order)] ==
            IF k = 0 THEN history.initial
            ELSE After(history.transactions[order[k]], states[k - 1])
    IN  states

-----------------------------------------------------------------------------
(* The observers: each is placed after some prefix of the committed order. *)

PrefixRespectsRealTime(history, o, order, p) ==
    LET txs == history.transactions
    IN  \A i \in DOMAIN order : /\ Precedes(txs[order[i]], txs[o]) => i <= p
                                /\ Precedes(txs[o], txs[order[i]]) => i > p

PrefixCompatible(history, assignment, o, p) ==
    LET txs == history.transactions
    IN  \A other \in DOMAIN assignment :
            /\ Precedes(txs[other], txs[o]) => assignment[other] <= p
            /\ Precedes(txs[o], txs[other]) => p <= assignment[other]

Assign(assignment, o, p) ==
    [other \in DOMAIN assignment \cup {o} |-> IF other = o THEN p ELSE assignment[other]]

\* The observer with the fewest prefixes left is placed next
MostConstrained(viable) ==
    CHOOSE o \in DOMAIN viable : \A other \in DOMAIN viable :
        Cardinality(viable[o]) <= Cardinality(viable[other])

Assignments(history, n) == UNION {[S -> 0..n] : S \in SUBSET Observers(history)}

SearchObserverPrefixes(history, candidates, n) ==
    LET viable(a) == [o \in Observers(history) \ DOMAIN a |->
                        {p \in candidates[o] : PrefixCompatible(history, a, o, p)}]
        search[a \in Assignments(history, n)] ==
            \/ Observers(history) \subseteq DOMAIN a
            \/ /\ \A o \in DOMAIN viable(a) : viable(a)[o] # {}
               /\ LET o == MostConstrained(viable(a))
                  IN  \E p \in viable(a)[o] : search[Assign(a, o, p)]
    IN  search[<<>>]

VerifyObservers(history, order) ==
    LET states == StatesAfter(history, order)
        candidates == [o \in Observers(history) |->
            {p \in 0..Len(order) : /\ PrefixRespectsRealTime(history, o, order, p)
                                   /\ ReadsValid(history.transactions[o], states[p])}]
    IN  /\ \A o \in Observers(history) : candidates[o] # {}
        /\ SearchObserverPrefixes(history, candidates, Len(order))

-----------------------------------------------------------------------------
(* The search for a serial order of the committed transactions.            *)

\* Seeded bug: only the read-from choices are looked at
SourcesPlaced(graph, order, candidate) ==
    \A c \in {d \in graph.choices : d.reader = candidate} :
        c.initial \/ c.alternatives \cap Placed(order) # {}

PredecessorsPlaced(graph, order, candidate) ==
    LET latest(c) == Latest({k \in DOMAIN order : order[k] \in c.alternatives \cup c.conflicting})
    IN  /\ \A e \in graph.edges : e[2] = candidate => e[1] \in Placed(order)
        /\ \A c \in {d \in graph.choices : d.reader = candidate} :
             /\ c.initial \/ c.alternatives \cap Placed(order) # {}
             /\ latest(c) # 0 => order[latest(c)] \in c.alternatives

StateOf(history, order) == StatesAfter(history, order)[Len(order)]

\* Seeded bug: the memo does not tell states apart
SearchKeyPlaced(history, order) == Placed(order)

SearchKey(history, order) == <<Placed(order), StateOf(history, order)>>

\* What the search is asked: an order to go on from, the orders that failed so far, how
\* many complete orders were tried, and whether the limit was met
Questions(history) ==
    [order : Seq(DOMAIN history.transactions), memo : SUBSET Seq(DOMAIN history.transactions),
     explored : Nat, exceeded : BOOLEAN]

Remembered(history, q) ==
    \E failed \in q.memo : SearchKey(history, failed) = SearchKey(history, q.order)

\* The answer so far when nothing was tried: completed says that the subtree of the
\* question completed an order
Untried(q) == [found |-> FALSE, completed |-> FALSE, order |-> <<>>, memo |-> q.memo,
               explored |-> q.explored, exceeded |-> q.exceeded]

TryCandidate(problem, search, q, i, before) ==
    LET history == problem.history
        child == search[[order |-> Append(q.order, i), memo |-> before.memo,
                         explored |-> before.explored, exceeded |-> before.exceeded]]
    IN  IF \/ before.found \/ i \notin Committed(history) \/ i \in Placed(q.order)
           \/ ~ PredecessorsPlaced(problem.graph, q.order, i)
           \/ ~ ReadsValid(history.transactions[i], StateOf(history, q.order))
        THEN before
        ELSE [child EXCEPT !.completed = @ \/ before.completed]

TryCandidates(problem, search, q) ==
    LET tried[i \in 0..Len(problem.history.transactions)] ==
            IF i = 0 THEN Untried(q) ELSE TryCandidate(problem, search, q, i, tried[i - 1])
    IN  tried[Len(problem.history.transactions)]

CompleteOrder(problem, q) ==
    IF problem.limit # 0 /\ q.explored >= problem.limit
    THEN [Untried(q) EXCEPT !.exceeded = TRUE]
    ELSE [Untried(q) EXCEPT !.explored = @ + 1, !.completed = TRUE, !.order = q.order,
                            !.found = VerifyObservers(problem.history, q.order)]

Answer(problem, search, q) ==
    LET tried == TryCandidates(problem, search, q)
    IN  IF Len(q.order) = Cardinality(Committed(problem.history)) THEN CompleteOrder(problem, q)
        ELSE IF Remembered(problem.history, q) THEN Untried(q)
        ELSE IF tried.found \/ tried.completed \/ tried.exceeded THEN tried
        ELSE [tried EXCEPT !.memo = @ \cup {q.order}]

SearchCommittedOrder(problem) ==
    LET search[q \in Questions(problem.history)] == Answer(problem, search, q) IN search

\* The verdict, and the order of the committed transactions that shows it
VerifyStmOpacity(history, limit) ==
    LET graph == BuildOrderingGraph(history)
        first == [order |-> <<>>, memo |-> {}, explored |-> 0, exceeded |-> FALSE]
        answer == SearchCommittedOrder([history |-> history, graph |-> graph, limit |-> limit])[first]
    IN  IF graph.inconsistent THEN [status |-> "violation", order |-> <<>>]
        ELSE IF answer.found THEN [status |-> "ok", order |-> answer.order]
        ELSE [status |-> IF answer.exceeded THEN "search_limit_exceeded" ELSE "violation",
              order |-> <<>>]

-----------------------------------------------------------------------------
(* The reference: a total order of all transactions that extends real time *)
(* and in which each one reads what the committed ones before it left.     *)

Places(history) ==
    {place \in [DOMAIN history.transactions -> DOMAIN history.transactions] :
        \A i, j \in DOMAIN history.transactions : i # j => place[i] # place[j]}

StateBefore(history, place, i) ==
    LET txs == history.transactions
        earlier(x) == {j \in Committed(history) : place[j] < place[i] /\ x \in DOMAIN FinalWrites(txs[j])}
        last(x) == CHOOSE j \in earlier(x) : \A k \in earlier(x) : place[k] <= place[j]
    IN  [x \in DOMAIN history.initial |->
            IF earlier(x) = {} THEN history.initial[x] ELSE FinalWrites(txs[last(x)])[x]]

Explains(history, place) ==
    LET txs == history.transactions
    IN  \A i \in DOMAIN txs :
            /\ \A j \in DOMAIN txs : Precedes(txs[i], txs[j]) => place[i] < place[j]
            /\ ReadsValid(txs[i], StateBefore(history, place, i))

Opaque(history) == \E place \in Places(history) : Explains(history, place)

\* The transactions of order are the committed ones, and some order that has
\* them in this order explains all
Witness(history, order) ==
    /\ Placed(order) = Committed(history)
    /\ \E place \in Places(history) :
         /\ \A k, l \in DOMAIN order : k < l => place[order[k]] < place[order[l]]
         /\ Explains(history, place)
=============================================================================
