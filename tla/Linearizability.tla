-------------------------- MODULE Linearizability --------------------------
(***************************************************************************)
(* LinearizabilityVerifier: is there a sequential order of the operations  *)
(* of a run, legal for the sequential model and for real time, that gives  *)
(* the results the run observed?  VerifyParallel is the search of the code *)
(* with the memo of failed positions; Linearizable is the definition.      *)
(*                                                                         *)
(* A run is [operations, scenario, results, intervals, keyed, report]:     *)
(* results as the scenario, with values for actors; intervals of the       *)
(* parallel threads; keyed when the specification has a state key; report  *)
(* when it is verify_with_report that asks.  The sequential model under    *)
(* test is external: any function of an operation and a state, and its     *)
(* state key tells any two states apart.                                   *)
(***************************************************************************)
EXTENDS Integers, Sequences, FiniteSets

CONSTANTS
    Names, Values,      \* of operations, and of their results
    States, Fresh,      \* of the sequential model, and the one it is made in
    Sequential(_, _),   \* an operation in a state: [throws, value, next]
    Thrown              \* the result of an operation that threw what it may throw

ASSUME SequentialAssumption ==
    /\ Fresh \in States /\ Thrown \in Values
    /\ \A name \in Names, state \in States :
          Sequential(name, state) \in [throws : BOOLEAN, value : Values, next : States]

\* An exception is a result when the operation's options say so, and leaves the verifier if not
RunSequential(operation, state) ==
    LET answer == Sequential(operation.name, state)
    IN  IF answer.throws /\ operation.exceptionResults
        THEN [answer EXCEPT !.throws = FALSE, !.value = Thrown] ELSE answer

ApplyActor(operation, expected, so_far) ==
    LET answer == RunSequential(operation, so_far.state)
    IN  IF so_far.verdict # "yes" THEN so_far
        ELSE IF answer.throws THEN [so_far EXCEPT !.verdict = "throws"]
        ELSE IF answer.value # expected THEN [so_far EXCEPT !.verdict = "no"]
        ELSE [so_far EXCEPT !.state = answer.next]

\* apply_sequence: [verdict, state], the verdict "yes", "no" or "throws"
ApplySequence(operations, actors, expected, state) ==
    LET applied[i \in 0..Len(actors)] ==
            IF i = 0 THEN [verdict |-> "yes", state |-> state]
            ELSE ApplyActor(operations[actors[i]], expected[i], applied[i - 1])
    IN  IF Len(actors) # Len(expected) THEN [verdict |-> "no", state |-> state]
        ELSE applied[Len(actors)]

-----------------------------------------------------------------------------
(* The search.  positions[t] is the actor of thread t to place next.       *)

Pending(run, positions, t) == positions[t] <= Len(run.scenario.parallel[t])

CompleteIntervals(run) ==
    /\ DOMAIN run.intervals = DOMAIN run.scenario.parallel
    /\ \A t \in DOMAIN run.intervals : Len(run.intervals[t]) = Len(run.scenario.parallel[t])

\* With ties between clocks, this also orders operations that overlapped
BlockedByTies(run, positions, t) ==
    /\ CompleteIntervals(run)
    /\ \E u \in DOMAIN positions : \E p \in positions[u]..Len(run.intervals[u]) :
          /\ <<u, p>> # <<t, positions[t]>>
          /\ run.intervals[u][p].response <= run.intervals[t][positions[t]].invocation

\* real_time_blocker: an operation not yet placed ended before this one began.  A clock of 0
\* was not read.
Blocked(run, positions, t) ==
    /\ CompleteIntervals(run)
    /\ \E u \in DOMAIN positions : \E p \in positions[u]..Len(run.intervals[u]) :
          /\ <<u, p>> # <<t, positions[t]>>
          /\ run.intervals[u][p].response # 0
          /\ run.intervals[u][p].response < run.intervals[t][positions[t]].invocation

Positions(run) == [DOMAIN run.scenario.parallel -> Nat \ {0}]

CacheKey(positions, state) == <<positions, state>>

\* What verify_parallel is asked: failed is the memo it is given
Questions(run) ==
    [positions : Positions(run), state : States, failed : SUBSET (Positions(run) \X States)]

\* Seeded bug: a memo that forgets how far each thread has come
RememberedState(run, q) ==
    run.keyed /\ ~run.report /\ \E key \in q.failed : key[2] = q.state

\* The memo of failures is read only when no report is asked for
Remembered(run, q) ==
    run.keyed /\ ~run.report /\ CacheKey(q.positions, q.state) \in q.failed

\* The candidate of thread t, after what came of the candidates before it
TryThread(run, search, q, t, before) ==
    LET answer == RunSequential(run.operations[run.scenario.parallel[t][q.positions[t]]], q.state)
    IN  IF \/ before.verdict # "no"
           \/ ~Pending(run, q.positions, t)
           \/ q.positions[t] > Len(run.results.parallel[t])
           \/ Blocked(run, q.positions, t)
        THEN before
        ELSE IF answer.throws THEN [before EXCEPT !.verdict = "throws"]
        ELSE IF answer.value # run.results.parallel[t][q.positions[t]] THEN before
        ELSE search[[positions |-> [q.positions EXCEPT ![t] = @ + 1], state |-> answer.next,
                     failed |-> before.failed]]

TryThreads(run, search, q) ==
    LET tried[t \in 0..Len(run.scenario.parallel)] ==
            IF t = 0 THEN [verdict |-> "no", failed |-> q.failed]
            ELSE LET before == tried[t - 1] IN TryThread(run, search, q, t, before)
    IN  tried[Len(run.scenario.parallel)]

\* [verdict, failed].  A success is returned through every level at once, so the memo of
\* successes is never read.
Answer(run, search, q) ==
    IF \A t \in DOMAIN q.positions : ~Pending(run, q.positions, t)
    THEN [verdict |-> ApplySequence(run.operations, run.scenario.post, run.results.post,
                                    q.state).verdict,
          failed |-> q.failed]
    ELSE IF Remembered(run, q) THEN [verdict |-> "no", failed |-> q.failed]
    ELSE LET tried == TryThreads(run, search, q)
         IN  IF tried.verdict = "no" /\ run.keyed
             THEN [tried EXCEPT !.failed = @ \cup {CacheKey(q.positions, q.state)}]
             ELSE tried

VerifyParallel(run) == LET search[q \in Questions(run)] == Answer(run, search, q) IN search

\* verify and verify_with_report
Verify(run) ==
    LET start == ApplySequence(run.operations, run.scenario.init, run.results.init, Fresh)
        first == [positions |-> [t \in DOMAIN run.scenario.parallel |-> 1],
                  state |-> start.state, failed |-> {}]
    IN  IF start.verdict # "yes" THEN start.verdict ELSE VerifyParallel(run)[first].verdict

-----------------------------------------------------------------------------
(* What the verdict means.                                                 *)

ParallelPlaces(run) ==
    UNION {{t} \X DOMAIN run.scenario.parallel[t] : t \in DOMAIN run.scenario.parallel}

\* a must come before b in every linearisation: program order, or a ended before b began
Before(run, a, b) ==
    \/ a[1] = b[1] /\ a[2] < b[2]
    \/ run.intervals[a[1]][a[2]].response < run.intervals[b[1]][b[2]].invocation

\* The states that actors lead through
StatesFrom(operations, actors, state) ==
    LET states[i \in 0..Len(actors)] ==
            IF i = 0 THEN state ELSE RunSequential(operations[actors[i]], states[i - 1]).next
    IN  states

\* Actors that run one after the other have these results
Legal(operations, actors, results, state) ==
    LET states == StatesFrom(operations, actors, state)
    IN  /\ Len(actors) = Len(results)
        /\ \A i \in 1..Len(actors) :
              LET answer == RunSequential(operations[actors[i]], states[i - 1])
              IN  ~answer.throws /\ answer.value = results[i]

\* One sequential execution of everything: init, the parallel part in this order, post
Replays(run, order) ==
    LET parallel == [i \in DOMAIN order |-> run.scenario.parallel[order[i][1]][order[i][2]]]
        results == [i \in DOMAIN order |-> run.results.parallel[order[i][1]][order[i][2]]]
        after(actors, state) == StatesFrom(run.operations, actors, state)[Len(actors)]
        begun == after(run.scenario.init, Fresh)
    IN  /\ Legal(run.operations, run.scenario.init, run.results.init, Fresh)
        /\ Legal(run.operations, parallel, results, begun)
        /\ Legal(run.operations, run.scenario.post, run.results.post, after(parallel, begun))

Linearizable(run) ==
    LET places == ParallelPlaces(run)
        n == Cardinality(places)
    IN  \E order \in {f \in [1..n -> places] : \A i, j \in 1..n : i # j => f[i] # f[j]} :
            /\ \A i, j \in 1..n : i < j => ~Before(run, order[j], order[i])
            /\ Replays(run, order)
=============================================================================
