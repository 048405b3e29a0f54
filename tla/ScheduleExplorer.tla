-------------------------- MODULE ScheduleExplorer --------------------------
(***************************************************************************)
(* ModelCheckingOptions::check of one scenario.  check_scenario searches   *)
(* its schedules: a prefix of a schedule is taken from the frontier and    *)
(* run, and the other choices its run could have made are new prefixes;    *)
(* one action is one turn of the loop.  When a run fails, minimize takes   *)
(* actors away one at a time and searches again, as long as that fails.    *)
(***************************************************************************)
EXTENDS ScheduleRun

CONSTANTS
    Scenarios,      \* the scenarios under test
    Configurations, \* the options: see Options
    Weight(_, _)    \* frontier_prefix_weight, of a seed and a prefix

\* seed, max_schedule_length, max_context_switches_per_schedule,
\* invocations_per_iteration and minimize_failed_scenario
Options == [seed : Nat, length : Nat \ {0}, switches : Int, invocations : Nat \ {0}, minimize : BOOLEAN]

ASSUME ScenariosAssumption == Scenarios \subseteq ScenarioType
ASSUME ConfigurationsAssumption == Configurations \subseteq Options

VARIABLES
    scenario, config,   \* what is being searched, and how
    frontier,           \* the prefixes to be run
    seen,               \* seen_prefixes
    depth,              \* current_context_depth
    explored,
    phase,
    runs,               \* history: the prefixes of this scenario that were run
    best,               \* the smallest failing scenario so far and how it failed, once there is one
    candidate           \* how many ways to make it smaller minimize has tried

searchVars == <<frontier, seen, depth, explored, phase, runs>>
minimizeVars == <<best, candidate>>
vars == <<scenario, config, searchVars, minimizeVars>>

Threads == ThreadsOf(scenario)

-----------------------------------------------------------------------------
\* The elements of sequence s that are in S, in their order (SelectSeq, in a form
\* that proofs can unfold)
Kept(s, S) ==
    LET kept[i \in 0 .. Len(s)] ==
            IF i = 0 THEN <<>>
            ELSE IF s[i] \in S THEN Append(kept[i - 1], s[i]) ELSE kept[i - 1]
    IN  kept[Len(s)]

\* schedule_context_switches
ContextSwitches(s) == Cardinality({i \in 2 .. Len(s) : s[i] # s[i - 1]})

\* context_switch_depth_limit
DepthLimit == IF config.switches >= 0 THEN config.switches ELSE config.length - 1

\* Seeded bug of Admitted: the context switches are not bounded
AdmittedUnbounded(s) == Len(s) <= config.length

\* enqueue_schedule_prefix takes prefix s, if it is new
Admitted(s) ==
    Len(s) <= config.length /\ (config.switches >= 0 => ContextSwitches(s) <= config.switches)

\* One prefix for each thread of scenario c that may run first.  A seed also shuffles
\* them, and the alternatives below (schedule_choice_order): among prefixes of one
\* weight only, which take_next_frontier_schedule would else take in this order
FirstPrefixes(c) == [i \in DOMAIN c.parallel |-> <<i - 1>>]

Init ==
    /\ scenario \in Scenarios
    /\ config \in Configurations
    /\ frontier = FirstPrefixes(scenario)
    /\ seen = ToSet(frontier)
    /\ depth = 0
    /\ explored = 0
    /\ phase = "exploring"
    /\ runs = {}
    /\ best = <<>>
    /\ candidate = 0

-----------------------------------------------------------------------------
\* The threads as active_threads_locked lists them
ThreadOrder == [i \in DOMAIN scenario.parallel |-> i - 1]

\* Seeded bug of Alternatives: only the decisions after prefix s branch
AlternativesAfter(r, s) ==
    LET choices(i) == Kept(ThreadOrder, r.decisions[i].runnable \ {r.decisions[i].chosen})
        base(i) == SubSeq(Reported(r), 1, i - 1)
    IN  FlattenSeq([i \in 1 .. Len(r.decisions) |->
            IF i <= Len(s) + 1 THEN <<>>
            ELSE [k \in DOMAIN choices(i) |-> Append(base(i), choices(i)[k])]])

\* enqueue_observed_alternatives: at each decision of run r, of prefix s, what
\* else could have been chosen after what was chosen before
Alternatives(r, s) ==
    LET choices(i) == Kept(ThreadOrder, r.decisions[i].runnable \ {r.decisions[i].chosen})
        base(i) == SubSeq(Reported(r), 1, i - 1)
    IN  FlattenSeq([i \in 1 .. Len(r.decisions) |->
            [k \in DOMAIN choices(i) |-> Append(base(i), choices(i)[k])]])

Shallow(i) == ContextSwitches(frontier[i]) <= depth

\* Of two prefixes which may both be run, the one at i goes before the one at j
Precedes(i, j) ==
    \/ Weight(config.seed, frontier[i]) < Weight(config.seed, frontier[j]) /\ config.seed # 0
    \/ i <= j /\ Weight(config.seed, frontier[i]) <= Weight(config.seed, frontier[j])
    \/ i <= j /\ config.seed = 0

\* Seeded bug of Selectable: the context-switch depth is ignored
SelectableAny(i) == \A j \in DOMAIN frontier : Precedes(i, j)

\* take_next_frontier_schedule: without a seed the first shallow prefix, with
\* one the first of the least weight
Selectable(i) == Shallow(i) /\ \A j \in DOMAIN frontier : Shallow(j) => Precedes(i, j)

\* Those of the prefixes that enqueue_schedule_prefix appends to the frontier
New(prefixes) == {s \in ToSet(prefixes) : Admitted(s) /\ s \notin seen}

\* Run the selected prefix; a failing run ends the search
RunSchedule ==
    /\ phase = "exploring"
    /\ explored < config.invocations
    /\ \E i \in {j \in DOMAIN frontier : Selectable(j)} : \E r \in {Run(scenario, frontier[i])} :
        /\ runs' = runs \cup {frontier[i]}
        /\ \/ /\ r.outcome # "passed"
              /\ phase' = "failed"
              /\ frontier' = RemoveAt(frontier, i)
              /\ best' = <<[scenario |-> scenario, schedule |-> frontier[i], outcome |-> r.outcome]>>
              /\ candidate' = 0
              /\ UNCHANGED seen
           \/ /\ r.outcome = "passed"
              /\ \E prefixes \in {Alternatives(r, frontier[i])} : \E new \in {New(prefixes)} :
                    /\ frontier' = RemoveAt(frontier, i) \o Kept(prefixes, new)
                    /\ seen' = seen \cup new
              /\ UNCHANGED <<phase, minimizeVars>>
    /\ explored' = explored + 1
    /\ UNCHANGED <<scenario, config, depth>>

\* invocations_per_iteration runs have been made, and there is another one
BudgetSpent ==
    /\ phase = "exploring"
    /\ explored >= config.invocations
    /\ {i \in DOMAIN frontier : Shallow(i)} # {}
    /\ phase' = "cut"
    /\ UNCHANGED <<scenario, config, frontier, seen, depth, explored, runs, minimizeVars>>

FrontierDepths == {ContextSwitches(frontier[i]) : i \in DOMAIN frontier}

\* Seeded bug of NextDepth: one context switch is not counted
NextDepthShort == Min(FrontierDepths) - 1

\* next_frontier_context_depth
NextDepth == Min(FrontierDepths)

\* Nothing shallow is left: on to the next depth
Deepen ==
    /\ phase = "exploring"
    /\ frontier # <<>>
    /\ \A i \in DOMAIN frontier : ~Shallow(i)
    /\ NextDepth <= DepthLimit
    /\ depth' = NextDepth
    /\ UNCHANGED <<scenario, config, frontier, seen, explored, phase, runs, minimizeVars>>

\* Nothing is left that may be run
Stop ==
    /\ phase = "exploring"
    /\ \A i \in DOMAIN frontier : ~Shallow(i)
    /\ frontier # <<>> => NextDepth > DepthLimit
    /\ phase' = "passed"
    /\ UNCHANGED <<scenario, config, frontier, seen, depth, explored, runs, minimizeVars>>

-----------------------------------------------------------------------------
(* minimize.                                                               *)

\* Scenario c without actor i of thread t; a thread that has no actor left goes too
WithoutActor(c, t, i) ==
    LET threads == [c.parallel EXCEPT ![t] = RemoveAt(@, i)]
    IN  [c EXCEPT !.parallel = Kept(threads, ToSet(threads) \ {<<>>})]

\* Scenario c without one of its actors: init, then post, then the threads; something must remain
Smaller(c) ==
    LET fewer == FlattenSeq([t \in DOMAIN c.parallel |->
                     [i \in DOMAIN c.parallel[t] |-> WithoutActor(c, t, i)]])
    IN  [i \in DOMAIN c.init |-> [c EXCEPT !.init = RemoveAt(@, i)]]
        \o [i \in DOMAIN c.post |-> [c EXCEPT !.post = RemoveAt(@, i)]]
        \o Kept(fewer, {d \in ToSet(fewer) : d.parallel # <<>>})

\* Seeded bug of Untried: the first actor is never left out
UntriedButFirst == SubSeq(Smaller(Head(best).scenario), candidate + 2, Len(Smaller(Head(best).scenario)))

\* The smaller scenarios of the best failure that are still to be tried
Untried == SubSeq(Smaller(Head(best).scenario), candidate + 1, Len(Smaller(Head(best).scenario)))

Searched == phase # "exploring"
Minimizing == Searched /\ best # <<>> /\ config.minimize /\ Untried # <<>>

\* Search the next smaller scenario
TryCandidate ==
    /\ Minimizing
    /\ scenario' = Head(Untried)
    /\ candidate' = candidate + 1
    /\ frontier' = FirstPrefixes(scenario')
    /\ seen' = ToSet(frontier')
    /\ depth' = 0 /\ explored' = 0 /\ runs' = {}
    /\ phase' = "exploring"
    /\ UNCHANGED <<config, best>>

\* check returns
Returned == Searched /\ ~Minimizing

Done == Returned /\ UNCHANGED vars

Next == RunSchedule \/ BudgetSpent \/ Deepen \/ Stop \/ TryCandidate \/ Done

Spec == Init /\ [][Next]_vars

\* The search runs in one thread, which goes on
FairSpec == Spec /\ WF_vars(RunSchedule \/ BudgetSpent \/ Deepen \/ Stop \/ TryCandidate)

-----------------------------------------------------------------------------
\* The schedules of up to n choices
Schedules(n) == BoundedSeq(Threads, n) \ {<<>>}

\* Types of the search's state (check_scenario's local variables); nothing
\* beyond the bounds is ever queued
TypeOK ==
    /\ scenario \in ScenarioType
    /\ config \in Configurations
    /\ frontier \in Seq(Seq(Threads))
    /\ seen \subseteq Schedules(config.length)
    /\ \A s \in seen : ContextSwitches(s) <= DepthLimit
    /\ depth \in 0 .. DepthLimit
    /\ explored \in Nat
    /\ phase \in {"exploring", "failed", "cut", "passed"}
    /\ runs \subseteq seen
    /\ candidate \in 0 .. (IF best = <<>> THEN 0 ELSE Len(Smaller(Head(best).scenario)))

-----------------------------------------------------------------------------
(* What is to be found.  The prefixes and the bounds are those of the      *)
(* options, the runs those of the scenario, and nothing is said of how the *)
(* search goes about it.                                                   *)

\* Scenario c can go as s says, and the options allow it
FeasibleIn(c, s) == ContextSwitches(s) <= DepthLimit /\ IsPrefix(s, Reported(Run(c, s)))
Feasible(s) == FeasibleIn(scenario, s)

Executed == {Reported(Run(scenario, s)) : s \in runs}

\* The search passes only when every schedule within the bounds was run: each
\* feasible choice up to max_schedule_length, followed by the continuation of
\* the current thread, with no failure among them
\* (PORTING_LINCHECK_TO_CPP.md, "bounded exhaustive" in README.md)
Complete ==
    phase = "passed" =>
        LET executed == Executed IN
        \A s \in Schedules(config.length) :
            Feasible(s) => Reported(Run(scenario, s)) \in executed /\ Run(scenario, s).outcome = "passed"

MostSwitches(R) == Max({ContextSwitches(s) : s \in R} \cup {0})

\* Shallower context-switch depths are exhausted first (take_next_frontier_schedule,
\* next_frontier_context_depth): before the first run of a prefix with d context
\* switches, whatever has fewer was run
ShallowFirst ==
    [][MostSwitches(runs') > MostSwitches(runs) =>
            LET executed == Executed IN
            \A s \in Schedules(config.length) :
                Feasible(s) /\ ContextSwitches(s) < MostSwitches(runs')
                    => Reported(Run(scenario, s)) \in executed]_vars

\* The reported schedule of every run replays: it is consumed exactly and gives
\* the same decisions and the same outcome (replay, replay_schedule_error)
ReportReplays ==
    phase # "exploring" => \A s \in runs :
        LET r == Run(scenario, s)
            again == Run(scenario, Reported(r))
        IN  /\ ReplayError(again, Reported(r)) = "none"
            /\ again.decisions = r.decisions /\ again.outcome = r.outcome

\* ... and nothing else replays: a schedule that ends early, chooses a thread
\* that cannot run or goes on after the end is refused
OthersRefused ==
    runs = {} /\ best = <<>> =>
        \A s \in Schedules(config.length + 1) :
            LET r == Run(scenario, s) IN ReplayError(r, s) = "none" <=> Reported(r) = s

\* The budget is no bound: there are not as many prefixes
Exhaustive(c) == config.invocations >= Cardinality(BoundedSeq(ThreadsOf(c), config.length))

\* What check reports fails, as reported, on the scenario it is reported for, and that scenario
\* has no actor to spare: within the bounds of the options every schedule of each smaller one
\* passes (minimize; README.md, "those retained-run counters describe the minimized reproducer")
MinimalReport ==
    Returned /\ best # <<>> =>
        /\ Run(Head(best).scenario, Head(best).schedule).outcome = Head(best).outcome
        /\ config.minimize => \A c \in ToSet(Smaller(Head(best).scenario)) :
              Exhaustive(c) => \A s \in BoundedSeq(ThreadsOf(c), config.length) \ {<<>>} :
                                  FeasibleIn(c, s) => Run(c, s).outcome = "passed"

\* The search ends, whatever the bounds are
SearchEnds == <>[]Returned

\* Only unexplored alternative prefixes are enqueued (README_ARCHIVE.md): no
\* schedule is run twice
NothingTwice == Cardinality(Executed) = Cardinality(runs)
=============================================================================
