----------------------------- MODULE StressRun -----------------------------
(***************************************************************************)
(* StressOptions::check and run_invocation: scenarios are drawn, each is   *)
(* run on real threads over a fresh object, and the results are judged.    *)
(*                                                                         *)
(* Section 0 of a scenario is init and the last one is post; the main      *)
(* thread runs both.  Sections 1, 2, ... are run by worker threads, which  *)
(* wait on start_cv until all are ready.  The object under test is         *)
(* external: it does what the sequential model does, in one step, or, when *)
(* it is racy, in a load and a store.  The deadline of an invocation is    *)
(* cooperative: it is noticed at the events of DeadlineRuntime and where   *)
(* run_invocation looks at the clock.                                      *)
(***************************************************************************)
EXTENDS Linearizability, ScenarioGenerator

CONSTANTS
    Configs,    \* [threads, perThread, before, after, iterations, invocations, timeout,
                \*  clock, object, operations, invalid]; invocations = 0 bounds the model to
                \*  the generator
    MaxThreads,
    TimeoutValue    \* the value of an operation that died of the deadline

OperationOptions ==
    [name : Names, oneShot : BOOLEAN, nonParallel : BOOLEAN, group : Names \cup {NoGroup},
     exceptionResults : BOOLEAN]

ASSUME ConfigsAssumption ==
    /\ MaxThreads \in Nat \ {0}
    /\ \A c \in Configs :
          /\ c.threads \in 1..MaxThreads
          /\ {c.perThread, c.before, c.after, c.invocations} \subseteq Nat
          /\ c.iterations \in Nat \ {0}
          /\ c.timeout \in BOOLEAN
          /\ c.clock \in {"atomic", "rdtsc"} /\ c.object \in {"atomic", "racy"}
          /\ c.operations \in Seq(OperationOptions) /\ c.operations # <<>>
          /\ c.invalid \subseteq States

\* An operation that ran to its end did not die of the deadline
ASSUME TimeoutValueAssumption == TimeoutValue \notin Values

VARIABLES
    config,      \* the options and the specification under test
    phase,       \* generate, init, parallel, post, verify, done
    iteration, invocation,
    lists,       \* the scenario: the actors of each section, by the index of their operation
    generation,  \* [section, state]: where the generator is
    object,      \* the value of the object under test
    clock,       \* the ClockSource
    expired,     \* has the deadline of the invocation passed
    start,       \* [ready, flag, main]: what start_mutex guards, and whether main sleeps
    section,     \* run_concurrent_sequence of each section
    exception,   \* the first exception of a worker
    execution,   \* the ExecutionResult of a run that ended well
    outcome      \* what check returns or throws, "none" before

vars == <<config, phase, iteration, invocation, lists, generation, object, clock, expired,
          start, section, exception, execution, outcome>>

Post == config.threads + 1
Sections == 0..Post
Workers == 1..config.threads

Scenario == [init |-> lists[0], parallel |-> [t \in Workers |-> lists[t]], post |-> lists[Post]]

\* Before an operation is under way its value, its clock and what it loaded mean nothing
Idle == [at |-> "idle", actor |-> 1, value |-> Thrown, invoked |-> 1, loaded |-> Fresh,
         results |-> <<>>, intervals |-> <<>>]

NoExecution == [results |-> <<>>, intervals |-> <<>>]

NotStarted == [ready |-> 0, flag |-> FALSE, main |-> "spawning"]

Init ==
    /\ config \in Configs
    /\ phase = "generate" /\ iteration = 1 /\ invocation = 0
    /\ lists = [s \in Sections |-> <<>>]
    /\ generation = [section |-> 0, state |-> FreshGeneration]
    /\ object = Fresh /\ clock = 1 /\ expired = FALSE
    /\ start = NotStarted
    /\ section = [s \in Sections |-> Idle]
    /\ exception = "none" /\ outcome = "none"
    /\ execution = NoExecution

Finish(result) == phase' = "done" /\ outcome' = result

-----------------------------------------------------------------------------
(* RandomExecutionGenerator::next *)

Count(s) == CASE s = 0 -> config.before [] s = Post -> config.after [] OTHER -> config.perThread

ParallelThread(s) == IF s \in Workers THEN s ELSE Unthreaded

Drawable == Candidates(config.operations, generation.state, ParallelThread(generation.section))

GenerateActor ==
    /\ phase = "generate" /\ generation.section \in Sections
    /\ Len(lists[generation.section]) < Count(generation.section)
    /\ \E i \in Drawable :
          /\ lists' = [lists EXCEPT ![generation.section] = Append(@, i)]
          /\ generation' = [generation EXCEPT !.state =
                 MarkGenerated(config.operations, i, @, ParallelThread(generation.section))]
    /\ UNCHANGED <<config, phase, iteration, invocation, object, clock, expired, start, section,
                   exception, execution, outcome>>

\* A section ends when it has its count, or short of it when nothing may be drawn
EndList ==
    /\ phase = "generate" /\ generation.section \in Sections
    /\ Len(lists[generation.section]) = Count(generation.section) \/ Drawable = {}
    /\ generation' = [generation EXCEPT !.section = @ + 1]
    /\ UNCHANGED <<config, phase, iteration, invocation, lists, object, clock, expired, start,
                   section, exception, execution, outcome>>

NextIteration ==
    IF iteration = config.iterations
    THEN Finish("success") /\ UNCHANGED <<iteration, lists, generation>>
    ELSE /\ phase' = "generate" /\ iteration' = iteration + 1
         /\ lists' = [s \in Sections |-> <<>>]
         /\ generation' = [section |-> 0, state |-> FreshGeneration]
         /\ UNCHANGED outcome

\* run_invocation, with an object made anew, up to its first operation
BeginInvocation ==
    /\ phase' = "init" /\ invocation' = invocation + 1
    /\ object' = Fresh
    /\ expired' = FALSE /\ start' = NotStarted /\ exception' = "none"
    /\ section' = [s \in Sections |-> [Idle EXCEPT !.at = IF s = 0 THEN "next" ELSE "idle"]]

\* A scenario without a parallel actor is passed over
EndGeneration ==
    /\ phase = "generate" /\ generation.section \notin Sections
    /\ IF HasParallelActor(Scenario) /\ config.invocations > 0
       THEN BeginInvocation /\ UNCHANGED <<iteration, lists, generation, outcome>>
       ELSE NextIteration /\ UNCHANGED <<invocation, object, expired, start, section, exception>>
    /\ UNCHANGED <<config, clock, execution>>

-----------------------------------------------------------------------------
(* run_concurrent_sequence under DeadlineRuntime *)

Operation(s) == config.operations[lists[s][section[s].actor]]

\* ClockSource::now: the shared counter never repeats, rdtscp may give two threads one value
ReadClock == clock' \in IF config.clock = "atomic" THEN {clock + 1} ELSE {clock, clock + 1}

RunUnchanged == UNCHANGED <<config, phase, iteration, invocation, lists, generation, expired,
                            start, exception, execution, outcome>>

\* operation.start: the invocation clock, then an event that notices the deadline
Invoke(s) ==
    /\ section[s].at = "next" /\ section[s].actor <= Len(lists[s])
    /\ ReadClock
    /\ section' = [section EXCEPT ![s].invoked = clock',
                                  ![s].value = IF expired THEN TimeoutValue ELSE @,
                                  ![s].at = IF expired THEN "failing" ELSE "called"]
    /\ UNCHANGED object /\ RunUnchanged

Answered(s, answer) ==
    section' = [section EXCEPT ![s].at = IF answer.throws THEN "thrown" ELSE "returned",
                               ![s].value = IF answer.throws THEN Thrown ELSE answer.value]

\* The operation, in one step
Perform(s) ==
    /\ section[s].at = "called" /\ config.object = "atomic"
    /\ LET answer == Sequential(Operation(s).name, object)
       IN  Answered(s, answer) /\ object' = answer.next
    /\ UNCHANGED clock /\ RunUnchanged

\* The operation of a racy object, in two
Load(s) ==
    /\ section[s].at = "called" /\ config.object = "racy"
    /\ section' = [section EXCEPT ![s].at = "loaded", ![s].loaded = object]
    /\ UNCHANGED <<object, clock>> /\ RunUnchanged

Store(s) ==
    /\ section[s].at = "loaded"
    /\ LET answer == Sequential(Operation(s).name, section[s].loaded)
       IN  Answered(s, answer) /\ object' = answer.next
    /\ UNCHANGED clock /\ RunUnchanged

\* A switch point of the object under test notices the deadline
DieInside(s) ==
    /\ section[s].at \in {"called", "loaded"} /\ expired
    /\ section' = [section EXCEPT ![s].at = "thrown", ![s].value = TimeoutValue]
    /\ UNCHANGED <<object, clock>> /\ RunUnchanged

\* An exception is the operation's result, or its interval is recorded and it leaves the sequence
Catch(s) ==
    /\ section[s].at = "thrown"
    /\ IF Operation(s).exceptionResults
       THEN section' = [section EXCEPT ![s].at = "returned"] /\ UNCHANGED clock
       ELSE /\ ReadClock
            /\ section' = [section EXCEPT ![s].at = "failing", ![s].intervals =
                   Append(@, [invocation |-> section[s].invoked, response |-> clock'])]
    /\ UNCHANGED object /\ RunUnchanged

\* operation.finish: the response clock, then an event that notices the deadline
Respond(s) ==
    /\ section[s].at = "returned"
    /\ ReadClock
    /\ section' = IF expired
                  THEN [section EXCEPT ![s].at = "failing", ![s].value = TimeoutValue]
                  ELSE [section EXCEPT
                           ![s].at = "next", ![s].actor = @ + 1,
                           ![s].results = Append(@, section[s].value),
                           ![s].intervals = Append(@, [invocation |-> section[s].invoked,
                                                       response |-> clock'])]
    /\ UNCHANGED object /\ RunUnchanged

Operate(s) ==
    Invoke(s) \/ Perform(s) \/ Load(s) \/ Store(s) \/ DieInside(s) \/ Catch(s) \/ Respond(s)

Finished(s) == section[s].at = "next" /\ section[s].actor > Len(lists[s])

Failure(value) == IF value = TimeoutValue THEN "timeout" ELSE "unexpected_exception"

-----------------------------------------------------------------------------
(* The worker threads and the barrier they start from *)

\* ready_workers counts up, unnoticed
ReadyUnheard(t) == [start EXCEPT !.ready = @ + 1]

\* ready_workers counts up, and notify_all wakes main and the workers
Ready(t) == [start EXCEPT !.ready = @ + 1, !.main = IF @ = "asleep" THEN "awake" ELSE @]

\* A worker enters start_mutex: it waits unless the flag is already up
Arrive(t) ==
    /\ phase = "parallel" /\ section[t].at = "idle"
    /\ start' = Ready(t)
    /\ section' = [section EXCEPT ![t].at = IF start.flag THEN "next" ELSE "asleep"]
    /\ UNCHANGED <<config, phase, iteration, invocation, lists, generation, object, clock, expired,
                   exception, execution, outcome>>

\* A catch that is there for the deadline only
KeptTimeout(t) ==
    IF exception = "none" /\ section[t].value = TimeoutValue THEN Failure(section[t].value) ELSE exception

\* The first exception of a worker is kept
Kept(t) == IF exception = "none" THEN Failure(section[t].value) ELSE exception

\* The catch of a worker
Keep(t) ==
    /\ phase = "parallel" /\ section[t].at = "failing"
    /\ exception' = Kept(t)
    /\ section' = [section EXCEPT ![t].at = "failed"]
    /\ UNCHANGED <<config, phase, iteration, invocation, lists, generation, object, clock, expired,
                   start, execution, outcome>>

Worker(t) == t \in Workers /\ (Arrive(t) \/ Operate(t) \/ Keep(t))

-----------------------------------------------------------------------------
(* The main thread of run_invocation *)

MainUnchanged == UNCHANGED <<config, iteration, invocation, lists, generation, object, clock,
                             expired, exception>>

\* An exception of init or post ends the invocation
FailSection(s) ==
    /\ section[s].at = "failing"
    /\ Finish(Failure(section[s].value))
    /\ UNCHANGED <<start, section, execution>> /\ MainUnchanged

EndInit ==
    /\ phase = "init" /\ Finished(0)
    /\ IF expired THEN Finish("timeout") ELSE phase' = "parallel" /\ UNCHANGED outcome
    /\ UNCHANGED <<start, section, execution>> /\ MainUnchanged

\* Main waits until all workers are ready, and raises the flag
Start ==
    /\ phase = "parallel" /\ start.main \in {"spawning", "awake"}
    /\ start' = IF start.ready = config.threads
                THEN [start EXCEPT !.flag = TRUE, !.main = "notifying"]
                ELSE [start EXCEPT !.main = "asleep"]
    /\ UNCHANGED <<phase, section, execution, outcome>> /\ MainUnchanged

NotifyAll ==
    /\ phase = "parallel" /\ start.main = "notifying"
    /\ start' = [start EXCEPT !.main = "joining"]
    /\ section' = [s \in Sections |->
                      IF section[s].at = "asleep" THEN [section[s] EXCEPT !.at = "next"] ELSE section[s]]
    /\ UNCHANGED <<phase, execution, outcome>> /\ MainUnchanged

Join ==
    /\ phase = "parallel" /\ start.main = "joining"
    /\ \A t \in Workers : Finished(t) \/ section[t].at = "failed"
    /\ IF exception # "none" THEN Finish(exception) /\ UNCHANGED section
       ELSE IF expired THEN Finish("timeout") /\ UNCHANGED section
       ELSE /\ phase' = "post" /\ UNCHANGED outcome
            /\ section' = [section EXCEPT ![Post].at = "next"]
    /\ UNCHANGED <<start, execution>> /\ MainUnchanged

Collected ==
    [results |-> [init |-> section[0].results,
                  parallel |-> [t \in Workers |-> section[t].results],
                  post |-> section[Post].results],
     intervals |-> [s \in Sections |-> section[s].intervals]]

\* After post the object is validated, then the deadline is looked at for the last time
EndPost ==
    /\ phase = "post" /\ Finished(Post)
    /\ IF object \in config.invalid THEN Finish("validation_failure") /\ UNCHANGED <<execution, section>>
       ELSE IF expired THEN Finish("timeout") /\ UNCHANGED <<execution, section>>
       ELSE /\ phase' = "verify" /\ execution' = Collected
            /\ section' = [s \in Sections |-> Idle]
            /\ UNCHANGED outcome
    /\ UNCHANGED start /\ MainUnchanged

Judged(keyed, report) ==
    [operations |-> config.operations, scenario |-> Scenario, results |-> execution.results,
     intervals |-> [t \in Workers |-> execution.intervals[t]], keyed |-> keyed, report |-> report]

\* verify_with_report, and the loops of check.  An exception of the sequential model leaves check.
Judge ==
    /\ phase = "verify"
    /\ \E run \in {Judged(FALSE, TRUE)} : \E verdict \in {Verify(run)} :
          CASE verdict = "throws" ->
                  Finish("verifier_exception")
                    /\ UNCHANGED <<iteration, invocation, lists, generation, object, expired, start,
                                   section, exception>>
            [] verdict = "no" ->
                  Finish("invalid_results")
                    /\ UNCHANGED <<iteration, invocation, lists, generation, object, expired, start,
                                   section, exception>>
            [] verdict = "yes" /\ invocation < config.invocations ->
                  BeginInvocation /\ UNCHANGED <<iteration, lists, generation, outcome>>
            [] verdict = "yes" /\ invocation = config.invocations ->
                  /\ NextIteration /\ invocation' = 0
                  /\ UNCHANGED <<object, expired, start, section, exception>>
    /\ UNCHANGED <<config, clock, execution>>

DeadlinePasses ==
    /\ config.timeout /\ ~expired /\ phase \in {"init", "parallel", "post", "verify"}
    /\ expired' = TRUE
    /\ UNCHANGED <<config, phase, iteration, invocation, lists, generation, object, clock, start,
                   section, exception, execution, outcome>>

RunInvocation ==
    \/ (phase = "init" /\ (Operate(0) \/ FailSection(0))) \/ EndInit
    \/ Start \/ NotifyAll \/ Join
    \/ (phase = "post" /\ (Operate(Post) \/ FailSection(Post))) \/ EndPost

Next ==
    \/ GenerateActor \/ EndList \/ EndGeneration
    \/ RunInvocation \/ (\E t \in 1..MaxThreads : Worker(t))
    \/ Judge \/ DeadlinePasses

\* The operating system runs every thread of an invocation; nothing makes a deadline pass
Spec == Init /\ [][Next]_vars /\ WF_vars(RunInvocation) /\ \A t \in 1..MaxThreads : WF_vars(Worker(t))

-----------------------------------------------------------------------------
(* Properties *)

\* A generated scenario passes validate_scenario_against_spec, and a section is shorter than
\* asked only when no operation could be added to it (generate_actor_list, mark_generated).
GeneratedScenario ==
    (phase = "generate" /\ generation.section \notin Sections) =>
        /\ ScenarioAccepted(config.operations, Scenario)
        /\ \A s \in Sections : \/ Len(lists[s]) = Count(s)
                               \/ \A i \in DOMAIN config.operations :
                                     LET longer == [lists EXCEPT ![s] = Append(@, i)]
                                     IN  ~ScenarioAccepted(config.operations,
                                             [init |-> longer[0], parallel |-> [t \in Workers |-> longer[t]],
                                              post |-> longer[Post]])

\* The search of the verifier answers what linearizability means, with and without a state key,
\* with and without a report, unless the sequential model throws in an order it tries.
VerdictIsLinearizability ==
    phase = "verify" =>
        \A keyed, report \in BOOLEAN :
            \A run \in {Judged(keyed, report)} : \A verdict \in {Verify(run)} :
                /\ verdict = "yes" => Linearizable(run)
                /\ verdict = "no" => ~Linearizable(run)
                /\ verdict = "throws" => \E i \in DOMAIN config.operations, state \in States :
                       RunSequential(config.operations[i], state).throws

\* No false alarm: whatever the interleaving and the clock, the results and the intervals of an
\* object whose operations are atomic are never called non-linearizable.
AtomicObjectAccepted == config.object = "atomic" => outcome # "invalid_results"

\* Only whole runs are judged: every operation has its result and its interval, in order, and none
\* of the results is what the passing of the deadline left in an operation.
OnlyWholeRunsJudged ==
    phase = "verify" =>
        \A s \in Sections :
            LET results == CASE s = 0 -> execution.results.init
                             [] s = Post -> execution.results.post
                             [] OTHER -> execution.results.parallel[s]
                intervals == execution.intervals[s]
            IN  /\ Len(results) = Len(lists[s]) /\ Len(intervals) = Len(lists[s])
                /\ \A i \in DOMAIN results :
                      /\ results[i] # TimeoutValue
                      /\ intervals[i].invocation <= intervals[i].response
                      /\ i > 1 => intervals[i - 1].response <= intervals[i].invocation

\* An invocation of an object that does not block comes to an end, judged or reported, whatever
\* the workers throw and in whatever order they and main reach the start barrier.
InvocationEnds == phase = "init" ~> phase \in {"verify", "done"}
=============================================================================
