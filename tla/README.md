# A verification project for Lincheck++

Lincheck++ (`include/lincheck/lincheck.hpp`, one C++20 header of about 16 000
lines) checks concurrent objects: it generates scenarios, runs them under real
threads (stress mode) or under a scheduler that decides at every switch point
which thread runs (model checking), and compares the results with a sequential
specification. This directory models that program in TLA+, checks the models with TLC
and proves the properties that matter most with TLAPS.

Line numbers below are lines of `include/lincheck/lincheck.hpp`.

## 1. Inventory

| Component | State it keeps | Operations | Interacts with |
|---|---|---|---|
| `CooperativeScheduler`, token (12611-12744, 13914-14111) | ready, finished, blocked, aborted flags; started, deadlocked, abort requested; scheduled thread; switch count | `worker_ready`, `wait_until_ready`, `switch_point`, `event`, `finish_thread`, `request_abort` | called by the workers through the wrappers; sleeps on one condition variable `cv_` |
| managed locks and conditions (12806-13269, 14197-14296) | owner, depth, waiters, shared owners, shared waiters per address; timed flags per thread | `lock`, `try_lock(_for)`, `unlock`, the shared forms, `wait_condition(_for)`, `notify_*` | gives the token away when it blocks |
| managed semaphores, latches, barriers, parkers, atomic waits (13271-13747) | permits, counts, phases, permit flags, waiters | `acquire`, `release`, `count_down`, `arrive`, `park`, `wait`, ... | as above, and with the native state in the wrapper objects |
| wrapper classes (8002-10950) | the native primitive | the standard interface | call the current `Runtime` when there is one, the native primitive otherwise |
| workers (11726-11804, 15632-15661) | first exception kept | `run_concurrent_sequence` | run user code, report to the scheduler |
| `ModelCheckingOptions` explorer (15106-16140) | frontier of schedule prefixes, seen prefixes, statistics | run a schedule, enqueue alternatives, replay, minimise | creates one scheduler per schedule |
| `LinearizabilityVerifier` (6102-6457) | memo of visited states | search for a sequential order | gets the results of a run |
| STM hooks and opacity (2310-4257, 6459-6800, 7526-7990) | transaction context of a thread, recorded events, registry of locations, history, ordering graph | `tx_*` hooks, `tx_field`, history builder, opacity search | events from the backend; a hook is a switch point |
| `ObstructionFreedomRuntime` (14631-15104) | step budget of the thread that runs alone | the `Runtime` interface | replaces the scheduler |
| `StressOptions`, `ConcurrentBlockRuntime`, `DeadlineRuntime` (11369-11719, 12119-12609) | deadlines, barriers between workers | run a scenario natively | wrappers |
| `RandomExecutionGenerator` (5936-6100) | random engine, used one-shot operations | generate a scenario | options, test specification |
| event dependency graph (4507-5425) | events and edges | build, reduce, query | explorer's reductions |
| values, formatting, reports, source audit and rewrite | none | conversions of data and text | not modelled |

What is hard here is concurrency with failure: several real threads, one
token, hand-overs of locks, timeouts that are chosen when nobody can run, and
aborts and deadlocks that must reach every sleeping worker. `PROJECT.json`
lists each hazard at its line and the properties that cover it, or says why
none does.

What makes each component correct:

- *token*: one thread runs; the token is never lost; no wake-up is missed; a
  deadlock is real and is reported; every run ends.
- *locks*: exclusion; a woken waiter has what it waited for; nobody waits for
  a free lock; no barging; a timed waiter is granted or timed out.
- *semaphores, latches, barriers, parkers*: permits are conserved; phases
  complete once all have arrived; native and managed state agree.
- *explorer*: within its bounds no schedule is missed and none run again;
  a replay runs the recorded schedule; a minimised scenario still fails, as
  reported, and no smaller one does.
- *verifier*: accepts exactly the linearizable histories.
- *opacity*: what is recorded is what happened; the search accepts exactly the
  histories with an opaque serialisation.
- *generator*: scenarios respect one-shot operations and non-parallel groups,
  and are as long as that allows.
- *stress run*: every invocation ends; only whole runs are judged; an object
  whose operations are atomic is never blamed.

## 2. Modules

| Module | Models |
|---|---|
| `SchedulerCore` | the token: who may run, sleeping on `cv_`, switch points, failure, abort and the end of a worker, giving the token away, timeouts; the properties of the token and the queues |
| `SchedulerLocks` | managed mutexes, shared mutexes and condition variables over `SchedulerCore` |
| `SchedulerSync` | semaphores, latches, barriers, parkers and atomic waits over `SchedulerCore`, native and managed state |
| `GuardUnwinding` | an object under test that locks through `lock_guard`, over `SchedulerLocks`: nested scopes, and exceptions that unwind them |
| `FairLocks` | what the managed locks promise: fair recursive reader-writer locks, without a scheduler; `SchedulerLocks` implements it |
| `ScheduleRun` | what one schedule makes the scheduler do: how its choices are used up and recorded, and when a replay is refused |
| `ScheduleExplorer` | `check` of one scenario, over `ScheduleRun`: the search of all its schedules, and minimisation |
| `ScenarioGenerator` | which operations the generator may draw, and which scenarios are legal |
| `Linearizability` | the verifier's search, and what it should answer |
| `StressRun` | `StressOptions::check` over the two: generation, workers on real threads, deadline, judgement |
| `OpacityHistory`, `Opacity` | the history builder and the opacity search, and what the search should answer |
| `Transactions` | threads that run transactions over an STM that calls the hooks; what was recorded against what happened |
| `OpacityCheck` | the same run with its judgement, `apply_stm_opacity_check`: builder, then search |
| `TransactionalField` | `tx_field` under the cooperative scheduler, over `SchedulerCore` |
| `MCLocks`, `MCGuards`, `MCSync`, `MCExplorer`, `MCStress`, `MCTransactions`, `MCTransactionalField` | the instances that TLC checks |
| `SchedulerLocksProofs` | `SchedulerLocks`: types, locks, token, waiting and what an operation returns, and that it implements `FairLocks` |
| `SchedulerCoreProofs` | lemmas: what each step of `SchedulerCore` does to types, token, queues, sleepers and failure, for all modules over it |
| `SchedulerSyncProofs` | `SchedulerSync`: permits, gates, idle permits, and the core's properties under its wrappers |
| `GuardUnwindingProofs` | `GuardUnwinding`: types, guards and the lock table, unwinding |
| `ScheduleExplorerProofs` | `ScheduleExplorer`: completeness, replay, minimal reports, order of the search |
| `StressRunProofs` | the verifier's search answers what linearizability means; `StressRun`: what is judged, the verdict, atomic objects, generated scenarios |
| `OpacityProofs` | the opacity search answers what opacity means |
| `TransactionsProofs` | `Transactions` with the history builder: types, what was recorded is what happened, lifetimes are kept apart; `OpacityCheck`: the verdict on the records is the verdict on what happened, the order found is a witness |

### How the code maps to state and actions

A wrapper operation is *switch point; scheduler method; switch point* (the
first one only for `lock` and `lock_shared`). Each of the three is a critical
section of the scheduler's `mutex_`, and an action ends where the section ends
or where the thread sleeps on `cv_`. `pc[t]` says where worker `t` is:

`spawned -> ready -> user -> before -> (beforeWait) -> call -> (blocked) -> after -> (afterWait) -> user ... -> finishing -> done`,
and `failed -> recorded -> finishing` when an exception leaves the operation.
`op`, `obj` name the operation and its object, `granted` its Boolean result.

The `vector<bool>` members are sets of threads. The maps from addresses to
wait queues are one function `queue[<<kind, object>>]`. `timed` and `timedOut`
merge the flags of the three kinds of timed waits: a thread waits in one
operation at a time and clears its flags when it leaves it.
`asleep` are the threads in `cv_.wait` that have not been notified since their
predicate became true; `NotifyAll` is the last conjunct of each action that
notifies.

The schedule is not a variable. Choices are read one at a time, and a choice
that is missing or cannot run continues the current thread, so over all
schedules a switch point picks any active thread: `SwitchStay` and `SwitchTo`.
The implicit hand-overs (block, finish) are not choices in the code and are
deterministic in the model: round robin, then the first timed waiter. Only the
iteration order of the unordered maps leaves a choice there.

The object under test is the environment: from `user` it calls any operation
of the constant `Ops` on any object, misuses it (`Misuse`), throws
(`UserThrow`) or returns (`UserReturn`). All mutex classes call the same
scheduler methods; `MaxDepth` bounds how often one thread holds one lock.

In `SchedulerSync` an object has its native state (the primitive inside the
wrapper) and, once it is in `touched`, a managed entry that was copied from it.
`program` is the object under test of a run: the set of calls it may make, so that one
run of TLC checks several of them; it never changes. `token[b][t]` is the
phase that thread `t` got from its last `arrive` at barrier `b`.

Two simplifications that change nothing: a thread that finds after its wake-up
that it does not have the lock loops inside the same critical section, in the
model it goes back to `call`; and a `*_for` method that finds nobody to give
the token to times itself out, which cannot happen since the thread itself is
a timed waiter that the choice finds.

`ScheduleRun` and `ScheduleExplorer` stand one level above. There a run is a function of
its schedule, because the scheduler's own steps are deterministic and the
programs under test are: `Run(c, s)` iterates one step of the token's holder in scenario `c`. The
modules above say what such a run can do; here only its decisions matter,
so that the actors have switch points, one recursive mutex (hand-overs are not
decisions, and a chosen thread can have been blocked since) and one
unprotected counter (whose result is the verdict). One action of
`ScheduleExplorer` is one turn of the loop in `check_scenario`; `phase` is
how the loop ends, `runs` is a history variable. `minimize` searches again:
`best` is the smallest failing scenario so far, `candidate` counts how many ways to make
it smaller were tried, and a failure starts the count again, as `changed`
does. `Weight` stands for the
mixed hash that orders prefixes when there is a seed: any function will do.
`schedule_choice_order` decides ties of the weight only and is not modelled.

In `StressRun` the actors of a scenario are indexes of operations, `section` is
where each of the `run_concurrent_sequence` calls (init, workers, post) is, and `start` what
`start_mutex` guards. An operation is *invoke; perform; respond* with the
clock read at both ends; a racy one loads and stores. `DeadlinePasses` may happen at any
time, the code notices it at its events. With `rdtsc` two readings may be
equal. `Linearizability` is the search with its memo: `VerifyParallel(run)` is a function
of the question (positions, state of the model, memo so far), each arm of which is one pass of the code's loop; the memo of
successes, which nothing reads, is left out. The sequential model under test is a constant,
any function `Sequential` of an operation and a state; that its state key tells states apart is what
the code asks of the user. A sequential model that
throws for an operation without `exceptions_as_results` makes the verifier throw, when some
order it tries gets there: the outcome `verifier_exception`
(README.md:224 asks for the option). Scenarios that a user builds by
hand are not drawn; the configurations with no invocations bound the model to
the generator.

In `Transactions` the hooks, the transaction context and the registry of locations are the
code's; the STM that calls them is external and either validates its reads or does not.
`truth` is a history variable, what the threads really did: the properties
compare it with what the builder made of the events. `misuse`
remembers what excuses a wrong history: a transaction inside another one
(its inner end closes it), or a field used after its destroy. A reuse-after-free through the
registry is not refused by the strict mode: the registry gives the next use a new
generation, and the builder cannot know. Fields are named in
three ways (raw address, registry handle, object lifetime), under both lifetime policies.
Recorded histories of three and four transactions reach the search directly. What the history is
worth (`HistoryIsTruth`, `LifetimesKeptApart`) is asked in every state, as if the builder were called there:
a check may come at any time. The verdict is drawn once, in `OpacityCheck`, when the scripts have ended.

`TransactionalField` adds the two `std::mutex`es of a field to `SchedulerCore`:
a thread holds one while it is in a hook inside the guarded block.

## 3. Runs

| Run | Instance | Shows |
|---|---|---|
| `LocksMutex` | 3 threads, 1 shared timed mutex, depth 2, 3 switches, one thread with `exceptions_as_results` | types; exclusion; no lost wake-up; what an operation returns is true; the locks implement `FairLocks`; an abort reaches all and stops every effect |
| `LocksConditions` | 3 threads, 1 mutex, 1 condition variable, untimed and timed waits, 5 switches, fair | one thread runs; queues and blocked flags agree; no missed notification; deadlocks are real and failures reported; every run ends |
| `LocksSwallowed` | 2 threads, 2 mutexes, both threads with `exceptions_as_results` | **violation**: the deadlock is not reported |
| `GuardsUnwind` | 2 threads, 2 mutexes under nested `lock_guard`s, 10 switches | guards and lock table agree; unwinding releases all locks before the failure is recorded |
| `GuardsAbort` | the same | **violation**: stopping a worker ends the process |
| `Sync` | 3 threads on one object: a semaphore of at most 2 permits, a parker, a latch of 2, a barrier of 3 used before, a barrier of 2 with a completion function, or an atomic; 4 switches | permits are neither lost nor made up between native and managed state; gates open for all and only when they should; no sleeper beside what it waits for; an unpark lets one park through |
| `SyncParked` | 2 threads, a parker unparked before the parallel part | **violation**: the permit is not seen |
| `Explorer` | 128 scenarios (3 threads of one actor, or 2 threads of two and one between an init and a post part, each actor one of 4) under 4 settings of the options (both orders, three bounds on context switches, a small budget, with and without minimisation), schedules of 4 choices, fair | the search is complete within its bounds and goes by depth; reported schedules replay and no others; what is reported after minimisation fails as reported and has no actor to spare; the search ends |
| `ExplorerTwice` | the same | **violation**: schedules are run twice |
| `Stress` | 12 configurations: 2 or 3 threads, 1 or 2 actors each, init and post parts, atomic and racy counter, both clocks, deadlines, documented and unexpected exceptions, one-shot and non-parallel operations, fair | generated scenarios are legal and cannot be longer; the verifier answers what linearizability means, with and without state keys; no false alarm; only whole runs are judged; invocations end |
| `Transactions` | pairs and triples of transactions on 2 fields of 3 values over a validating and a careless STM, aborts with one retry, nesting, field reuse under 3 identities and 2 policies; recorded histories of 3 and 4 transactions, with and without a search limit | the recorded history is what happened; lifetimes are kept apart; the verdict is right; the order found is a witness; a correct STM is never blamed |
| `TxField` | 2 threads, 1 field, 6 switches, fair | **violation**: the run hangs |

Three threads are the fewest with a waiter that a third thread could overtake,
and two waiters in one queue. Two locks are enough for a lock-order deadlock.
`LocksMutex` and `Sync` tell states apart by `LockView` and `SyncView`: what a
finished call leaves in `op`, `obj`, `arg` and `granted` is read by nothing, and by no property
of these runs, before the thread's next call overwrites it. In `Sync` the calls
of a semaphore make two programs, since `try_acquire` never suspends: it is tried
against `release`, the other calls together.
The switch budgets are the largest at which a run stays a matter of minutes;
reaching the budget is itself a behaviour (`SwitchLivelock`), so no state is cut off
by it: it is the code's own `max_switch_points_per_schedule`. That they
are enough for the interesting cases is what the seeded bugs show: each of them
needs a hand-over, a timeout or an abort in the middle of another operation,
and each is found within these bounds. `MaxPermits`, `MaxUpdate`
and `MaxDepth` bound what one program asks for.

In `Explorer` an actor has at most 4 switch points and at most one critical
section, and a run at most 11 switch points, so that the livelock limit is met
by the longest programs. Four choices let a schedule switch away, come back and
switch away again, and reach threads that a lock has blocked; the
longest programs make many more decisions than that, so `max_schedule_length`
cuts them off. Of the 512 instances some deadlock, some fail, some pass, and minimisation
turns scenarios of five actors into one or two, sometimes
from one kind of failure to another, which the code allows.

In `Stress` two threads of two operations are the smallest run whose memo meets one
state at two positions, and three threads the smallest in which a real-time
predecessor is neither first nor last. In `Transactions` a wrong pruning of
the search needs two committed writers of one location and a reader that is
ambiguous between them; four transactions add the forced writer that shadows one of them.
Two addresses, one retry and one reuse of an address are what the hazards need.

Each property of a passing run comes with a seeded bug (the operators named so
in the modules): put in place of the definition below it, it breaks the property.

*Fairness.* `LocksConditions` assumes weak fairness of each worker's next
step and of the main thread's hand-out, that is, the operating system runs
every thread that is not asleep. Nothing is assumed of the object under test
but that a worker does not stop in its code for ever: it may call operations
without end (the budget stops it). `Explorer` assumes that the one thread that
searches goes on. `Stress` assumes weak fairness of `main` and of each worker, which
are real threads that never wait for one another but at the start barrier and
the join; nothing makes a deadline pass. `TxField` assumes the same of its two threads, so
that the hang it finds is not a scheduler that stopped.

### Findings

1. **A lock guard turns an abort into the end of the process** (`GuardsAbort`).
   `~lock_guard` calls `unlock()`, whose `event` and `switch_point` throw in a run
   that is aborted, deadlocked or out of budget. README_ARCHIVE.md:69 promises
   abort requests that wake and stop the peers. Compiled and confirmed: a
   lock-order deadlock under `lock_guard` ends in `std::terminate`.
2. **`exceptions_as_results` swallows deadlocks** (`LocksSwallowed`). The catch
   clause of `run_concurrent_sequence` (11777) makes the scheduler's own
   `deadlock` exception a result; the run goes on with all workers at once and
   ends with wrong results instead of a deadlock
   (PORTING_LINCHECK_TO_CPP.md:277). Compiled and confirmed.
3. **A managed `park()` does not see an earlier permit** (`SyncParked`). `unpark()` outside
   the managed run stores the permit in the wrapper only; the managed
   state starts without one, and `park()` (13698) blocks, unlike what
   README_ARCHIVE.md:548 says. Semaphores, latches and barriers do take their
   native state over. Compiled and confirmed.
4. **The explorer runs schedules twice** (`ExplorerTwice`). `seen_prefixes` knows the
   prefixes that were enqueued but not what a run explored by default after
   its prefix, so a continuation that was run is enqueued again by a sibling
   (README_ARCHIVE.md:62 says "unexplored alternative prefixes"). It costs
   invocations, not soundness. Compiled and confirmed: 38 runs, 20 distinct.

5. **A transactional field blocks the run it is checked in** (`TxField`). `tx_field::set`
   (7850) and `register_location` call hooks, which are switch points, inside a
   `std::lock_guard` of the field's own `std::mutex`. The thread that gets the
   token there waits natively for the mutex, and nobody runs again; nothing is reported
   (PORTING_LINCHECK_TO_CPP.md:277). Compiled and confirmed: two threads
   that set one field under `ModelCheckingOptions` never return.

## 4. Proofs

Every safety and action property that the runs of the scheduler (`LocksMutex`, `LocksConditions`,
`Sync`), of the guards (`GuardsUnwind`), of the explorer (`Explorer`) and of the stress mode (`Stress`) check is also a
theorem, and so are the properties of the run `Transactions` but `CorrectBackendAccepted`. A run shows it on an instance, the theorem for every number of threads, switch budget,
program and option. The assumptions on the constants are named in the modules and only say
what kind of thing a constant is (`GuardOpsAssumption`: an object with guards only locks and unlocks), with one exception:

*Swallowed exceptions.* `FailuresAreReported`, `GuardsOwnTheirLocks` and `UnwindingReleases`
assume `ExceptionResults = {}`, and `SchedulerSync` assumes it throughout (`SwallowAssumption`).
They are false without it: a worker with `exceptions_as_results` goes on after a deadlock with
the locks of others still handed over and its own guards already gone (finding 2,
`LocksSwallowed`). The other theorems about locks hold for any `ExceptionResults`;
for `GrantedMeansHeld` that took a weaker statement for the threads that are *refused* a lock after
such a deadlock, because a later release may still hand them that lock while they are queued.

### Locks (`SchedulerLocksProofs`)

- `TypeCorrect`: `[]TypeOK`, one lemma per half of the next-state relation;
  `HandOffFacts`, `BlockFacts` and `ReleaseFacts` say once what giving the
  token away, blocking and releasing a lock do to the queues.
- `LocksExclude`, `NoWakeupLost`: from `LockInv`, the conjunction of both with
  `TypeOK`. They need each other: a full release wakes the first writer or else all
  readers; when it wakes a writer it loses no reader because the lock is held
  again, and when it wakes the readers there is no writer to lose. That a
  blocked reader finds a writer holding the lock, and not other readers, is
  the second conjunct of `NoLostWakeup`.
- `OneThreadRuns`, `AbortReachesAll`: from `TokenInv`. A thread wakes because it was
  given the token, because of a deadlock, or because of an abort; in the last
  case it must be known that the abort marked it, hence `AbortReachesPeers` is
  part of the invariant, and with it that `finished` is exactly `pc = "done"`
  (an abort skips the finished threads).
- `TokenKept`: from `AliveInv`, which adds that all workers are ready once the
  run has started and that nobody is aborted before an abort is requested.
- `LocksAreFair`: `Spec => ImplementsFairLocks`, the refinement of `FairLocks` with the
  wait queues of `SchedulerLocks` as its writers and readers. It needs `LockInv`: a
  hand-over to the readers is one only if no writer waits. `HandOffLeaves` and
  `BlockLeaves` say that giving the token away takes at most one thread out of a
  queue, the one that times out; `ReleaseMoves` that a full release is a hand-over; the
  steps that touch no lock are a `Rest` of each (`Rests`). A step that blocks one thread
  and times out another is a move of two locks at once, which is
  why `FairLocks!Next` is a conjunction over the locks.

### Waiting (`SchedulerCoreProofs`, `SchedulerLocksProofs`)

- `WaitersQueuedOnce`, `NobodyOversleeps`: from `WaitInv`, which adds to `AliveInv` that a blocked
  thread is in one queue once (`QueuedOnce`), that a blocked thread sleeps in its wait unless
  an abort took it out (`BlockedWait`), and `NoMissedNotify`. The
  last needs the token: the thread whose predicate becomes true is the one that is
  given the token, and every step that gives it notifies.
- `DeadlocksAreReal`: a deadlock is declared by a hand-over that finds nobody active and
  nobody to time out, and the step that declares it changes neither.
- `AbortEndsEffects`: after an abort every worker's next wake-up throws, so that no lock or queue
  changes again.
- `FailuresAreReported`: from `FailInv`, which says for a run that goes on, one that is aborted
  and one that is deadlocked who may have failed and what `exception` holds.
- `GrantsAreHeld`: from `HeldInv`: who is in a queue is there because of its own `op` and `obj`;
  a timed waiter that is neither blocked nor timed out holds the lock.

The lemmas of `SchedulerCoreProofs` are stated for the steps of `SchedulerCore` with the queue as a
parameter of the step, so that `SchedulerLocks` and `SchedulerSync` both use them.

### Semaphores, latches, barriers, parkers (`SchedulerSyncProofs`)

One invariant, `SyncInv`, carries `WaitInv`, `FailInv` and what the objects add:
`QueuesInv` (everybody waits where its call says), `TimedInv` (only `try_acquire_for` waits with a
timeout), `DeadInv` (a deadlock finds everybody blocked, failed or done), `SemInv` (a semaphore with
waiters has no permit; the native count is ahead of the managed one by exactly the waiters that
were handed a permit and have not run yet), `GateInv` (managed and native gates are equal),
`LatchInv`, `BarrierInv` (a waiter's phase is the current, incomplete one; whoever passed is
behind it; a token is of a phase that is over or that somebody has yet to complete) and `ParkInv`.
From it: `SyncTypeCorrect`, `PermitsStayTogether`, `GatesStayTogether`, `NobodySleepsOnAPermit`,
`GatesHold`, `OneUnparkOnePark`, and the core's own properties under these wrappers
(`WrappersKeepTheScheduler`, `SyncDeadlocksAreReal`), which no run of `Sync` repeats.
`SizesAssumption` says that counts and phases of the constants are natural numbers.

### Guards (`GuardUnwindingProofs`)

`GuardSpec` does not implement the `Spec` of `SchedulerLocks`: unwinding takes a worker from
`failed` back to `call`, a step that no worker of `SchedulerLocks` makes. So its theorems do not
follow from those of the locks, but the step lemmas do apply, action by action. `GuardInv` is
`GuardTypeOK`, what the locks' invariants say (`Base`), where a worker can be and with which
failure, guards and call (`PlacesInv`), and that a thread owns a lock as often as it has guards for it,
plus the one it is acquiring or releasing (`OwnInv`).

### The explorer (`ScheduleExplorerProofs`)

`ExploreInv` is the inductive invariant. `CoverInv` is the heart of it: as long as no run has failed,
each feasible schedule that goes on from a prefix that was seen was run, or has a prefix of its own in the frontier that goes
on from it too. `SweptInv` says that nothing below the current depth is missing, `QueueInv` that the frontier,
`seen` and `runs` fit each other, `PhaseInv` and `MinimizeInv` what the search has established
when it ends, `BestInv` that the best failure so far is one.

- `PassedMeansComplete`, `ShallowRunsFirst`: when a prefix `q` is run, a schedule `s` that goes on from `q` either makes
  the same choices as the run to its end, and then it is that run, or it differs from it at a first place;
  up to there two runs of one scenario go the same way (`AdvanceTwin`, `SplitPoint`), so that the
  other choice could have been made, and is one of the run's alternatives (`Branch`). It is
  new, and queued, or it was seen, and `CoverInv` says that `s` is covered from it. What lies
  between `q` and `s` has no more context switches than `s` (`OnTheWay`), so that the bounds do not cut it off.
- `ReportsReplay`, `OthersAreRefused`: a replay of the reported schedule uses one choice per decision and decides
  the same each time (`Replayed`, `ExactReplay`); a schedule that is not what its run reports
  leaves a choice over, lacks one, or chose a thread that could not run.
- `ReportIsMinimal`: minimisation ends when all smaller scenarios of the best one were searched without a failure,
  and an exhaustive search that passes has run all their schedules (the budget cannot
  have cut it off: fewer prefixes exist than it allows).
- `SearchTypesHold`: among the types, that nothing beyond the bounds is ever queued.

Proof needs shaped the model in three places: the scenarios have a type
(`ScenarioType`, `ScenariosAssumption`), `Kept` replaces the library's `SelectSeq`, which takes an operator
and which the provers leave opaque, and the arms of `Advance` no longer overlap: a thread that had ended its
program in a run that was over matched two arms of a `CASE`, whose order means nothing in TLA+.

### The verifier (`StressRunProofs`)

`VerifyIsLinearizability` is about one call of `verify` or `verify_with_report` on a run that has a
result and an interval for every actor (`WholeRun`, which `StressOnlyWholeRunsJudged` provides). The search is a
recursive function on questions; `Answer` calls it only on questions with one actor less to place, so that it is
well-founded, and `VerifyParallel` unfolds. The induction (`SearchTrue`) is on the number
of actors left (`Left`), over sets of numbers as for the explorer. `Truthful` and `Sound` are what is carried through it: the memo holds
only positions and states that cannot be completed, and the answer is "yes" only if what is left
can be completed, "no" only if it cannot. `Completes` says so without the search: some order of the places that are left
respects program order and real time, is legal from this
state and is followed by a legal post part. From the first question that is `Linearizable`. Two facts need care: that a
blocked candidate never comes first in such an order and an unblocked one may, and that
`real_time_blocker` looks only at operations not yet placed.

### The stress run (`StressRunProofs`)

- `StressOnlyWholeRunsJudged`: from `RunInv`: types, what a section that has come to an actor holds
  (`SectionsFine`: as many results and intervals as operations ended, in the order of the clock, an operation
  under way began after them, and only a passed deadline leaves its value), and which sections may be under way in which phase (`Control`).
- `StressVerdictIsLinearizability`: every run that is judged is a `WholeRun`, so that the verifier's theorem applies.
- `StressAtomicObjectAccepted`: from `History`: at every moment of an invocation in which nothing has gone wrong, some order
  of the operations performed so far leads from a fresh object to the object there is, gives their results, and
  puts no operation before one that had answered when it began (`Linked`). An operation joins the end
  of the order when it is performed; answering, clocks and the other sections change nothing that the order
  depends on (`LinkedKept`). When all is done the order is a linearisation, hence the verifier cannot say no. With an unexpected exception
  nothing is claimed: `check` then throws or reports the exception, not invalid results.
- `StressGeneratedScenario`: from `Generation`: the generator's memory (`oneShots`, and the `owner` of each non-parallel key) is what the
  lists drawn so far hold, neither less nor more. Less would let it break a rule; more would make it
  give up while an operation could still be added, which is the second half of the property. Eligible
  operations only get fewer (`CandidatesShrink`), so that a section that had to stop short cannot be continued later.

Their assumptions are `SequentialAssumption` (the sequential model answers every operation in every state),
`ConfigsAssumption` (what kind of thing an option is, and that at least one operation is registered) and
`TimeoutValueAssumption` (what the deadline leaves is no operation's result).
For these proofs `Linearizability` lost its RECURSIVE operators, the marking of drawn operations its use
of `@@`, which the provers leave opaque, and the sequential model became a constant: the
instance checked has a counter that wraps at 16, more than any run of it counts.

### The recorded transactions (`TransactionsProofs`)

`TransactionsHistoryIsTruth` and `TransactionsLifetimesKeptApart` hold for any number of threads and fields, any
scripts, both kinds of STM, the three ways of naming a field and both policies. Their hypothesis, `OnlyNamed(scenario)`, says where a run
starts: before the scripts, fields may have been named at their first incarnation, and no transaction has run. The
scenarios that hand the search a history recorded elsewhere are outside of it, and in them nothing is recorded by the hooks.

The builder is a loop over the events, a recursive function here. `BuiltAppend` says what one more event does: the builder of
the longer recording is one `BuildStep` further. So each step of the STM is followed by the step that its event makes the builder
take (`ReadKept`, `DestroyKept`, ...: one lemma per action). `RecordingInv` is the inductive invariant:

- `IsBuilder`: the types of the builder's tables, by an induction over the events (`Climb`), for any recording at all;
- `Lifetimes`: a field's lifetime id is of its address and was drawn, so that the next field made there gets another;
- `Recording`, as long as the builder has no error, counted no anomaly and no field was used after its destroy:
  - `Matched`: the transactions are those of `truth`, place by place, access by access;
  - `Contexts`: where a thread is with its transaction. A thread inside one is the thread of exactly one live
    transaction, whose id its `transaction_context` holds; a thread outside has none, and an id yet to come is nobody's;
  - `RawLocations`, `IgnoredDead`: which raw addresses the builder has under which generation, and that under `value_history_only` an
    address whose destroy was ignored has no live field;
  - `Names`: the name that the next access to a live field will get (`Name`) is the name all earlier accesses to this
    incarnation got (`Fits`), and names of earlier incarnations at that address have a smaller number (`Number`): a generation, a
    generation of the registry or a lifetime id;
  - `Apart`: different fields have different names so far. That is `LifetimesKeptApart`, and `Names` is what keeps it so.

A nested transaction is no exception to this: its begin is a second begin under the same id, which the builder refuses.
The two properties are not inductive without `Contexts` and `Names`: which transaction the next event belongs to, and under which name the next
access is filed, is decided by the thread's context, the registry and the builder's tables, which the properties do not mention.
`NoneAssumption` (None is neither a number nor a handle) and `ScenariosAssumption` (what kind of thing a scenario is) are the assumptions.
For these proofs the judgement moved to `OpacityCheck`, and the builder's `@@` and fold became a function update and a
recursive function.

### The opacity search (`OpacityProofs`)

`VerifyMeansOpacity` is about one call of `verify_stm_opacity`, on a history of any number of transactions that is `WellFormed`: transactions
in the order of their begins, each end after its begin, an initial value for whatever is accessed.
"ok" comes with a `Witness`, "violation" only if the history is not `Opaque`, and "search_limit_exceeded" only with a limit. It takes five steps.

- *The ordering graph prunes no solution* (`BuiltGraphSound`). What holds of every full serial order of the committed transactions is that
  it respects each edge, and that each reader finds, for each of its choices, a possible source last before it (`Sourced`).
  It holds of the first graph (`FirstGraphFacts`), of its closure, and after dropping alternatives that are shadowed or too late
  (`RefineChoiceFacts`); a choice with one alternative left forces an edge (`SourceForced`), one with none, or a cycle, leaves no such order.
- *The search tries whatever could be completed.* It is a recursive function on questions; `Left`, the number of transactions yet
  to be placed, makes it well-founded (`Recursion`, for any function defined over a measure). `Honest` and `Truthful` go with it: the
  memo holds only orders that no full order goes on from, and an answer "not found" within the limit means that there is none for this
  prefix either. That a memo entry may be used for another prefix is `Transfer`: with the same transactions placed and the same state, what
  completes one completes the other. The seeded bug `SearchKeyPlaced`, which forgets the state, breaks just that.
- *Two ways to fail.* A prefix below which no order was completed goes into the memo; one below which an order was completed whose
  observers did not fit must not, since the memo compares placed transactions and state only, and observers depend on the whole order. Hence `completed`
  in the answer, and two statements about it: without `completed` no full order goes on from the prefix (`Completable`), otherwise
  none that has room for the observers (`Hopeless`).
- *The observers* (`ObserverSearchTruth`): the search over prefixes, most constrained first, finds an assignment if there is one, in
  whatever order they are placed.
- *From seats to a place and back* (`WitnessFromSeats`, `SeatsFromPlace`, `SortedByPlace`): an order with its observers seated is an order of all
  transactions and conversely; `StateThere` says that the prefix state is the state of `StateBefore`.

`OpaqueMirrored` adds that opacity does not depend on what locations are called: histories that differ in the names of
locations, one for one, and agree on their initial values (`Mirrors`) are opaque together.

### The judgement of a run (`TransactionsProofs`)

`TransactionsOrderIsWitness` holds for any events at all: `BuiltShaped` says that what the builder does not refuse is `WellFormed`,
whoever recorded it. `TransactionsVerdictSound` composes everything above: the run is over when it is judged (`Over`), the history is
`WellFormed`, so the verdict means what it says of the history; `RecordingInv` makes `truth` its mirror (`TruthMirrored`), so it means
the same of what happened. For that `RecordingInv` has one more conjunct, `Starts`: the initial value that the builder has for a field, if any, is the value
the field was made with, for the fields that were accessed and for those that live. Values arrive with `tx_location_init` and
with nothing else (`InitialFacts`), and the builder takes no second one that differs without an error or an anomaly. `OnlyNamed`
says what the fields that were there from the start hold, 0.
`VerdictSound` speaks of unambiguous records only: no error of the builder, no anomaly counted, no field used after its destroy.
An STM whose records are refused is not judged. Nested transactions are such a case: the builder refuses the history at the second
begin, and the model follows them no further.

*Induction.* The library's induction theorems take an operator as a parameter, which the
provers cannot instantiate. `Least` derives from the well-founded minimum of
`WellFoundedInduction` that a set of natural numbers has a least element; `Climb` and `Iterate` turn that into
induction over a *set* of numbers, which is first-order. That is enough for what an iteration
like `Run` or `Kept` preserves.

### Only model-checked

- Liveness: `Termination`, `SearchEnds`, `InvocationEnds`; the prover has no rule for fairness or ENABLED.
- `CorrectBackendAccepted`: it says of one particular backend, which is external to the code and modelled from how its hooks
  are used, that its histories are never refused nor found at fault. Its proof would be one of that
  backend, that validating the reads at the commit makes every transaction consistent; for the code, `VerdictSound` says more.
- `HistoryIsTruth`, `LifetimesKeptApart` and `VerdictSound` where `OnlyNamed` is false: the histories of three and four transactions recorded elsewhere.
- The counterexamples (`LocksSwallowed`, `GuardsAbort`, `SyncParked`, `ExplorerTwice`, `TxField`) are TLC's.

TLC found no violation of the inductive invariants (`LockInv`, `WaitInv`, `HeldInv`, `FailInv`, `GuardInv`, `SyncInv`,
`ExploreInv`, `RunInv`, `Generation`, `RecordingInv`) on the instances of the runs, `SyncInv` within the states it reached in five minutes and `ExploreInv` on
fewer scenarios. They are not runs of their own: the properties that they imply are.

## 5. Plan

Done: the scheduler with all its primitives, guards, the abstract locks and the
refinement, the explorer with minimisation, the stress
run with its generator and the verifier, the transactions with the history
builder and the opacity search, `tx_field`; and the theorems about the scheduler, its primitives, the guards,
the explorer, the verifier, the stress run, the recording of transactions, the opacity search and its verdict. Left, in order:

1. Proofs: `CorrectBackendAccepted`, from an invariant of the validating backend.
2. `ObstructionFreedom`, the runtime of one operation that runs alone, checked
   against what the native primitives would do.

### Not modelled, and why

- *The two opt-in reductions and the event dependency graph* (4507-5425,
  15881-15985): they prune by what the user declares independent or by what one
  trace touched, and the documents call them an opt-in for exploration, "not a full event-structure POR"
  (README_ARCHIVE.md:299, 446); there is no promise that a property could state.
- *`ObstructionFreedomRuntime`* (14631-15104): one thread, no interleaving; see the plan.
- *Native branches of the wrappers*: the standard library's.
- *Child threads* that the object under test starts (10706): a worker of the
  model is a thread the scheduler knows.
- *Addresses*: objects live as long as the run, except the fields of `Transactions`.
- *`ConcurrentBlockRuntime`* (11576-11719) names threads and records a trace.
- *Reports and formats*, *values*, *source audit and rewriting*: text and data, no state.
- *The Multiverse backend* is external and patched at build time; of its hooks header the
  binding of fields to the registry is modelled.
