--------------------------- MODULE SchedulerCore ---------------------------
(***************************************************************************)
(* The token of lincheck::CooperativeScheduler and the worker threads of   *)
(* ModelCheckingOptions::run_schedule.                                     *)
(*                                                                         *)
(* Every worker is a real thread, but user code runs only in the thread    *)
(* that scheduled_thread_ names.  A wrapper operation is at most           *)
(*     switch point; scheduler method; switch point                        *)
(* and each of the three is one critical section of the scheduler's        *)
(* mutex_, cut where the thread sleeps on cv_.  pc[t] says which comes     *)
(* next, op[t] and obj[t] name the wrapper operation.                      *)
(*                                                                         *)
(* The schedule is not a variable: it is read one choice at a time and a   *)
(* choice that is missing or not runnable continues the current thread, so *)
(* over all schedules a switch point picks any active thread.              *)
(***************************************************************************)
EXTENDS Integers, Sequences, FiniteSets, SequencesExt

CONSTANTS
    N,             \* number of parallel threads of the scenario
    Budget,        \* max_switch_points_per_schedule
    Locks,         \* mutexes and shared mutexes of the object under test
    Conditions,    \* its condition variables
    Semaphores,    \* its counting semaphores
    OtherQueues,   \* latches, barriers, parkers and atomics: never timed
    ExceptionResults   \* threads whose operations have exceptions_as_results

ASSUME NAssumption == N \in Nat \ {0}
ASSUME BudgetAssumption == Budget \in Nat \ {0}

Threads == 0 .. N-1

ASSUME ResultsAssumption == ExceptionResults \subseteq Threads

Main == N
NoThread == -1

ConditionQueues == {"condition"} \X Conditions
LockQueues == {"lock"} \X Locks
SharedQueues == {"shared"} \X Locks
SemaphoreQueues == {"semaphore"} \X Semaphores
Queues == UNION {ConditionQueues, LockQueues, SharedQueues, SemaphoreQueues,
                 OtherQueues}

VARIABLES
    ready, finished, blocked, aborted,      \* the vector<bool> members, as sets
    started, deadlocked, abortRequested,
    scheduled,                              \* scheduled_thread_
    switchCount,
    asleep,                                 \* threads in cv_.wait, not notified
    queue,                                  \* the wait queue of every object
    timed,                                  \* timed_*_waiting_ of any kind
    timedOut,                               \* *_timed_out_ of any kind
    pc, op, obj, granted,                   \* the workers and their calls
    failure,                                \* what each worker threw
    exception                               \* first failure run_schedule kept

tokenVars == <<ready, finished, aborted, started, abortRequested>>
handVars == <<scheduled, asleep>>
waitVars == <<queue, blocked, timed, timedOut>>
callVars == <<op, obj, granted>>
failVars == <<failure, exception>>
coreVars == <<tokenVars, handVars, waitVars, callVars, failVars, pc,
              deadlocked, switchCount>>

Failures == {"none", "deadlock", "livelock", "misuse", "exception"}
Locations == {"spawned", "ready", "user", "before", "beforeWait", "call",
              "blocked", "after", "afterWait", "failed", "recorded",
              "finishing", "done"}

-----------------------------------------------------------------------------
(* Who may run.                                                            *)

\* is_active_locked, for the finished set f and the blocked set b
Active(f, b) == ready \ (f \cup aborted \cup b)

\* Steps from thread a to thread c going round the table
Distance(a, c) == IF c > a THEN c - a ELSE c - a + N

\* Seeded bug of RoundRobin: the next thread, active or not
RoundRobinUnchecked(a, S) == {(a + 1) % N}

\* choose_next_active_locked: the first of S after a (one thread, if any)
RoundRobin(a, S) == {c \in S : \A d \in S : Distance(a, c) <= Distance(a, d)}

\* A timed waiter of queue s that may be timed out
HasTimed(s, tm, f) == \E i \in DOMAIN s : s[i] \in tm \ f

\* ... and the place of the first one
FirstTimed(s, tm, f) ==
    {i \in DOMAIN s : /\ s[i] \in tm \ f
                      /\ \A j \in DOMAIN s : s[j] \in tm \ f => i <= j}

\* The queues timeout_next_{condition,lock,semaphore}_waiter_locked may find
\* first: conditions before locks before semaphores; the maps are unordered,
\* so any object of the kind; a lock's exclusive waiters before its shared ones
Expirable(q, tm, f) ==
    LET timedIn(K) == {k \in K : HasTimed(q[k], tm, f)}
        conditions == timedIn(ConditionQueues)
        locks == timedIn(LockQueues)
        shareds == {k \in timedIn(SharedQueues) : <<"lock", k[2]>> \notin locks}
    IN  IF conditions # {} THEN conditions
        ELSE IF locks \cup shareds # {} THEN locks \cup shareds
        ELSE timedIn(SemaphoreQueues)

\* Seeded bug of CanHandOff: pending timeouts are forgotten
CanHandOffNow(f, b, q, tm) == ~abortRequested /\ Active(f, b) # {}

\* choose_next_active_or_timeout_locked finds somebody
CanHandOff(f, b, q, tm) ==
    /\ ~abortRequested
    /\ Active(f, b) # {} \/ Expirable(q, tm, f) # {}

\* ... and this is who: the next active thread after t, else the first timed
\* waiter, which leaves its queue unblocked and timed out
HandOff(t, f, b, q, tm, to) ==
    \/ /\ scheduled' \in RoundRobin(t, Active(f, b))
       /\ queue' = q /\ blocked' = b /\ timedOut' = to
    \/ /\ Active(f, b) = {}
       /\ \E k \in Expirable(q, tm, f) : \E i \in FirstTimed(q[k], tm, f) :
            /\ scheduled' = q[k][i]
            /\ queue' = [q EXCEPT ![k] = RemoveAt(q[k], i)]
            /\ blocked' = b \ {q[k][i]}
            /\ timedOut' = to \cup {q[k][i]}

-----------------------------------------------------------------------------
(* Sleeping on cv_.  A notified thread whose predicate is still false goes *)
(* straight back to sleep, so it is left asleep.                           *)

Running(t) == pc[t] \in {"user", "before", "call", "after"}

\* Seeded bug of Resumable: an unblocked thread does not wait for the token
ResumableUnscheduled(t) ==
    \/ abortRequested
    \/ pc[t] = "ready" /\ started /\ scheduled = t
    \/ pc[t] \in {"beforeWait", "afterWait"} /\ (deadlocked \/ scheduled = t)
    \/ pc[t] = "blocked" /\ (deadlocked \/ t \notin blocked)

\* Seeded bug of Resumable: an abort wakes nobody
ResumableDeaf(t) ==
    \/ pc[t] = "ready" /\ started /\ scheduled = t
    \/ pc[t] \in {"beforeWait", "afterWait"} /\ (deadlocked \/ scheduled = t)
    \/ pc[t] = "blocked" /\ (deadlocked \/ (t \notin blocked /\ scheduled = t))

\* The predicate thread t gives cv_.wait at the place where it waits
Resumable(t) ==
    \/ abortRequested
    \/ pc[t] = "ready" /\ started /\ scheduled = t
    \/ pc[t] \in {"beforeWait", "afterWait"} /\ (deadlocked \/ scheduled = t)
    \/ pc[t] = "blocked" /\ (deadlocked \/ (t \notin blocked /\ scheduled = t))

Waiting(t) == pc[t] \in {"ready", "beforeWait", "afterWait", "blocked"}

\* Everybody whose predicate is false; Main waits for the workers to be ready
Sleepers ==
    {t \in Threads : Waiting(t) /\ ~Resumable(t)}
        \cup (IF ready = Threads THEN {} ELSE {Main})

\* Seeded bug of NotifyAll: notify_one
NotifyOne == \E t \in asleep \cup {NoThread} : asleep' = Sleepers' \cup (asleep \ {t})

\* cv_.notify_all()
NotifyAll == asleep' = Sleepers'

Awake(t) == Waiting(t) /\ t \notin asleep /\ Resumable(t)

Goto(t, l) == pc' = [pc EXCEPT ![t] = l]

\* An exception other than ScheduleAbortError leaves the operation of t
Fail(t, kind) ==
    /\ Goto(t, "failed")
    /\ failure' = [failure EXCEPT ![t] = kind]
    /\ UNCHANGED exception

\* Seeded bug of ResumeAt: a deadlock ends a worker as quietly as an abort
ResumeAtSilent(t, l) ==
    /\ Goto(t, IF t \in aborted \/ deadlocked THEN "finishing" ELSE l)
    /\ UNCHANGED failVars

\* check_abort_locked, then the deadlock check, and otherwise on to l
ResumeAt(t, l) ==
    IF t \in aborted THEN Goto(t, "finishing") /\ UNCHANGED failVars
    ELSE IF deadlocked THEN Fail(t, "deadlock")
    ELSE Goto(t, l) /\ UNCHANGED failVars

-----------------------------------------------------------------------------
CoreInit ==
    /\ ready = {} /\ finished = {} /\ blocked = {} /\ aborted = {}
    /\ started = FALSE /\ deadlocked = FALSE /\ abortRequested = FALSE
    /\ scheduled = NoThread
    /\ switchCount = 0
    /\ asleep = {Main}
    /\ queue = [k \in Queues |-> <<>>]
    /\ timed = {} /\ timedOut = {}
    /\ pc = [t \in Threads |-> "spawned"]
    /\ op = [t \in Threads |-> "none"]
    /\ obj = [t \in Threads |-> "none"]
    /\ granted = [t \in Threads |-> FALSE]
    /\ failure = [t \in Threads |-> "none"]
    /\ exception = "none"

\* worker_ready, up to its wait
WorkerReady(t) ==
    /\ pc[t] = "spawned"
    /\ ready' = ready \cup {t}
    /\ Goto(t, "ready")
    /\ UNCHANGED <<finished, aborted, started, abortRequested, scheduled,
                   waitVars, callVars, failVars, deadlocked, switchCount>>
    /\ NotifyAll

\* wait_until_ready in the main thread: hand out the token
WaitUntilReady ==
    /\ Main \notin asleep
    /\ ~started
    /\ ready = Threads
    /\ scheduled' \in Active(finished, blocked)
    /\ started' = TRUE
    /\ UNCHANGED <<ready, finished, aborted, abortRequested, waitVars,
                   callVars, failVars, pc, deadlocked, switchCount>>
    /\ NotifyAll

\* worker_ready returns, or throws ScheduleAbortError
ReadyWake(t) ==
    /\ pc[t] = "ready"
    /\ Awake(t)
    /\ Goto(t, IF t \in aborted THEN "finishing" ELSE "user")
    /\ UNCHANGED <<tokenVars, handVars, waitVars, callVars, failVars,
                   deadlocked, switchCount>>

-----------------------------------------------------------------------------
(* switch_point.  Its first wait for the token never sleeps: a thread that *)
(* calls it holds the token (TokenExclusive).                              *)

AfterSwitch(l) == IF l \in {"before", "beforeWait"} THEN "call" ELSE "user"

AtSwitchPoint(t) ==
    /\ pc[t] \in {"before", "after"}
    /\ t \notin aborted
    /\ ~deadlocked

\* Seeded bug of SwitchStay: the budget is not checked
SwitchStayUnbounded(t) ==
    /\ AtSwitchPoint(t)
    /\ switchCount' = switchCount + 1
    /\ Goto(t, AfterSwitch(pc[t]))
    /\ UNCHANGED <<tokenVars, handVars, waitVars, callVars, failVars, deadlocked>>

\* choose_scheduled_target_locked keeps the token with t
SwitchStay(t) ==
    /\ AtSwitchPoint(t)
    /\ switchCount < Budget
    /\ switchCount' = switchCount + 1
    /\ Goto(t, AfterSwitch(pc[t]))
    /\ UNCHANGED <<tokenVars, handVars, waitVars, callVars, failVars, deadlocked>>

\* ... or hands it to another active thread c
SwitchTo(t, c) ==
    /\ AtSwitchPoint(t)
    /\ switchCount < Budget
    /\ switchCount' = switchCount + 1
    /\ c \in Active(finished, blocked) \ {t}
    /\ scheduled' = c
    /\ Goto(t, IF pc[t] = "before" THEN "beforeWait" ELSE "afterWait")
    /\ UNCHANGED <<tokenVars, waitVars, callVars, failVars, deadlocked>>
    /\ NotifyAll

\* switch_count_ > switch_budget_: LivelockError (the count is capped one
\* above the budget, every later comparison gives the same answer)
SwitchLivelock(t) ==
    /\ AtSwitchPoint(t)
    /\ switchCount >= Budget
    /\ switchCount' = Budget + 1
    /\ Fail(t, "livelock")
    /\ UNCHANGED <<tokenVars, scheduled, waitVars, callVars, deadlocked>>
    /\ NotifyAll

\* switch_point gets the token back, or finds the run failing
SwitchWake(t) ==
    /\ pc[t] \in {"beforeWait", "afterWait"}
    /\ Awake(t)
    /\ ResumeAt(t, AfterSwitch(pc[t]))
    /\ UNCHANGED <<tokenVars, handVars, waitVars, callVars, deadlocked, switchCount>>

\* The methods that look at deadlocked_ on entry
DeadlockChecked == {"lock", "lock_shared", "try_lock_for", "try_lock_shared_for",
                    "wait", "wait_for", "relock", "acquire", "try_acquire_for",
                    "wait_latch", "wait_barrier", "park", "wait_atomic"}

\* A thread that keeps running in a failing run is stopped by its next call:
\* only a swallowed exception lets it get there
CallInterrupted(t) ==
    /\ pc[t] \in {"before", "call", "after"}
    /\ \/ t \in aborted
       \/ deadlocked /\ (pc[t] = "call" => op[t] \in DeadlockChecked)
    /\ ResumeAt(t, "user")
    /\ UNCHANGED <<tokenVars, handVars, waitVars, callVars, deadlocked, switchCount>>

-----------------------------------------------------------------------------
(* The end of a worker, as run_schedule writes it.                         *)

\* The actors of the thread are done
UserReturn(t) ==
    /\ pc[t] = "user"
    /\ Goto(t, "finishing")
    /\ UNCHANGED <<tokenVars, handVars, waitVars, callVars, failVars,
                   deadlocked, switchCount>>

\* The object under test throws
UserThrow(t) ==
    /\ pc[t] = "user"
    /\ Fail(t, "exception")
    /\ UNCHANGED <<tokenVars, handVars, waitVars, callVars, deadlocked, switchCount>>

\* run_concurrent_sequence turns the exception of an exceptions_as_results
\* operation into its result, whatever was thrown; only an abort gets through,
\* because the operation.finish event throws it again
SwallowException(t) ==
    /\ pc[t] = "failed"
    /\ t \in ExceptionResults
    /\ Goto(t, IF t \in aborted THEN "finishing" ELSE "user")
    /\ UNCHANGED <<tokenVars, handVars, waitVars, callVars, failVars,
                   deadlocked, switchCount>>

\* catch (...) in the worker: keep the first failure ...
RecordFailure(t) ==
    /\ pc[t] = "failed"
    /\ t \notin ExceptionResults
    /\ exception' = IF exception = "none" THEN failure[t] ELSE exception
    /\ Goto(t, "recorded")
    /\ UNCHANGED <<tokenVars, handVars, waitVars, callVars, failure,
                   deadlocked, switchCount>>

\* Seeded bug of Peers: only the blocked workers are told
PeersBlocked(t) == blocked \ {t}

\* The workers an abort of thread t has to reach
Peers(t) == Threads \ (finished \cup {t})

\* ... and request_abort
RequestAbort(t) ==
    /\ pc[t] = "recorded"
    /\ abortRequested' = TRUE
    /\ aborted' = aborted \cup Peers(t)
    /\ Goto(t, "finishing")
    /\ UNCHANGED <<ready, finished, started, scheduled, waitVars, callVars,
                   failVars, deadlocked, switchCount>>
    /\ NotifyAll

\* finish_thread
FinishThread(t) ==
    /\ pc[t] = "finishing"
    /\ finished' = finished \cup {t}
    /\ Goto(t, "done")
    /\ \/ /\ scheduled # t
          /\ UNCHANGED <<scheduled, queue, blocked, timedOut, deadlocked>>
       \/ /\ scheduled = t
          /\ CanHandOff(finished', blocked, queue, timed)
          /\ HandOff(t, finished', blocked, queue, timed, timedOut)
          /\ UNCHANGED deadlocked
       \/ /\ scheduled = t
          /\ ~CanHandOff(finished', blocked, queue, timed)
          /\ scheduled' = NoThread
          /\ deadlocked' = (deadlocked \/ (~abortRequested /\ ready \ finished' # {}))
          /\ UNCHANGED <<queue, blocked, timedOut>>
    /\ UNCHANGED <<ready, aborted, started, abortRequested, timed, callVars,
                   failVars, switchCount>>
    /\ NotifyAll

-----------------------------------------------------------------------------
(* Blocking.                                                               *)

\* push_back unless the thread is already queued
Enqueue(s, t) == IF t \in ToSet(s) THEN s ELSE Append(s, t)

\* Thread t joins queue k and gives the token away, the other queues and the
\* blocked and timed-out sets being q, b and to; isTimed for the *_for methods,
\* whose thread is itself a timed waiter, so that somebody can always run
Block(t, k, q, b, to, isTimed) ==
    LET q1 == [q EXCEPT ![k] = Enqueue(q[k], t)]
        b1 == b \cup {t}
        tm1 == IF isTimed THEN timed \cup {t} ELSE timed
        to1 == IF isTimed THEN to \ {t} ELSE to
    IN  /\ timed' = tm1
        /\ \/ /\ CanHandOff(finished, b1, q1, tm1)
              /\ HandOff(t, finished, b1, q1, tm1, to1)
              /\ Goto(t, "blocked")
              /\ UNCHANGED <<failVars, deadlocked>>
           \/ /\ ~CanHandOff(finished, b1, q1, tm1)
              /\ deadlocked' = TRUE
              /\ Fail(t, "deadlock")
              /\ queue' = q1 /\ blocked' = b1 /\ timedOut' = to1
              /\ UNCHANGED scheduled
        /\ UNCHANGED <<tokenVars, switchCount>>
        /\ NotifyAll

\* A blocked thread wakes to find the run aborted or deadlocked
BlockedInterrupted(t) ==
    /\ pc[t] = "blocked"
    /\ Awake(t)
    /\ t \in aborted \/ deadlocked
    /\ ResumeAt(t, "call")
    /\ UNCHANGED <<tokenVars, handVars, waitVars, callVars, deadlocked, switchCount>>

-----------------------------------------------------------------------------
(* Calls of the scheduler's methods, for the modules that define them.     *)

\* Seeded bug of Called: the abort check is missing
CalledUnchecked(t, os) ==
    /\ pc[t] = "call"
    /\ op[t] \in os
    /\ op[t] \in DeadlockChecked => ~deadlocked

\* Thread t is inside the scheduler method of one of the operations os, past
\* its abort and deadlock checks
Called(t, os) ==
    /\ pc[t] = "call"
    /\ op[t] \in os
    /\ t \notin aborted
    /\ op[t] \in DeadlockChecked => ~deadlocked

\* The method returns at once, with result r
Return(t, r) ==
    /\ Goto(t, "after")
    /\ granted' = [granted EXCEPT ![t] = r]
    /\ UNCHANGED <<op, obj>>

\* A blocked thread whose wait is over, in a run that is not failing
WokenIn(t, os) ==
    /\ pc[t] = "blocked"
    /\ op[t] \in os
    /\ Awake(t)
    /\ t \notin aborted
    /\ ~deadlocked

-----------------------------------------------------------------------------
\* What thread t does outside the scheduler's methods
CoreStep(t) ==
    \/ WorkerReady(t)
    \/ ReadyWake(t)
    \/ SwitchStay(t)
    \/ \E c \in Threads : SwitchTo(t, c)
    \/ SwitchLivelock(t)
    \/ SwitchWake(t)
    \/ CallInterrupted(t)
    \/ UserReturn(t)
    \/ UserThrow(t)
    \/ SwallowException(t)
    \/ RecordFailure(t)
    \/ RequestAbort(t)
    \/ FinishThread(t)
    \/ BlockedInterrupted(t)

-----------------------------------------------------------------------------
CoreTypeOK ==
    /\ ready \subseteq Threads
    /\ finished \subseteq Threads
    /\ blocked \subseteq Threads
    /\ aborted \subseteq Threads
    /\ started \in BOOLEAN
    /\ deadlocked \in BOOLEAN
    /\ abortRequested \in BOOLEAN
    /\ scheduled \in Threads \cup {NoThread}
    /\ switchCount \in 0 .. Budget + 1
    /\ asleep \subseteq Threads \cup {Main}
    /\ queue \in [Queues -> Seq(Threads)]
    /\ timed \subseteq Threads
    /\ timedOut \subseteq Threads
    /\ pc \in [Threads -> Locations]
    /\ granted \in [Threads -> BOOLEAN]
    /\ failure \in [Threads -> Failures]
    /\ exception \in Failures

-----------------------------------------------------------------------------
(* Safety of the token, the wait queues and the failure reports.           *)

InControl(t) == Running(t) \/ (pc[t] \in {"failed", "recorded"} /\ t \notin aborted)

\* Only the thread that holds the token runs code of the object under test,
\* through every switch, block, hand-over, timeout and failure, until a
\* deadlock is found (scheduled_thread_)
TokenExclusive ==
    ~deadlocked => \A t \in Threads : InControl(t) => scheduled = t

\* Once a worker has asked for the abort every other worker has been told, or
\* is past the code of the object under test: nobody is left behind to run on
\* or to sleep (request_abort)
AbortReachesPeers ==
    abortRequested => \A t \in Threads : t \in aborted \/ pc[t] \in {"finishing", "done"}

\* The token is never lost or left with a thread that cannot run: while a
\* run is neither failing nor over, its holder is ready and not blocked
\* (choose_next_active_or_timeout_locked and the hand-overs)
TokenNotLost ==
    started /\ ~abortRequested /\ ~deadlocked /\ finished # Threads
        => scheduled \in Active(finished, blocked)

\* The places of thread t in the wait queues
Slots(t) == {s \in UNION {{k} \X DOMAIN queue[k] : k \in Queues} : queue[s[1]][s[2]] = t}

\* A thread is marked blocked exactly while it is in one wait queue, once:
\* no wake-up leaves a stale waiter behind, no waiter is queued twice
QueuedOnceIffBlocked ==
    \A t \in Threads :
        /\ t \in blocked <=> Slots(t) # {}
        /\ Cardinality(Slots(t)) <= 1

\* Every worker has finished; the main thread joins them
AllDone == \A t \in Threads : pc[t] = "done"

\* No thread sleeps on cv_ past the moment its predicate became true: every
\* method that can make one true notifies (cv_.notify_all)
NoMissedNotify == asleep = Sleepers

\* A deadlock is reported as a deadlock (PORTING_LINCHECK_TO_CPP.md)
DeadlockReported == AllDone /\ deadlocked => exception = "deadlock"

\* When the workers have been joined the failure that run_schedule kept is
\* what happened: a deadlock or a spent budget is never masked by what other
\* workers threw while they were being stopped, and nothing fails silently
FailureReported ==
    AllDone =>
        /\ DeadlockReported
        /\ switchCount > Budget => exception = "livelock"
        /\ exception = "none" => ~abortRequested /\ blocked = {}
=============================================================================
