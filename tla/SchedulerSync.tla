---------------------------- MODULE SchedulerSync ----------------------------
(***************************************************************************)
(* Counting semaphores, latches, barriers, parkers and atomic waits: the   *)
(* wrapper classes with their own, native, state and the managed state     *)
(* that CooperativeScheduler keeps beside it by address.                   *)
(*                                                                         *)
(* The managed entry of an object appears at its first managed call, as a  *)
(* copy of the native state the wrapper observed.  A wrapper's native part *)
(* and the scheduler method it calls are one action: nothing else runs in  *)
(* between (TokenExclusive), as long as no operation swallows a deadlock.  *)
(***************************************************************************)
EXTENDS SchedulerCore

CONSTANTS
    Latches, Barriers, Parkers, Atomics,
    Programs,       \* objects under test: the <<operation, object>> pairs they call
    Permits,        \* initial permits of each semaphore
    MaxPermits,     \* LeastMaxValue of the counting semaphores
    Counts,         \* initial count of each latch
    Expected,       \* number of parties of each barrier
    CustomBarriers, \* barriers with a completion function of their own
    UsedBefore,     \* objects the initial part of the scenario has used
    MaxUpdate       \* bound: the largest update of one call

SemaphoreCalls == {"release", "acquire", "try_acquire", "try_acquire_for"}
LatchCalls == {"count_down", "try_wait", "wait_latch"}
BarrierCalls == {"arrive", "arrive_and_drop", "wait_barrier"}
ParkerCalls == {"park", "unpark"}
AtomicCalls == {"store", "wait_atomic", "notify_one", "notify_all"}

Latch(x) == <<"latch", x>>
Barrier(x) == <<"barrier", x>>
Parker(x) == <<"parker", x>>
Atomic(x) == <<"atomic", x>>
Semaphore(x) == <<"semaphore", x>>

AllCalls == UNION {SemaphoreCalls \X Semaphores, LatchCalls \X Latches,
                   BarrierCalls \X Barriers, ParkerCalls \X Parkers,
                   AtomicCalls \X Atomics}

ASSUME ProgramsAssumption == Programs \subseteq SUBSET AllCalls
ASSUME QueuesAssumption ==
    OtherQueues = ({"latch"} \X Latches) \cup ({"barrier"} \X Barriers)
                    \cup ({"parker"} \X Parkers) \cup ({"atomic"} \X Atomics)
ASSUME SwallowAssumption == ExceptionResults = {}
ASSUME SizesAssumption ==
    /\ MaxPermits \in Nat /\ MaxUpdate \in Nat
    /\ Permits \in [Semaphores -> 0 .. MaxPermits]
    /\ Counts \in [Latches -> Nat]
    /\ Expected \in [Barriers -> Nat]
    /\ CustomBarriers \subseteq Barriers
    /\ UsedBefore \subseteq Parkers \cup Barriers
    /\ \A x \in UsedBefore \cap Barriers : Expected[x] > 0

VARIABLES
    program,        \* the object under test of this run
    touched,        \* objects with an entry in semaphores_, latches_, barriers_
    nativePermits, permits,
    nativeCount, count,
    nativeBarrier, barrier,    \* expected, remaining and phase
    permit,         \* ParkState::permit, managed only
    value,          \* the atomics
    token,          \* phase of the arrival_token a thread has, NoPhase if none
    arg             \* argument of the call: update, expected value or phase

semaphoreVars == <<nativePermits, permits>>
latchVars == <<nativeCount, count>>
barrierVars == <<nativeBarrier, barrier, token>>
syncVars == <<touched, semaphoreVars, latchVars, barrierVars, permit, value, arg>>
vars == <<coreVars, syncVars, program>>

NoPhase == -1

\* A barrier used before has lost one arrival, whose token thread 0 was given
Init ==
    /\ CoreInit
    /\ program \in Programs
    /\ touched = {}
    /\ nativePermits = Permits /\ permits = Permits
    /\ nativeCount = Counts /\ count = Counts
    /\ nativeBarrier = [x \in Barriers |->
            [expected |-> Expected[x], phase |-> IF x \in UsedBefore /\ Expected[x] = 1 THEN 1 ELSE 0,
             remaining |-> IF x \in UsedBefore /\ Expected[x] > 1 THEN Expected[x] - 1 ELSE Expected[x]]]
    /\ barrier = nativeBarrier
    /\ permit = [x \in Parkers |-> FALSE]
    /\ value = [x \in Atomics |-> 0]
    /\ token = [t \in Threads |-> [x \in Barriers |->
            IF t = 0 /\ x \in UsedBefore THEN 0 ELSE NoPhase]]
    /\ arg = [t \in Threads |-> 0]

-----------------------------------------------------------------------------
ArgumentsOf(o) ==
    IF o \in {"release", "count_down", "arrive"} THEN 0 .. MaxUpdate
    ELSE IF o \in {"store", "wait_atomic"} THEN {0, 1}
    ELSE IF o = "arrive_and_drop" THEN {1} ELSE {0}

\* The object under test calls operation o on object x with argument n
Begin(t, o, x, n) ==
    /\ pc[t] = "user"
    /\ op' = [op EXCEPT ![t] = o]
    /\ obj' = [obj EXCEPT ![t] = x]
    /\ arg' = [arg EXCEPT ![t] = n]
    /\ Goto(t, "call")
    /\ UNCHANGED <<tokenVars, handVars, waitVars, granted, failVars, deadlocked,
                   switchCount, touched, semaphoreVars, latchVars, barrierVars,
                   permit, value>>

\* A std::invalid_argument or std::runtime_error leaves the call
Reject(t) ==
    /\ Fail(t, "misuse")
    /\ UNCHANGED callVars

NoHandOff == UNCHANGED <<tokenVars, scheduled, timed, deadlocked, switchCount>>
NoWaitChange == NoHandOff /\ UNCHANGED <<asleep, queue, blocked, timedOut>>

\* Seeded bug of Wake: the woken threads stay blocked
WakeBlocked(k, woken, rest) ==
    /\ queue' = [queue EXCEPT ![k] = rest]
    /\ timedOut' = timedOut \ woken
    /\ UNCHANGED blocked
    /\ NoHandOff
    /\ NotifyAll

\* The threads of woken leave queue k, in which rest stays, and cv_ is
\* notified (only timed waiters have a timed-out flag to clear)
Wake(k, woken, rest) ==
    /\ queue' = [queue EXCEPT ![k] = rest]
    /\ blocked' = blocked \ woken
    /\ timedOut' = timedOut \ woken
    /\ NoHandOff
    /\ NotifyAll

BlockOn(t, k, isTimed) ==
    /\ Block(t, k, queue, blocked, timedOut, isTimed)
    /\ UNCHANGED callVars

\* After its wait thread t goes on to the switch point of its wrapper
Resume(t, r) ==
    /\ Return(t, r)
    /\ UNCHANGED <<tokenVars, handVars, queue, blocked, failVars, deadlocked,
                   switchCount>>

-----------------------------------------------------------------------------
(* counting_semaphore.                                                     *)

\* Seeded bug of Managed: every call takes over the observed count
ManagedObserved(x) == nativePermits[x]

\* semaphore_state_locked, for a caller that observed the native permits
Managed(x) == IF x \in touched THEN permits[x] ELSE nativePermits[x]

\* Seeded bugs of Served: every waiter; one waiter for each call
ServedAll(x, p) == Len(queue[Semaphore(x)])
ServedOne(x, p) == IF p > 0 /\ queue[Semaphore(x)] # <<>> THEN 1 ELSE 0

\* How many waiters of x a release that brings p permits serves
Served(x, p) == IF p < Len(queue[Semaphore(x)]) THEN p ELSE Len(queue[Semaphore(x)])

\* release: add_permits, then release_semaphore
Release(t) ==
    LET x == obj[t]
        s == queue[Semaphore(x)]
        p == Managed(x) + arg[t]
        k == Served(x, p)
    IN
    /\ Called(t, {"release"})
    /\ nativePermits[x] <= MaxPermits - arg[t]
    /\ nativePermits' = [nativePermits EXCEPT ![x] = nativePermits[x] + arg[t]]
    /\ permits' = [permits EXCEPT ![x] = p - k]
    /\ touched' = touched \cup {x}
    /\ Return(t, TRUE)
    /\ Wake(Semaphore(x), {s[i] : i \in 1 .. k}, SubSeq(s, k + 1, Len(s)))
    /\ UNCHANGED <<failVars, latchVars, barrierVars, permit, value, arg>>

\* release above max(): the scheduler hears nothing of it
ReleaseRejected(t) ==
    /\ Called(t, {"release"})
    /\ nativePermits[obj[t]] > MaxPermits - arg[t]
    /\ Reject(t)
    /\ NoWaitChange
    /\ UNCHANGED syncVars

\* consume_permit_after_managed_acquire
Consume(t, x) ==
    \/ /\ nativePermits[x] > 0
       /\ nativePermits' = [nativePermits EXCEPT ![x] = nativePermits[x] - 1]
       /\ Return(t, TRUE)
       /\ UNCHANGED failVars
    \/ /\ nativePermits[x] <= 0
       /\ Reject(t)
       /\ UNCHANGED nativePermits

\* acquire, try_acquire and try_acquire_for find a permit
Acquire(t) ==
    LET x == obj[t] IN
    /\ Called(t, {"acquire", "try_acquire", "try_acquire_for"})
    /\ Managed(x) > 0
    /\ permits' = [permits EXCEPT ![x] = Managed(x) - 1]
    /\ touched' = touched \cup {x}
    /\ Consume(t, x)
    /\ NoWaitChange
    /\ UNCHANGED <<latchVars, barrierVars, permit, value, arg>>

\* try_acquire fails, or try_acquire_for is given no time at all
TryAcquireRefused(t) ==
    LET x == obj[t] IN
    /\ Called(t, {"try_acquire", "try_acquire_for"})
    /\ Managed(x) <= 0
    /\ permits' = [permits EXCEPT ![x] = Managed(x)]
    /\ touched' = touched \cup {x}
    /\ Return(t, FALSE)
    /\ NoWaitChange
    /\ UNCHANGED <<failVars, nativePermits, latchVars, barrierVars, permit, value, arg>>

AcquireBlock(t) ==
    LET x == obj[t] IN
    /\ Called(t, {"acquire", "try_acquire_for"})
    /\ Managed(x) <= 0
    /\ permits' = [permits EXCEPT ![x] = Managed(x)]
    /\ touched' = touched \cup {x}
    /\ BlockOn(t, Semaphore(x), op[t] = "try_acquire_for")
    /\ UNCHANGED <<nativePermits, latchVars, barrierVars, permit, value, arg>>

\* A waiter that was served takes the native permit too, one that was timed
\* out returns false
AcquireWake(t) ==
    /\ WokenIn(t, {"acquire", "try_acquire_for"})
    /\ \/ /\ op[t] = "try_acquire_for" /\ t \in timedOut
          /\ Return(t, FALSE)
          /\ UNCHANGED <<nativePermits, failVars>>
       \/ /\ op[t] = "acquire" \/ t \notin timedOut
          /\ Consume(t, obj[t])
    /\ timed' = IF op[t] = "acquire" THEN timed ELSE timed \ {t}
    /\ timedOut' = IF op[t] = "acquire" THEN timedOut ELSE timedOut \ {t}
    /\ UNCHANGED <<tokenVars, handVars, queue, blocked, deadlocked, switchCount,
                   touched, permits, latchVars, barrierVars, permit, value, arg>>

SemaphoreStep(t) ==
    \/ Release(t)
    \/ ReleaseRejected(t)
    \/ Acquire(t)
    \/ TryAcquireRefused(t)
    \/ AcquireBlock(t)
    \/ AcquireWake(t)

-----------------------------------------------------------------------------
(* latch.                                                                  *)

\* latch_state_locked
ManagedCount(x) == IF x \in touched THEN count[x] ELSE nativeCount[x]

\* Seeded bugs of Opened: one count early; only the first waiter
OpenedEarly(x, c) == IF c > 1 THEN {} ELSE ToSet(queue[Latch(x)])
OpenedFirst(x, c) == IF c > 0 \/ queue[Latch(x)] = <<>> THEN {} ELSE {Head(queue[Latch(x)])}

\* Whom a count_down to c wakes: everybody, at zero
Opened(x, c) == IF c > 0 THEN {} ELSE ToSet(queue[Latch(x)])

\* The threads of s that are not in woken, in their order
Without(s, woken) ==
    LET kept[i \in 0 .. Len(s)] ==
            IF i = 0 THEN <<>>
            ELSE IF s[i] \in woken THEN kept[i - 1] ELSE Append(kept[i - 1], s[i])
    IN  kept[Len(s)]

\* count_down: subtract_count, then count_down_latch
CountDown(t) ==
    LET x == obj[t]
        c == ManagedCount(x) - arg[t]
    IN
    /\ Called(t, {"count_down"})
    /\ arg[t] <= nativeCount[x]
    /\ nativeCount' = [nativeCount EXCEPT ![x] = nativeCount[x] - arg[t]]
    /\ touched' = touched \cup {x}
    /\ \/ /\ c >= 0
          /\ count' = [count EXCEPT ![x] = c]
          /\ Return(t, TRUE)
          /\ Wake(Latch(x), Opened(x, c), Without(queue[Latch(x)], Opened(x, c)))
          /\ UNCHANGED failVars
       \/ /\ c < 0
          /\ count' = [count EXCEPT ![x] = ManagedCount(x)]
          /\ Reject(t)
          /\ NoWaitChange
    /\ UNCHANGED <<semaphoreVars, barrierVars, permit, value, arg>>

\* count_down by more than is left
CountDownRejected(t) ==
    /\ Called(t, {"count_down"})
    /\ arg[t] > nativeCount[obj[t]]
    /\ Reject(t)
    /\ NoWaitChange
    /\ UNCHANGED syncVars

\* try_wait, and wait on an open latch
LatchPass(t) ==
    LET x == obj[t] IN
    /\ Called(t, {"try_wait", "wait_latch"})
    /\ op[t] = "wait_latch" => ManagedCount(x) = 0
    /\ count' = [count EXCEPT ![x] = ManagedCount(x)]
    /\ touched' = touched \cup {x}
    /\ Return(t, ManagedCount(x) = 0)
    /\ NoWaitChange
    /\ UNCHANGED <<failVars, nativeCount, semaphoreVars, barrierVars, permit, value, arg>>

LatchBlock(t) ==
    LET x == obj[t] IN
    /\ Called(t, {"wait_latch"})
    /\ ManagedCount(x) # 0
    /\ count' = [count EXCEPT ![x] = ManagedCount(x)]
    /\ touched' = touched \cup {x}
    /\ BlockOn(t, Latch(x), FALSE)
    /\ UNCHANGED <<nativeCount, semaphoreVars, barrierVars, permit, value, arg>>

LatchWake(t) ==
    /\ WokenIn(t, {"wait_latch"})
    /\ Resume(t, TRUE)
    /\ UNCHANGED <<timed, timedOut, syncVars>>

LatchStep(t) ==
    \/ CountDown(t)
    \/ CountDownRejected(t)
    \/ LatchPass(t)
    \/ LatchBlock(t)
    \/ LatchWake(t)

-----------------------------------------------------------------------------
(* barrier.                                                                *)

\* barrier_state_locked
ManagedBarrier(x) == IF x \in touched THEN barrier[x] ELSE nativeBarrier[x]

Dropped(t) == IF op[t] = "arrive_and_drop" THEN 1 ELSE 0

\* apply_arrival: native barrier b after n arrivals, of which d drop out
NativeArrival(b, n, d) ==
    LET e == b.expected - d IN
    IF b.remaining = n THEN [expected |-> e, remaining |-> e, phase |-> b.phase + 1]
    ELSE [expected |-> e, remaining |-> b.remaining - n, phase |-> b.phase]

\* Seeded bug of ManagedArrival: who dropped out is expected in the next phase
ManagedArrivalUndropped(b, n, d) ==
    IF b.remaining > n THEN [b EXCEPT !.remaining = b.remaining - n, !.expected = b.expected - d]
    ELSE [expected |-> b.expected - d, remaining |-> b.expected, phase |-> b.phase + 1]

\* arrive_barrier_locked, the same for the managed barrier
ManagedArrival(b, n, d) ==
    IF b.remaining > n THEN [b EXCEPT !.remaining = b.remaining - n, !.expected = b.expected - d]
    ELSE [expected |-> b.expected - d, remaining |-> b.expected - d, phase |-> b.phase + 1]

\* apply_arrival accepts the call
MayArrive(t) ==
    LET b == nativeBarrier[obj[t]] IN
    /\ arg[t] > 0
    /\ Dropped(t) = 1 => b.expected > 0
    /\ arg[t] <= b.remaining
    /\ obj[t] \in CustomBarriers => b.remaining # arg[t]

\* Seeded bugs of Released: every arrival wakes the waiters; only the first
ReleasedAll(x, p) == ToSet(queue[Barrier(x)])
ReleasedFirst(x, p) == IF queue[Barrier(x)] = <<>> THEN {} ELSE {Head(queue[Barrier(x)])}

\* The waiters of phases before p
Released(x, p) == {t \in ToSet(queue[Barrier(x)]) : arg[t] < p}

\* arrive and arrive_and_drop: apply_arrival, then arrive_barrier
Arrive(t) ==
    LET x == obj[t]
        b == ManagedArrival(ManagedBarrier(x), arg[t], Dropped(t))
        woken == Released(x, b.phase)
    IN
    /\ Called(t, {"arrive", "arrive_and_drop"})
    /\ MayArrive(t)
    /\ nativeBarrier' = [nativeBarrier EXCEPT ![x] = NativeArrival(@, arg[t], Dropped(t))]
    /\ barrier' = [barrier EXCEPT ![x] = b]
    /\ touched' = touched \cup {x}
    /\ token' = IF Dropped(t) = 1 THEN token
                ELSE [token EXCEPT ![t][x] = nativeBarrier[x].phase]
    /\ Return(t, TRUE)
    /\ Wake(Barrier(x), woken, Without(queue[Barrier(x)], woken))
    /\ UNCHANGED <<failVars, semaphoreVars, latchVars, permit, value, arg>>

ArriveRejected(t) ==
    /\ Called(t, {"arrive", "arrive_and_drop"})
    /\ ~MayArrive(t)
    /\ Reject(t)
    /\ NoWaitChange
    /\ UNCHANGED syncVars

\* wait uses up the token of the caller; arg keeps its phase
UseToken(t) ==
    /\ Called(t, {"wait_barrier"})
    /\ token[t][obj[t]] # NoPhase
    /\ token' = [token EXCEPT ![t][obj[t]] = NoPhase]
    /\ arg' = [arg EXCEPT ![t] = token[t][obj[t]]]
    /\ UNCHANGED <<touched, nativeBarrier, barrier, semaphoreVars, latchVars, permit, value>>

\* wait on a phase that is over
BarrierPass(t) ==
    /\ UseToken(t)
    /\ obj[t] \in touched
    /\ barrier[obj[t]].phase > token[t][obj[t]]
    /\ Return(t, TRUE)
    /\ NoWaitChange
    /\ UNCHANGED failVars

BarrierBlock(t) ==
    /\ UseToken(t)
    /\ obj[t] \in touched
    /\ barrier[obj[t]].phase = token[t][obj[t]]
    /\ BlockOn(t, Barrier(obj[t]), FALSE)

\* wait without a token, with one from before the first managed arrival, or
\* with one of a phase to come
BarrierWaitRejected(t) ==
    /\ Called(t, {"wait_barrier"})
    /\ \/ token[t][obj[t]] = NoPhase /\ UNCHANGED syncVars
       \/ /\ UseToken(t)
          /\ obj[t] \notin touched \/ barrier[obj[t]].phase < token[t][obj[t]]
    /\ Reject(t)
    /\ NoWaitChange

BarrierWake(t) ==
    /\ WokenIn(t, {"wait_barrier"})
    /\ Resume(t, TRUE)
    /\ UNCHANGED <<timed, timedOut, syncVars>>

BarrierStep(t) ==
    \/ Arrive(t)
    \/ ArriveRejected(t)
    \/ BarrierPass(t)
    \/ BarrierBlock(t)
    \/ BarrierWaitRejected(t)
    \/ BarrierWake(t)

-----------------------------------------------------------------------------
(* parker and the waits of atomic.                                         *)

ParkPass(t) ==
    /\ Called(t, {"park"})
    /\ permit[obj[t]]
    /\ permit' = [permit EXCEPT ![obj[t]] = FALSE]
    /\ Return(t, TRUE)
    /\ NoWaitChange
    /\ UNCHANGED <<failVars, touched, semaphoreVars, latchVars, barrierVars, value, arg>>

\* Seeded bug of ParkBlock: the permit is not looked at
ParkBlockAlways(t) ==
    /\ Called(t, {"park"})
    /\ BlockOn(t, Parker(obj[t]), FALSE)
    /\ UNCHANGED syncVars

ParkBlock(t) ==
    /\ Called(t, {"park"})
    /\ ~permit[obj[t]]
    /\ BlockOn(t, Parker(obj[t]), FALSE)
    /\ UNCHANGED syncVars

ParkWake(t) ==
    /\ WokenIn(t, {"park"})
    /\ Resume(t, TRUE)
    /\ UNCHANGED <<timed, timedOut, syncVars>>

\* Seeded bug of KeepsPermit: a permit is stored besides the wake-up
KeepsPermitAlways(x) == TRUE

\* unpark stores a permit when nobody waits
KeepsPermit(x) == permit[x] \/ queue[Parker(x)] = <<>>

Unpark(t) ==
    LET x == obj[t]
        s == queue[Parker(x)]
    IN
    /\ Called(t, {"unpark"})
    /\ permit' = [permit EXCEPT ![x] = KeepsPermit(x)]
    /\ Return(t, TRUE)
    /\ IF s = <<>> THEN Wake(Parker(x), {}, s) ELSE Wake(Parker(x), {Head(s)}, Tail(s))
    /\ UNCHANGED <<failVars, touched, semaphoreVars, latchVars, barrierVars, value, arg>>

\* store, and the other writes of an atomic
Store(t) ==
    /\ Called(t, {"store"})
    /\ value' = [value EXCEPT ![obj[t]] = arg[t]]
    /\ Return(t, TRUE)
    /\ NoWaitChange
    /\ UNCHANGED <<failVars, touched, semaphoreVars, latchVars, barrierVars, permit, arg>>

\* wait(old) returns once the value differs from old
AtomicPass(t) ==
    /\ Called(t, {"wait_atomic"})
    /\ value[obj[t]] # arg[t]
    /\ Return(t, TRUE)
    /\ NoWaitChange
    /\ UNCHANGED <<failVars, syncVars>>

AtomicBlock(t) ==
    /\ Called(t, {"wait_atomic"})
    /\ value[obj[t]] = arg[t]
    /\ BlockOn(t, Atomic(obj[t]), FALSE)
    /\ UNCHANGED syncVars

\* ... and looks at the value again whenever it is notified
AtomicWake(t) ==
    /\ WokenIn(t, {"wait_atomic"})
    /\ Goto(t, "call")
    /\ UNCHANGED <<tokenVars, handVars, waitVars, callVars, failVars, deadlocked,
                   switchCount, syncVars>>

\* notify_one_atomic and notify_all_atomic
NotifyAtomic(t) ==
    LET x == obj[t]
        s == queue[Atomic(x)]
    IN
    /\ Called(t, {"notify_one", "notify_all"})
    /\ Return(t, TRUE)
    /\ IF op[t] = "notify_all" \/ s = <<>> THEN Wake(Atomic(x), ToSet(s), <<>>)
       ELSE Wake(Atomic(x), {Head(s)}, Tail(s))
    /\ UNCHANGED <<failVars, syncVars>>

ParkStep(t) == ParkPass(t) \/ ParkBlock(t) \/ ParkWake(t) \/ Unpark(t)
AtomicStep(t) == Store(t) \/ AtomicPass(t) \/ AtomicBlock(t) \/ AtomicWake(t) \/ NotifyAtomic(t)

-----------------------------------------------------------------------------
SyncStep(t) ==
    \/ \E c \in program : \E n \in ArgumentsOf(c[1]) : Begin(t, c[1], c[2], n)
    \/ SemaphoreStep(t)
    \/ LatchStep(t)
    \/ BarrierStep(t)
    \/ ParkStep(t)
    \/ AtomicStep(t)

Step(t) == SyncStep(t) \/ (CoreStep(t) /\ UNCHANGED syncVars)

Terminated == AllDone /\ UNCHANGED vars

Next ==
    /\ \/ WaitUntilReady /\ UNCHANGED syncVars
       \/ \E t \in Threads : Step(t)
       \/ Terminated
    /\ UNCHANGED program

Spec == Init /\ [][Next]_vars

-----------------------------------------------------------------------------
(* Types.                                                                  *)

BarrierStates == [expected : Nat, remaining : Nat, phase : Nat]

\* The object of a call is of the kind its operation works on
CallOK(t) ==
    \/ op[t] = "none" /\ obj[t] = "none"
    \/ op[t] \in SemaphoreCalls /\ obj[t] \in Semaphores /\ arg[t] \in Nat
    \/ op[t] \in LatchCalls /\ obj[t] \in Latches /\ arg[t] \in Nat
    \/ op[t] \in BarrierCalls /\ obj[t] \in Barriers /\ arg[t] \in Nat
    \/ op[t] \in ParkerCalls /\ obj[t] \in Parkers
    \/ op[t] \in AtomicCalls /\ obj[t] \in Atomics /\ arg[t] \in {0, 1}

\* Type invariant of the wrappers' and of the scheduler's state: no count ever
\* goes below zero or a semaphore above max()
TypeOK ==
    /\ CoreTypeOK
    /\ DOMAIN op = Threads
    /\ DOMAIN obj = Threads
    /\ DOMAIN arg = Threads
    /\ \A t \in Threads : CallOK(t)
    /\ program \in Programs
    /\ touched \subseteq UNION {Semaphores, Latches, Barriers}
    /\ nativePermits \in [Semaphores -> 0 .. MaxPermits]
    /\ permits \in [Semaphores -> 0 .. MaxPermits]
    /\ nativeCount \in [Latches -> Nat]
    /\ count \in [Latches -> Nat]
    /\ nativeBarrier \in [Barriers -> BarrierStates]
    /\ barrier \in [Barriers -> BarrierStates]
    /\ permit \in [Parkers -> BOOLEAN]
    /\ value \in [Atomics -> {0, 1}]
    /\ token \in [Threads -> [Barriers -> Nat \cup {NoPhase}]]

-----------------------------------------------------------------------------
(* Safety.                                                                 *)

\* The waiters of x that a release has served and that have not run since
Granted(x) ==
    {t \in Threads : /\ pc[t] = "blocked" /\ t \notin blocked
                     /\ op[t] \in {"acquire", "try_acquire_for"} /\ obj[t] = x
                     /\ t \notin timedOut}

\* The two permit counts of a semaphore differ by exactly the waiters that own
\* a permit and have not taken the native one yet: no permit is lost, made up
\* or taken twice by hand-over, time-out and first observation, and the
\* wrapper never finds its count inconsistent
\* (consume_permit_after_managed_acquire)
PermitsAgree ==
    ~abortRequested =>
        \A x \in Semaphores \cap touched :
            nativePermits[x] = permits[x] + Cardinality(Granted(x))

\* The managed latches and barriers are what the native ones are, from the
\* first managed call on: count_down and arrive are accepted by both or by
\* neither
GatesAgree ==
    /\ \A x \in Latches \cap touched : count[x] = nativeCount[x]
    /\ \A x \in Barriers \cap touched : barrier[x] = nativeBarrier[x]

\* Nobody sleeps on what is there: a semaphore or parker with waiters has no
\* permit, a latch with waiters is closed, and the waiters of a barrier wait
\* for its current phase, which somebody can still complete
NoIdlePermit ==
    /\ \A x \in Semaphores : queue[Semaphore(x)] # <<>> => permits[x] = 0
    /\ \A x \in Parkers : queue[Parker(x)] # <<>> => ~permit[x]
    /\ \A x \in Latches : queue[Latch(x)] # <<>> => count[x] > 0
    /\ \A x \in Barriers : \A t \in ToSet(queue[Barrier(x)]) :
            arg[t] = barrier[x].phase /\ barrier[x].remaining > 0

\* Nobody passes a gate too early: wait of a latch returns, and try_wait
\* returns true, only when the count is zero, wait of a barrier only when the
\* phase of its token is over
PassedMeansOpen ==
    \A t \in Threads : pc[t] \in {"after", "afterWait"} =>
        /\ op[t] = "wait_latch" \/ (op[t] = "try_wait" /\ granted[t]) => nativeCount[obj[t]] = 0
        /\ op[t] = "wait_barrier" => nativeBarrier[obj[t]].phase > arg[t]

\* park() blocks until unpark() releases a waiter or stores a permit
\* (README_ARCHIVE.md): nobody is parked while a stored permit is left, an
\* unpark of the initial part having stored one
ParkerPermitSeen ==
    \A x \in Parkers : queue[Parker(x)] # <<>> => ~permit[x] /\ x \notin UsedBefore

-----------------------------------------------------------------------------
(* What a step may never do.                                               *)

\* A deadlock is declared only when nobody can run and no timed acquire is
\* pending (choose_next_active_or_timeout_locked)
DeadlockIsReal ==
    [][~deadlocked /\ deadlocked' =>
            Active(finished, blocked)' = {} /\ Expirable(queue, timed, finished)' = {}]_vars

\* One unpark lets at most one park through: it wakes one thread or stores the
\* permit, never both, and no permit turns up otherwise
OneParkPerUnpark ==
    [][\A x \in Parkers :
            LET waiters == Len(queue[Parker(x)]) - (IF permit[x] THEN 1 ELSE 0)
                waitersNext == Len(queue'[Parker(x)]) - (IF permit'[x] THEN 1 ELSE 0)
            IN  waitersNext >= waiters - 1]_vars
=============================================================================
