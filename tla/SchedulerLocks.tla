--------------------------- MODULE SchedulerLocks ---------------------------
(***************************************************************************)
(* Managed mutexes, shared mutexes and condition variables: the lock,      *)
(* shared-lock, timed-lock and condition methods of CooperativeScheduler,  *)
(* under the wrapper classes lincheck::mutex, shared_mutex, their timed    *)
(* and recursive forms, and lincheck::condition_variable.                  *)
(*                                                                         *)
(* All the mutex wrappers call the same scheduler methods, so one Locks    *)
(* set stands for every kind; the object under test is free to call any    *)
(* operation of Ops in any order, and to misuse it.                        *)
(***************************************************************************)
EXTENDS SchedulerCore

CONSTANTS
    LockOf,     \* the mutex each condition variable is used with
    Ops,        \* the wrapper operations the object under test calls
    MaxDepth    \* bound: how often one thread may hold one lock

LockOps == {"lock", "try_lock", "try_lock_for", "unlock"}
SharedOps == {"lock_shared", "try_lock_shared", "try_lock_shared_for", "unlock_shared"}
ConditionOps == {"wait", "wait_for", "notify_one", "notify_all"}

ASSUME LockOfAssumption == LockOf \in [Conditions -> Locks]
ASSUME OpsAssumption == Ops \subseteq LockOps \cup SharedOps \cup ConditionOps
ASSUME MaxDepthAssumption == MaxDepth \in Nat \ {0}

VARIABLES
    owner,      \* LockState::owner, NoThread when free
    depth,      \* LockState::depth
    shared      \* LockState::shared_owners, 0 for a thread not in the map

lockVars == <<owner, depth, shared>>
vars == <<coreVars, lockVars>>

LockQueue(l) == queue[<<"lock", l>>]
SharedQueue(l) == queue[<<"shared", l>>]
ConditionQueue(c) == queue[<<"condition", c>>]

Readers(l) == {t \in Threads : shared[l][t] > 0}

Init ==
    /\ CoreInit
    /\ owner = [l \in Locks |-> NoThread]
    /\ depth = [l \in Locks |-> 0]
    /\ shared = [l \in Locks |-> [t \in Threads |-> 0]]

-----------------------------------------------------------------------------
(* Calling an operation.                                                   *)

Acquiring == {"lock", "try_lock", "try_lock_for",
              "lock_shared", "try_lock_shared", "try_lock_shared_for"}

ObjectsOf(o) == IF o \in ConditionOps THEN Conditions ELSE Locks

\* The object under test calls operation o on object x.  lock and lock_shared
\* start with a switch point, the other wrappers with the scheduler method
Begin(t, o, x) ==
    /\ pc[t] = "user"
    /\ o \in Acquiring => /\ owner[x] = t => depth[x] < MaxDepth
                          /\ shared[x][t] < MaxDepth
    /\ op' = [op EXCEPT ![t] = o]
    /\ obj' = [obj EXCEPT ![t] = x]
    /\ Goto(t, IF o \in {"lock", "lock_shared"} THEN "before" ELSE "call")
    /\ UNCHANGED <<tokenVars, handVars, waitVars, granted, failVars,
                   deadlocked, switchCount, lockVars>>

-----------------------------------------------------------------------------
(* Acquiring.                                                              *)

\* Seeded bugs of MayLock: readers or the owner are ignored
MayLockBesideReaders(t, l) == owner[l] \in {t, NoThread}
MayLockOwned(t, l) == Readers(l) = {}

MayLock(t, l) == owner[l] = t \/ (owner[l] = NoThread /\ Readers(l) = {})
MayLockShared(l) == owner[l] = NoThread

\* lock, try_lock and try_lock_for of a lock that is free or already t's
LockAcquire(t) ==
    LET l == obj[t] IN
    /\ Called(t, {"lock", "relock", "try_lock", "try_lock_for"})
    /\ MayLock(t, l)
    /\ owner' = [owner EXCEPT ![l] = t]
    /\ depth' = [depth EXCEPT ![l] = depth[l] + 1]
    /\ Return(t, TRUE)
    /\ UNCHANGED <<tokenVars, handVars, waitVars, failVars, deadlocked,
                   switchCount, shared>>

\* lock_shared and its try forms: a writer that waits does not keep readers out
SharedAcquire(t) ==
    LET l == obj[t] IN
    /\ Called(t, {"lock_shared", "try_lock_shared", "try_lock_shared_for"})
    /\ MayLockShared(l)
    /\ shared' = [shared EXCEPT ![l][t] = shared[l][t] + 1]
    /\ Return(t, TRUE)
    /\ UNCHANGED <<tokenVars, handVars, waitVars, failVars, deadlocked,
                   switchCount, owner, depth>>

\* try_lock fails, or a *_for method is given no time at all
TryRefused(t) ==
    /\ \/ /\ Called(t, {"try_lock", "try_lock_for"})
          /\ ~MayLock(t, obj[t])
       \/ /\ Called(t, {"try_lock_shared", "try_lock_shared_for"})
          /\ ~MayLockShared(obj[t])
    /\ Return(t, FALSE)
    /\ UNCHANGED <<tokenVars, handVars, waitVars, failVars, deadlocked,
                   switchCount, lockVars>>

\* lock, the re-lock of a condition wait, try_lock_for and their shared forms
\* queue up and give the token away
LockBlock(t) ==
    /\ \/ /\ Called(t, {"lock", "relock", "try_lock_for"})
          /\ ~MayLock(t, obj[t])
          /\ Block(t, <<"lock", obj[t]>>, queue, blocked, timedOut,
                   op[t] = "try_lock_for")
       \/ /\ Called(t, {"lock_shared", "try_lock_shared_for"})
          /\ ~MayLockShared(obj[t])
          /\ Block(t, <<"shared", obj[t]>>, queue, blocked, timedOut,
                   op[t] = "try_lock_shared_for")
    /\ UNCHANGED <<callVars, lockVars>>

Holds(t, l) == owner[l] = t
HoldsShared(t, l) == shared[l][t] > 0

\* lock and lock_shared return if the lock was handed to them, or try again
LockWake(t) ==
    LET l == obj[t] IN
    /\ \/ WokenIn(t, {"lock", "relock"}) /\ Goto(t, IF Holds(t, l) THEN "after" ELSE "call")
       \/ WokenIn(t, {"lock_shared"}) /\ Goto(t, IF HoldsShared(t, l) THEN "after" ELSE "call")
    /\ granted' = [granted EXCEPT ![t] = TRUE]
    /\ UNCHANGED <<tokenVars, handVars, waitVars, op, obj, failVars, deadlocked,
                   switchCount, lockVars>>

\* the *_for methods return whether they were timed out
TimedLockWake(t) ==
    /\ WokenIn(t, {"try_lock_for", "try_lock_shared_for"})
    /\ Return(t, t \notin timedOut)
    /\ timed' = timed \ {t}
    /\ timedOut' = timedOut \ {t}
    /\ UNCHANGED <<tokenVars, handVars, queue, blocked, failVars, deadlocked,
                   switchCount, lockVars>>

-----------------------------------------------------------------------------
(* Releasing.  A full release hands the lock over in the same step: to the *)
(* first exclusive waiter, else to every shared waiter.                    *)

HandsToWriter(l) == LockQueue(l) # <<>>

\* Seeded bugs of NextOwner: the last waiter, or the old owner
NextOwnerLast(l) == IF HandsToWriter(l) THEN Last(LockQueue(l)) ELSE NoThread
NextOwnerStale(l) == IF HandsToWriter(l) THEN Head(LockQueue(l)) ELSE owner[l]

\* Who owns l after a full release
NextOwner(l) == IF HandsToWriter(l) THEN Head(LockQueue(l)) ELSE NoThread

\* Seeded bug of Woken: the waiters of a released lock stay blocked
WokenNobody(l) == {}

\* The threads a full release of l wakes
Woken(l) == IF HandsToWriter(l) THEN {Head(LockQueue(l))} ELSE ToSet(SharedQueue(l))

\* Seeded bug of QueueReleased: readers stay in the queue
QueueReleasedWriters(l) ==
    IF HandsToWriter(l) THEN [queue EXCEPT ![<<"lock", l>>] = Tail(LockQueue(l))]
    ELSE queue

QueueReleased(l) ==
    IF HandsToWriter(l) THEN [queue EXCEPT ![<<"lock", l>>] = Tail(LockQueue(l))]
    ELSE [queue EXCEPT ![<<"shared", l>>] = <<>>]

\* The lock table after l is released for good, sh being its shared owners now
Release(l, sh) ==
    /\ owner' = [owner EXCEPT ![l] = NextOwner(l)]
    /\ depth' = [depth EXCEPT ![l] = IF HandsToWriter(l) THEN 1 ELSE 0]
    /\ shared' = [shared EXCEPT ![l] =
                    IF HandsToWriter(l) THEN sh
                    ELSE [t \in Threads |-> IF t \in Woken(l) THEN sh[t] + 1 ELSE sh[t]]]

\* unlock: release_lock_locked
Unlock(t) ==
    LET l == obj[t] IN
    /\ Called(t, {"unlock"})
    /\ owner[l] = t
    /\ \/ /\ depth[l] > 1
          /\ depth' = [depth EXCEPT ![l] = depth[l] - 1]
          /\ UNCHANGED <<owner, shared, queue, blocked, timedOut>>
       \/ /\ depth[l] = 1
          /\ Release(l, shared[l])
          /\ queue' = QueueReleased(l)
          /\ blocked' = blocked \ Woken(l)
          /\ timedOut' = timedOut \ Woken(l)
    /\ Return(t, TRUE)
    /\ UNCHANGED <<tokenVars, scheduled, timed, failVars, deadlocked, switchCount>>
    /\ NotifyAll

\* unlock_shared: release_shared_lock_locked
UnlockShared(t) ==
    LET l == obj[t]
        sh == [shared[l] EXCEPT ![t] = shared[l][t] - 1]
    IN
    /\ Called(t, {"unlock_shared"})
    /\ HoldsShared(t, l)
    /\ \/ /\ owner[l] # NoThread \/ \E u \in Threads : sh[u] > 0
          /\ shared' = [shared EXCEPT ![l] = sh]
          /\ UNCHANGED <<owner, depth, queue, blocked, timedOut>>
       \/ /\ owner[l] = NoThread
          /\ \A u \in Threads : sh[u] = 0
          /\ Release(l, sh)
          /\ queue' = QueueReleased(l)
          /\ blocked' = blocked \ Woken(l)
          /\ timedOut' = timedOut \ Woken(l)
    /\ Return(t, TRUE)
    /\ UNCHANGED <<tokenVars, scheduled, timed, failVars, deadlocked, switchCount>>
    /\ NotifyAll

\* unlock and unlock_shared by a thread that does not hold the lock, and a
\* condition wait that does not hold it exactly once
Misuse(t) ==
    /\ \/ Called(t, {"unlock"}) /\ ~Holds(t, obj[t])
       \/ Called(t, {"unlock_shared"}) /\ ~HoldsShared(t, obj[t])
       \/ /\ Called(t, {"wait", "wait_for"})
          /\ ~(Holds(t, LockOf[obj[t]]) /\ depth[LockOf[obj[t]]] = 1)
    /\ Fail(t, "misuse")
    /\ UNCHANGED <<tokenVars, handVars, waitVars, callVars, deadlocked,
                   switchCount, lockVars>>

-----------------------------------------------------------------------------
(* Condition variables.                                                    *)

MayWait(t) ==
    /\ Called(t, {"wait", "wait_for"})
    /\ Holds(t, LockOf[obj[t]])
    /\ depth[LockOf[obj[t]]] = 1

\* wait_condition and wait_condition_for: release the lock and join the queue
\* of the condition in one critical section
WaitBlock(t) ==
    LET l == LockOf[obj[t]] IN
    /\ MayWait(t)
    /\ Release(l, shared[l])
    /\ Block(t, <<"condition", obj[t]>>, QueueReleased(l), blocked \ Woken(l),
             timedOut \ Woken(l), op[t] = "wait_for")
    /\ UNCHANGED callVars

Relock(t) ==
    /\ op' = [op EXCEPT ![t] = "relock"]
    /\ obj' = [obj EXCEPT ![t] = LockOf[obj[t]]]
    /\ Goto(t, "call")
    /\ UNCHANGED granted

\* wait_condition_for with no time left times itself out and goes on
WaitExpired(t) ==
    LET l == LockOf[obj[t]] IN
    /\ MayWait(t)
    /\ op[t] = "wait_for"
    /\ Release(l, shared[l])
    /\ queue' = QueueReleased(l)
    /\ blocked' = blocked \ Woken(l)
    /\ timedOut' = timedOut \ Woken(l)
    /\ Relock(t)
    /\ UNCHANGED <<tokenVars, scheduled, timed, failVars, deadlocked, switchCount>>
    /\ NotifyAll

\* Notified or timed out, the waiter goes on to lock() its mutex again
WaitWake(t) ==
    /\ WokenIn(t, {"wait", "wait_for"})
    /\ Relock(t)
    /\ timed' = timed \ {t}
    /\ timedOut' = timedOut \ {t}
    /\ UNCHANGED <<tokenVars, handVars, queue, blocked, failVars, deadlocked,
                   switchCount, lockVars>>

\* notify_one_condition and notify_all_condition
Notify(t) ==
    LET c == obj[t]
        k == <<"condition", c>>
        woken == IF op[t] = "notify_all" THEN ToSet(queue[k])
                 ELSE IF queue[k] = <<>> THEN {} ELSE {Head(queue[k])}
    IN
    /\ Called(t, {"notify_one", "notify_all"})
    /\ queue' = [queue EXCEPT ![k] =
                    IF op[t] = "notify_all" \/ queue[k] = <<>> THEN <<>> ELSE Tail(queue[k])]
    /\ blocked' = blocked \ woken
    /\ timedOut' = timedOut \ woken
    /\ Return(t, TRUE)
    /\ UNCHANGED <<tokenVars, scheduled, timed, failVars, deadlocked,
                   switchCount, lockVars>>
    /\ NotifyAll

-----------------------------------------------------------------------------
LockStep(t) ==
    \/ \E o \in Ops : \E x \in ObjectsOf(o) : Begin(t, o, x)
    \/ LockAcquire(t)
    \/ SharedAcquire(t)
    \/ TryRefused(t)
    \/ LockBlock(t)
    \/ LockWake(t)
    \/ TimedLockWake(t)
    \/ Unlock(t)
    \/ UnlockShared(t)
    \/ Misuse(t)
    \/ WaitBlock(t)
    \/ WaitExpired(t)
    \/ WaitWake(t)
    \/ Notify(t)

Step(t) == LockStep(t) \/ (CoreStep(t) /\ UNCHANGED lockVars)

Terminated == AllDone /\ UNCHANGED vars

Next ==
    \/ WaitUntilReady /\ UNCHANGED lockVars
    \/ \E t \in Threads : Step(t)
    \/ Terminated

Spec == Init /\ [][Next]_vars

\* The operating system runs every thread that can run
FairSpec ==
    /\ Spec
    /\ WF_vars(WaitUntilReady /\ UNCHANGED lockVars)
    /\ \A t \in Threads : WF_vars(Step(t))
-----------------------------------------------------------------------------
(* Types.                                                                  *)

\* The object of a call is of the kind its operation works on
CallOK(t) ==
    \/ op[t] = "none" /\ obj[t] = "none"
    \/ op[t] \in ConditionOps /\ obj[t] \in Conditions
    \/ op[t] \in LockOps \cup SharedOps \cup {"relock"} /\ obj[t] \in Locks

\* Type invariant of the scheduler's state and of the workers' calls
\* (CooperativeScheduler's data members)
TypeOK ==
    /\ CoreTypeOK
    /\ DOMAIN op = Threads
    /\ DOMAIN obj = Threads
    /\ \A t \in Threads : CallOK(t)
    /\ owner \in [Locks -> Threads \cup {NoThread}]
    /\ depth \in [Locks -> Nat]
    /\ shared \in [Locks -> [Threads -> Nat]]

-----------------------------------------------------------------------------
(* Safety.                                                                 *)

\* A lock has a writer or readers, never both, and a depth exactly when it
\* has a writer (LockState)
LockExclusion ==
    \A l \in Locks :
        /\ owner[l] # NoThread => Readers(l) = {}
        /\ owner[l] # NoThread <=> depth[l] > 0

\* lock() and lock_shared() return only with the lock, the try and timed forms
\* return true only with it and false only without it: hand-over, timeout and
\* wake-up agree.  A deadlock that exceptions_as_results swallows leaves threads
\* queued that run on, so that one may be handed a lock it was refused
GrantedMeansHeld ==
    \A t \in Threads : pc[t] \in {"after", "afterWait"} =>
        /\ op[t] \in {"lock", "relock"} => Holds(t, obj[t])
        /\ op[t] = "lock_shared" => HoldsShared(t, obj[t])
        /\ op[t] \in {"try_lock", "try_lock_for"} =>
                IF granted[t] THEN Holds(t, obj[t])
                ELSE ~deadlocked => ~Holds(t, obj[t])
        /\ op[t] \in {"try_lock_shared", "try_lock_shared_for"} =>
                IF granted[t] THEN HoldsShared(t, obj[t])
                ELSE ~deadlocked => ~HoldsShared(t, obj[t])

\* Nobody waits for a lock it could have: writers wait only while the lock is
\* held, readers only while a writer holds it (release_lock_locked,
\* release_shared_lock_locked, wake_shared_lock_waiters_locked)
NoLostWakeup ==
    \A l \in Locks :
        /\ LockQueue(l) # <<>> => owner[l] # NoThread \/ Readers(l) # {}
        /\ SharedQueue(l) # <<>> => owner[l] # NoThread

-----------------------------------------------------------------------------
(* What a step may never do.                                               *)

\* A deadlock is declared only when nobody can run and no timeout is pending
DeadlockIsReal ==
    [][~deadlocked /\ deadlocked' =>
            Active(finished, blocked)' = {} /\ Expirable(queue, timed, finished)' = {}]_vars

\* The scheduler's locks with their wait queues are fair reader-writer locks: nobody barges in,
\* a lock never rests beside somebody who may have it, and waiters leave by hand-over or timeout
\* only, whatever the token does meanwhile (acquire and release methods of CooperativeScheduler)
Fair == INSTANCE FairLocks WITH writers <- [l \in Locks |-> LockQueue(l)],
                                readers <- [l \in Locks |-> SharedQueue(l)]

ImplementsFairLocks == Fair!Spec

\* Once a worker has asked for the abort no operation takes effect any more:
\* the others are stopped before their next one, even where a swallowed
\* deadlock left several of them running (request_abort, check_abort_locked)
NoEffectAfterAbort ==
    [][abortRequested => UNCHANGED <<lockVars, queue, blocked>>]_vars

-----------------------------------------------------------------------------
(* Liveness.                                                               *)

\* Every run ends: all workers can be joined, whatever the object under test
\* does, by finishing, deadlock, livelock or abort
Termination == <>AllDone
=============================================================================
