------------------------ MODULE SchedulerLocksProofs ------------------------
(***************************************************************************)
(* Theorems about SchedulerLocks, for any number of threads, locks and     *)
(* condition variables and any switch budget: the locks, the token, the    *)
(* waits, what callers get, and that SchedulerLocks implements FairLocks.  *)
(***************************************************************************)
EXTENDS SchedulerLocks, SchedulerCoreProofs

-----------------------------------------------------------------------------
(* Releasing.                                                              *)

\* What a full release of lock l leaves, sh being its remaining readers
LEMMA ReleaseFacts ==
    ASSUME TypeOK, NEW l \in Locks, NEW sh \in [Threads -> Nat], Release(l, sh)
    PROVE  /\ owner' \in [Locks -> Threads \cup {NoThread}]
           /\ depth' \in [Locks -> Nat]
           /\ shared' \in [Locks -> [Threads -> Nat]]
           /\ QueueReleased(l) \in [Queues -> Seq(Threads)]
           /\ Woken(l) \subseteq Threads
<1>1. LockQueue(l) \in Seq(Threads) /\ SharedQueue(l) \in Seq(Threads)
  BY QueueNames DEF TypeOK, CoreTypeOK, LockQueue, SharedQueue
<1>2. HandsToWriter(l) => Head(LockQueue(l)) \in Threads /\ Tail(LockQueue(l)) \in Seq(Threads)
  BY <1>1 DEF HandsToWriter
<1>3. Woken(l) \subseteq Threads
  BY <1>1, <1>2, ToSetType DEF Woken
<1>4. QueueReleased(l) \in [Queues -> Seq(Threads)]
  BY <1>2, QueueNames DEF QueueReleased, TypeOK, CoreTypeOK
<1>5. /\ owner' \in [Locks -> Threads \cup {NoThread}]
      /\ depth' \in [Locks -> Nat]
  BY <1>2 DEF Release, NextOwner, TypeOK
<1>6. shared' \in [Locks -> [Threads -> Nat]]
  <2>1. [t \in Threads |-> IF t \in Woken(l) THEN sh[t] + 1 ELSE sh[t]] \in [Threads -> Nat]
    OBVIOUS
  <2>2. QED
    BY <2>1 DEF Release, NextOwner, TypeOK
<1>7. QED
  BY <1>3, <1>4, <1>5, <1>6

-----------------------------------------------------------------------------
(* Type correctness.                                                       *)

LEMMA InitType == Init => TypeOK
<1> SUFFICES ASSUME Init PROVE TypeOK
  OBVIOUS
<1>1. CoreTypeOK
  BY CoreInitType DEF Init
<1>2. QED
  BY <1>1 DEF Init, CoreInit, TypeOK, CallOK

LEMMA WaitUntilReadyType ==
    ASSUME TypeOK, WaitUntilReady, UNCHANGED lockVars
    PROVE  TypeOK'
<1>1. CoreTypeOK' /\ UNCHANGED callVars
  BY WaitUntilReadyCore DEF WaitUntilReady, TypeOK
<1>2. QED
  BY <1>1 DEF TypeOK, CallOK, callVars, lockVars

LEMMA CoreStepType ==
    ASSUME TypeOK, NEW t \in Threads, CoreStep(t), UNCHANGED lockVars
    PROVE  TypeOK'
<1>1. CoreTypeOK' /\ UNCHANGED callVars
  BY CoreStepCore DEF TypeOK
<1>2. QED
  BY <1>1 DEF TypeOK, CallOK, callVars, lockVars

LEMMA LockStepType ==
    ASSUME TypeOK, NEW t \in Threads, LockStep(t)
    PROVE  TypeOK'
<1> USE DEF Goto, NotifyAll, tokenVars, handVars, waitVars, callVars, failVars,
            lockVars
<1>0. Sleepers' \subseteq Threads \cup {Main}
  BY DEF Sleepers
<1>1. CASE \E o \in Ops : \E x \in ObjectsOf(o) : Begin(t, o, x)
  <2>0. PICK o \in Ops : \E x \in ObjectsOf(o) : Begin(t, o, x)
    BY <1>1
  <2>1. PICK x \in ObjectsOf(o) : Begin(t, o, x)
    BY <2>0
  <2>2. \/ o \in ConditionOps /\ x \in Conditions
        \/ o \in LockOps \cup SharedOps /\ x \in Locks
    BY OpsAssumption DEF ObjectsOf
  <2>3. \A u \in Threads : CallOK(u)'
    BY <2>1, <2>2 DEF Begin, TypeOK, CallOK
  <2>4. CoreTypeOK'
    BY <2>1 DEF Begin, TypeOK, CoreTypeOK, Locations
  <2>5. QED
    BY <2>1, <2>3, <2>4 DEF Begin, TypeOK
<1>2. CASE LockAcquire(t)
  <2>1. obj[t] \in Locks
    BY <1>2 DEF LockAcquire, Called, TypeOK, CallOK, ConditionOps
  <2>2. QED
    BY <1>2, <2>1 DEF LockAcquire, Return, TypeOK, CoreTypeOK, CallOK, Locations
<1>3. CASE SharedAcquire(t)
  <2>1. obj[t] \in Locks
    BY <1>3 DEF SharedAcquire, Called, TypeOK, CallOK, ConditionOps
  <2>2. shared' \in [Locks -> [Threads -> Nat]]
    BY <1>3, <2>1 DEF SharedAcquire, TypeOK
  <2>3. QED
    BY <1>3, <2>2 DEF SharedAcquire, Return, TypeOK, CoreTypeOK, CallOK, Locations
<1>4. CASE TryRefused(t)
  BY <1>4 DEF TryRefused, Return, TypeOK, CoreTypeOK, CallOK, Locations
<1>5. CASE LockBlock(t)
  <2>1. obj[t] \in Locks
    BY <1>5 DEF LockBlock, Called, TypeOK, CallOK, ConditionOps
  <2>2. PICK k \in {<<"lock", obj[t]>>, <<"shared", obj[t]>>}, timedOp \in BOOLEAN :
            Block(t, k, queue, blocked, timedOut, timedOp)
    BY <1>5 DEF LockBlock
  <2>3. k \in Queues
    BY <2>1, QueueNames
  <2>4. CoreTypeOK'
    <3>1. blocked \in SUBSET Threads /\ timedOut \in SUBSET Threads
          /\ queue \in [Queues -> Seq(Threads)] /\ CoreTypeOK
      BY DEF TypeOK, CoreTypeOK
    <3>2. UNCHANGED callVars
      BY <1>5 DEF LockBlock
    <3>3. QED
      BY <2>2, <2>3, <3>1, <3>2, BlockFacts DEF callVars
  <2>5. QED
    BY <1>5, <2>4 DEF LockBlock, TypeOK, CallOK
<1>6. CASE LockWake(t)
  BY <1>6 DEF LockWake, TypeOK, CoreTypeOK, CallOK, Locations
<1>7. CASE TimedLockWake(t)
  BY <1>7 DEF TimedLockWake, Return, TypeOK, CoreTypeOK, CallOK, Locations
<1>8. CASE Unlock(t)
  <2>1. obj[t] \in Locks
    BY <1>8 DEF Unlock, Called, TypeOK, CallOK, ConditionOps
  <2>2. /\ owner' \in [Locks -> Threads \cup {NoThread}]
        /\ depth' \in [Locks -> Nat]
        /\ shared' \in [Locks -> [Threads -> Nat]]
        /\ queue' \in [Queues -> Seq(Threads)]
        /\ blocked' \subseteq Threads
        /\ timedOut' \subseteq Threads
    <3>1. CASE Release(obj[t], shared[obj[t]]) /\ depth[obj[t]] = 1
      <4>1. shared[obj[t]] \in [Threads -> Nat]
        BY <2>1 DEF TypeOK
      <4>2. /\ QueueReleased(obj[t]) \in [Queues -> Seq(Threads)]
            /\ owner' \in [Locks -> Threads \cup {NoThread}]
            /\ depth' \in [Locks -> Nat]
            /\ shared' \in [Locks -> [Threads -> Nat]]
        BY <3>1, <2>1, <4>1, ReleaseFacts
      <4>3. /\ queue' = QueueReleased(obj[t])
            /\ blocked' = blocked \ Woken(obj[t])
            /\ timedOut' = timedOut \ Woken(obj[t])
        BY <1>8, <3>1 DEF Unlock
      <4>4. QED
        BY <4>2, <4>3 DEF TypeOK, CoreTypeOK
    <3>2. CASE /\ depth[obj[t]] > 1
               /\ depth' = [depth EXCEPT ![obj[t]] = depth[obj[t]] - 1]
               /\ UNCHANGED <<owner, shared, queue, blocked, timedOut>>
      <4>1. depth[obj[t]] - 1 \in Nat
        BY <3>2, <2>1 DEF TypeOK
      <4>2. QED
        BY <3>2, <4>1 DEF TypeOK, CoreTypeOK
    <3>3. QED
      BY <1>8, <3>1, <3>2 DEF Unlock
  <2>3. QED
    BY <1>8, <1>0, <2>2 DEF Unlock, Return, TypeOK, CoreTypeOK, CallOK, Locations
<1>9. CASE UnlockShared(t)
  <2> DEFINE sh == [shared[obj[t]] EXCEPT ![t] = shared[obj[t]][t] - 1]
  <2>1. obj[t] \in Locks
    BY <1>9 DEF UnlockShared, Called, TypeOK, CallOK, ConditionOps
  <2>2. sh \in [Threads -> Nat]
    BY <1>9, <2>1 DEF UnlockShared, HoldsShared, TypeOK
  <2>3. /\ owner' \in [Locks -> Threads \cup {NoThread}]
        /\ depth' \in [Locks -> Nat]
        /\ shared' \in [Locks -> [Threads -> Nat]]
        /\ queue' \in [Queues -> Seq(Threads)]
        /\ blocked' \subseteq Threads
        /\ timedOut' \subseteq Threads
    <3>1. CASE Release(obj[t], sh) /\ \A u \in Threads : sh[u] = 0
      <4>1. /\ QueueReleased(obj[t]) \in [Queues -> Seq(Threads)]
            /\ owner' \in [Locks -> Threads \cup {NoThread}]
            /\ depth' \in [Locks -> Nat]
            /\ shared' \in [Locks -> [Threads -> Nat]]
        <5> HIDE DEF sh
        <5>1. QED
          BY <3>1, <2>1, <2>2, ReleaseFacts
      <4>2. QED
        BY <1>9, <3>1, <4>1 DEF UnlockShared, TypeOK, CoreTypeOK
    <3>2. CASE /\ shared' = [shared EXCEPT ![obj[t]] = sh]
               /\ UNCHANGED <<owner, depth, queue, blocked, timedOut>>
      BY <3>2, <2>1, <2>2 DEF TypeOK, CoreTypeOK
    <3>3. QED
      BY <1>9, <3>1, <3>2 DEF UnlockShared
  <2>4. QED
    BY <1>9, <1>0, <2>3 DEF UnlockShared, Return, TypeOK, CoreTypeOK, CallOK, Locations
<1>10. CASE Misuse(t)
  BY <1>10 DEF Misuse, Fail, TypeOK, CoreTypeOK, CallOK, Locations, Failures
<1>11. CASE WaitBlock(t)
  <2> DEFINE l == LockOf[obj[t]]
  <2>1. obj[t] \in Conditions /\ l \in Locks
    BY <1>11, LockOfAssumption
       DEF WaitBlock, MayWait, Called, TypeOK, CallOK, LockOps, SharedOps
  <2>2. Release(l, shared[l]) /\ shared[l] \in [Threads -> Nat]
    BY <1>11, <2>1 DEF WaitBlock, TypeOK
  <2>3. /\ QueueReleased(l) \in [Queues -> Seq(Threads)]
        /\ owner' \in [Locks -> Threads \cup {NoThread}]
        /\ depth' \in [Locks -> Nat]
        /\ shared' \in [Locks -> [Threads -> Nat]]
    <3> HIDE DEF l
    <3>1. QED
      BY <2>1, <2>2, ReleaseFacts
  <2>4. CoreTypeOK'
    <3>1. /\ Block(t, <<"condition", obj[t]>>, QueueReleased(l), blocked \ Woken(l),
                   timedOut \ Woken(l), op[t] = "wait_for")
          /\ UNCHANGED callVars
      BY <1>11 DEF WaitBlock
    <3>2. <<"condition", obj[t]>> \in Queues
      BY <2>1, QueueNames
    <3>3. /\ blocked \ Woken(l) \in SUBSET Threads
          /\ timedOut \ Woken(l) \in SUBSET Threads
          /\ CoreTypeOK
      BY DEF TypeOK, CoreTypeOK
    <3> HIDE DEF l
    <3>4. QED
      BY <2>3, <3>1, <3>2, <3>3, BlockFacts DEF callVars
  <2>5. QED
    BY <1>11, <2>3, <2>4 DEF WaitBlock, TypeOK, CallOK
<1>12. CASE WaitExpired(t)
  <2> DEFINE l == LockOf[obj[t]]
  <2>1. obj[t] \in Conditions /\ l \in Locks
    BY <1>12, LockOfAssumption
       DEF WaitExpired, MayWait, Called, TypeOK, CallOK, LockOps, SharedOps
  <2>2. Release(l, shared[l]) /\ shared[l] \in [Threads -> Nat]
    BY <1>12, <2>1 DEF WaitExpired, TypeOK
  <2>3. /\ QueueReleased(l) \in [Queues -> Seq(Threads)]
        /\ owner' \in [Locks -> Threads \cup {NoThread}]
        /\ depth' \in [Locks -> Nat]
        /\ shared' \in [Locks -> [Threads -> Nat]]
    <3> HIDE DEF l
    <3>1. QED
      BY <2>1, <2>2, ReleaseFacts
  <2>4. \A u \in Threads : CallOK(u)'
    BY <1>12, <2>1 DEF WaitExpired, Relock, TypeOK, CallOK
  <2>5. QED
    BY <1>12, <1>0, <2>3, <2>4 DEF WaitExpired, Relock, TypeOK, CoreTypeOK, Locations
<1>13. CASE WaitWake(t)
  <2>1. obj[t] \in Conditions /\ LockOf[obj[t]] \in Locks
    BY <1>13, LockOfAssumption
       DEF WaitWake, WokenIn, TypeOK, CallOK, LockOps, SharedOps
  <2>2. \A u \in Threads : CallOK(u)'
    BY <1>13, <2>1 DEF WaitWake, Relock, TypeOK, CallOK
  <2>3. QED
    BY <1>13, <2>2 DEF WaitWake, Relock, TypeOK, CoreTypeOK, Locations
<1>14. CASE Notify(t)
  <2> DEFINE k == <<"condition", obj[t]>>
  <2>1. k \in Queues
    BY <1>14, QueueNames DEF Notify, Called, TypeOK, CallOK, LockOps, SharedOps
  <2>2. queue[k] \in Seq(Threads)
    BY <2>1 DEF TypeOK, CoreTypeOK
  <2>3. queue' \in [Queues -> Seq(Threads)]
    BY <1>14, <2>1, <2>2 DEF Notify, TypeOK, CoreTypeOK
  <2>4. QED
    BY <1>14, <1>0, <2>3 DEF Notify, Return, TypeOK, CoreTypeOK, CallOK, Locations
<1>15. QED
  BY <1>1, <1>2, <1>3, <1>4, <1>5, <1>6, <1>7, <1>8, <1>9, <1>10, <1>11,
     <1>12, <1>13, <1>14 DEF LockStep

\* Every reachable state of the scheduler is well typed
THEOREM TypeCorrect == Spec => []TypeOK
<1>1. TypeOK /\ [Next]_vars => TypeOK'
  <2> SUFFICES ASSUME TypeOK, [Next]_vars PROVE TypeOK'
    OBVIOUS
  <2>1. CASE WaitUntilReady /\ UNCHANGED lockVars
    BY <2>1, WaitUntilReadyType
  <2>2. CASE \E t \in Threads : Step(t)
    BY <2>2, CoreStepType, LockStepType DEF Step
  <2>3. CASE UNCHANGED vars
    BY <2>3 DEF vars, coreVars, tokenVars, handVars, waitVars, callVars,
                failVars, lockVars, TypeOK, CoreTypeOK, CallOK
  <2>4. QED
    BY <2>1, <2>2, <2>3 DEF Next, Terminated
<1>2. QED
  BY InitType, <1>1, PTL DEF Spec

-----------------------------------------------------------------------------
(* Locks: exclusion, and no lost wake-up.  Each needs the other's help: a  *)
(* release wakes either the first writer or all readers, which loses       *)
(* nobody only because readers never queue while no writer holds the lock. *)

LockInv == TypeOK /\ LockExclusion /\ NoLostWakeup

\* A step that leaves the lock table alone and adds no lock waiter
LEMMA QuietStep ==
    ASSUME LockExclusion, NoLostWakeup, UNCHANGED lockVars,
           \A l \in Locks : /\ LockQueue(l)' # <<>> => LockQueue(l) # <<>>
                            /\ SharedQueue(l)' # <<>> => SharedQueue(l) # <<>>
    PROVE  LockExclusion' /\ NoLostWakeup'
BY DEF LockExclusion, NoLostWakeup, Readers, lockVars

\* The queues after a full release of l
LEMMA ReleasedQueues ==
    ASSUME TypeOK, NEW l \in Locks
    PROVE  /\ \A m \in Locks :
                /\ QueueReleased(l)[<<"lock", m>>] # <<>> => LockQueue(m) # <<>>
                /\ QueueReleased(l)[<<"shared", m>>] # <<>> => SharedQueue(m) # <<>>
           /\ ~HandsToWriter(l) => /\ QueueReleased(l)[<<"lock", l>>] = <<>>
                                   /\ QueueReleased(l)[<<"shared", l>>] = <<>>
           /\ HandsToWriter(l) => Head(LockQueue(l)) \in Threads
<1>1. /\ queue \in [Queues -> Seq(Threads)]
      /\ \A m \in Locks : LockQueue(m) \in Seq(Threads)
  BY QueueNames DEF TypeOK, CoreTypeOK, LockQueue
<1>2. \A m \in Locks : /\ <<"lock", m>> # <<"shared", l>>
                       /\ <<"shared", m>> # <<"lock", l>>
                       /\ <<"lock", m>> = <<"lock", l>> => m = l
                       /\ <<"shared", m>> = <<"shared", l>> => m = l
  OBVIOUS
<1>3. CASE HandsToWriter(l)
  <2>1. QueueReleased(l) = [queue EXCEPT ![<<"lock", l>>] = Tail(LockQueue(l))]
    BY <1>3 DEF QueueReleased
  <2>2. LockQueue(l) # <<>> /\ Head(LockQueue(l)) \in Threads
    BY <1>1, <1>3 DEF HandsToWriter
  <2>3. \A m \in Locks : /\ QueueReleased(l)[<<"shared", m>>] = SharedQueue(m)
                         /\ m # l => QueueReleased(l)[<<"lock", m>>] = LockQueue(m)
    BY <2>1, <1>1, <1>2, QueueNames DEF SharedQueue, LockQueue
  <2>4. QED
    BY <1>3, <2>2, <2>3
<1>4. CASE ~HandsToWriter(l)
  <2>1. QueueReleased(l) = [queue EXCEPT ![<<"shared", l>>] = <<>>]
    BY <1>4 DEF QueueReleased
  <2>2. \A m \in Locks : /\ QueueReleased(l)[<<"lock", m>>] = LockQueue(m)
                         /\ m # l => QueueReleased(l)[<<"shared", m>>] = SharedQueue(m)
    BY <2>1, <1>1, <1>2, QueueNames DEF SharedQueue, LockQueue
  <2>3. QueueReleased(l)[<<"shared", l>>] = <<>>
    BY <2>1, <1>1, QueueNames
  <2>4. LockQueue(l) = <<>>
    BY <1>4 DEF HandsToWriter
  <2>5. QED
    BY <1>4, <2>2, <2>3, <2>4
<1>5. QED
  BY <1>3, <1>4

\* A release of l for good, with no reader left
LEMMA ReleaseStep ==
    ASSUME LockInv, NEW l \in Locks, NEW sh \in [Threads -> Nat], Release(l, sh),
           \A u \in Threads : sh[u] = 0,
           \A m \in Locks :
              /\ LockQueue(m)' # <<>> => QueueReleased(l)[<<"lock", m>>] # <<>>
              /\ SharedQueue(m)' # <<>> => QueueReleased(l)[<<"shared", m>>] # <<>>
    PROVE  LockExclusion' /\ NoLostWakeup'
<1>1. \A m \in Locks \ {l} : owner'[m] = owner[m] /\ depth'[m] = depth[m] /\ shared'[m] = shared[m]
  BY DEF LockInv, Release, TypeOK
<1>2. /\ \A m \in Locks : /\ LockQueue(m)' # <<>> => LockQueue(m) # <<>>
                          /\ SharedQueue(m)' # <<>> => SharedQueue(m) # <<>>
      /\ ~HandsToWriter(l) => LockQueue(l)' = <<>> /\ SharedQueue(l)' = <<>>
      /\ HandsToWriter(l) => Head(LockQueue(l)) \in Threads
  BY ReleasedQueues DEF LockInv
<1>3. CASE HandsToWriter(l)
  <2>1. /\ owner'[l] = Head(LockQueue(l)) /\ depth'[l] = 1 /\ shared'[l] = sh
    BY <1>3 DEF Release, NextOwner, LockInv, TypeOK
  <2>2. owner'[l] # NoThread
    BY <2>1, <1>2, <1>3, NAssumption DEF Threads, NoThread
  <2>3. Readers(l)' = {}
    BY <2>1 DEF Readers
  <2>4. LockExclusion'
    BY <1>1, <2>1, <2>2, <2>3 DEF LockInv, LockExclusion, Readers
  <2>5. NoLostWakeup'
    BY <1>1, <1>2, <2>2 DEF LockInv, NoLostWakeup, Readers
  <2>6. QED
    BY <2>4, <2>5
<1>4. CASE ~HandsToWriter(l)
  <2>1. owner'[l] = NoThread /\ depth'[l] = 0
    BY <1>4 DEF Release, NextOwner, LockInv, TypeOK
  <2>2. LockExclusion'
    BY <1>1, <2>1 DEF LockInv, LockExclusion, Readers
  <2>3. NoLostWakeup'
    BY <1>1, <1>2, <1>4 DEF LockInv, NoLostWakeup, Readers
  <2>4. QED
    BY <2>2, <2>3
<1>5. QED
  BY <1>3, <1>4

\* A step of the workers' token machinery
LEMMA CoreStepLocks ==
    ASSUME LockInv, NEW t \in Threads, CoreStep(t), UNCHANGED lockVars
    PROVE  LockExclusion' /\ NoLostWakeup'
<1>1. \A k \in Queues : queue'[k] # <<>> => queue[k] # <<>>
  <2>1. CASE FinishThread(t)
    <3>1. CASE HandOff(t, finished', blocked, queue, timed, timedOut)
      BY <3>1, HandOffFacts DEF LockInv, TypeOK, CoreTypeOK
    <3>2. CASE UNCHANGED queue
      BY <3>2
    <3>3. QED
      BY <2>1, <3>1, <3>2 DEF FinishThread
  <2>2. CASE ~FinishThread(t)
    BY <2>2 DEF CoreStep, WorkerReady, ReadyWake, SwitchStay, SwitchTo, SwitchLivelock,
                SwitchWake, CallInterrupted, UserReturn, UserThrow, SwallowException,
                RecordFailure, RequestAbort, BlockedInterrupted, waitVars
  <2>3. QED
    BY <2>1, <2>2
<1>2. QED
  BY <1>1, QueueNames, QuietStep DEF LockInv, LockQueue, SharedQueue

\* A step of a lock or condition method
LEMMA LockStepLocks ==
    ASSUME LockInv, NEW t \in Threads, LockStep(t)
    PROVE  LockExclusion' /\ NoLostWakeup'
<1> USE DEF LockInv
<1>0. ASSUME UNCHANGED queue, UNCHANGED lockVars
      PROVE  LockExclusion' /\ NoLostWakeup'
  BY <1>0, QuietStep DEF LockQueue, SharedQueue
<1>1. CASE \E o \in Ops : \E x \in ObjectsOf(o) : Begin(t, o, x)
  BY <1>0, <1>1 DEF Begin, waitVars
<1>2. CASE LockAcquire(t)
  <2>1. PICK l \in Locks : l = obj[t]
    BY <1>2 DEF LockAcquire, Called, TypeOK, CallOK, ConditionOps
  <2>2. /\ owner' = [owner EXCEPT ![l] = t] /\ depth' = [depth EXCEPT ![l] = depth[l] + 1]
        /\ UNCHANGED <<shared, queue>>
    BY <1>2, <2>1 DEF LockAcquire, waitVars
  <2>3. Readers(l) = {}
    <3>1. owner[l] = t \/ Readers(l) = {}
      BY <1>2, <2>1 DEF LockAcquire, MayLock
    <3>2. t # NoThread
      BY NAssumption DEF Threads, NoThread
    <3>3. QED
      BY <2>1, <3>1, <3>2 DEF LockExclusion
  <2>4. owner'[l] # NoThread /\ depth'[l] > 0 /\ Readers(l)' = {}
    BY <2>1, <2>2, <2>3, NAssumption DEF TypeOK, Threads, NoThread, Readers
  <2>5. \A m \in Locks \ {l} : owner'[m] = owner[m] /\ depth'[m] = depth[m] /\ shared'[m] = shared[m]
    BY <2>2 DEF TypeOK
  <2>6. LockExclusion'
    BY <2>4, <2>5 DEF LockExclusion, Readers
  <2>7. NoLostWakeup'
    BY <2>2, <2>4, <2>5 DEF NoLostWakeup, Readers, LockQueue, SharedQueue
  <2>8. QED
    BY <2>6, <2>7
<1>3. CASE SharedAcquire(t)
  <2>1. PICK l \in Locks : l = obj[t]
    BY <1>3 DEF SharedAcquire, Called, TypeOK, CallOK, ConditionOps
  <2>2. /\ owner[l] = NoThread
        /\ shared' = [shared EXCEPT ![l][t] = shared[l][t] + 1]
        /\ UNCHANGED <<owner, depth, queue>>
    BY <1>3, <2>1 DEF SharedAcquire, MayLockShared, waitVars
  <2>3. /\ \A m \in Locks \ {l} : shared'[m] = shared[m]
        /\ shared'[l] = [shared[l] EXCEPT ![t] = shared[l][t] + 1]
    BY <2>1, <2>2 DEF TypeOK
  <2>4. shared[l] \in [Threads -> Nat]
    BY <2>1 DEF TypeOK
  <2>5. t \in Readers(l)'
    BY <2>3, <2>4 DEF Readers
  <2>6. \A m \in Locks \ {l} : Readers(m)' = Readers(m)
    BY <2>3 DEF Readers
  <2>7. LockExclusion'
    BY <2>2, <2>6 DEF LockExclusion
  <2>8. NoLostWakeup'
    BY <2>2, <2>5, <2>6 DEF NoLostWakeup, LockQueue, SharedQueue
  <2>9. QED
    BY <2>7, <2>8
<1>4. CASE TryRefused(t)
  BY <1>0, <1>4 DEF TryRefused, waitVars
<1>5. CASE LockBlock(t)
  <2>1. obj[t] \in Locks
    BY <1>5 DEF LockBlock, Called, TypeOK, CallOK, ConditionOps
  <2>2. UNCHANGED callVars /\ UNCHANGED lockVars
    BY <1>5 DEF LockBlock
  <2>3. /\ blocked \in SUBSET Threads /\ timedOut \in SUBSET Threads
        /\ queue \in [Queues -> Seq(Threads)] /\ CoreTypeOK
    BY DEF TypeOK, CoreTypeOK
  <2>4. CASE /\ ~MayLock(t, obj[t])
             /\ \E b \in BOOLEAN : Block(t, <<"lock", obj[t]>>, queue, blocked, timedOut, b)
    <3>1. \A j \in Queues \ {<<"lock", obj[t]>>} : queue'[j] # <<>> => queue[j] # <<>>
      BY <2>1, <2>2, <2>3, <2>4, QueueNames, BlockFacts DEF callVars
    <3>2. owner[obj[t]] # NoThread \/ Readers(obj[t]) # {}
      BY <2>4 DEF MayLock
    <3>3. \A m \in Locks : /\ m # obj[t] => <<"lock", m>> # <<"lock", obj[t]>>
                           /\ <<"shared", m>> # <<"lock", obj[t]>>
      OBVIOUS
    <3>4. /\ \A m \in Locks : m # obj[t] => (LockQueue(m)' # <<>> => LockQueue(m) # <<>>)
          /\ \A m \in Locks : SharedQueue(m)' # <<>> => SharedQueue(m) # <<>>
      BY <3>1, <3>3, QueueNames DEF LockQueue, SharedQueue
    <3>5. QED
      BY <2>2, <3>2, <3>4 DEF LockExclusion, NoLostWakeup, Readers, lockVars
  <2>5. CASE /\ ~MayLockShared(obj[t])
             /\ \E b \in BOOLEAN : Block(t, <<"shared", obj[t]>>, queue, blocked, timedOut, b)
    <3>1. \A j \in Queues \ {<<"shared", obj[t]>>} : queue'[j] # <<>> => queue[j] # <<>>
      BY <2>1, <2>2, <2>3, <2>5, QueueNames, BlockFacts DEF callVars
    <3>2. owner[obj[t]] # NoThread
      BY <2>5 DEF MayLockShared
    <3>3. \A m \in Locks : /\ m # obj[t] => <<"shared", m>> # <<"shared", obj[t]>>
                           /\ <<"lock", m>> # <<"shared", obj[t]>>
      OBVIOUS
    <3>4. /\ \A m \in Locks : m # obj[t] => (SharedQueue(m)' # <<>> => SharedQueue(m) # <<>>)
          /\ \A m \in Locks : LockQueue(m)' # <<>> => LockQueue(m) # <<>>
      BY <3>1, <3>3, QueueNames DEF LockQueue, SharedQueue
    <3>5. QED
      BY <2>2, <3>2, <3>4 DEF LockExclusion, NoLostWakeup, Readers, lockVars
  <2>6. QED
    BY <1>5, <2>4, <2>5 DEF LockBlock
<1>6. CASE LockWake(t)
  BY <1>0, <1>6 DEF LockWake, waitVars
<1>7. CASE TimedLockWake(t)
  BY <1>0, <1>7 DEF TimedLockWake
<1>8. CASE Unlock(t)
  <2>0. PICK l \in Locks : l = obj[t]
    BY <1>8 DEF Unlock, Called, TypeOK, CallOK, ConditionOps
  <2>1. owner[l] = t
    BY <1>8, <2>0 DEF Unlock
  <2>2. Readers(l) = {}
    BY <2>1, NAssumption DEF LockExclusion, Threads, NoThread
  <2>3. CASE depth[l] > 1
    <3>1. depth' = [depth EXCEPT ![l] = depth[l] - 1] /\ UNCHANGED <<owner, shared, queue>>
      BY <1>8, <2>0, <2>3 DEF Unlock
    <3>2. depth'[l] > 0 /\ \A m \in Locks \ {l} : depth'[m] = depth[m]
      BY <2>1, <2>3, <3>1 DEF TypeOK
    <3>3. owner[l] # NoThread
      BY <2>1, NAssumption DEF Threads, NoThread
    <3>4. QED
      BY <3>1, <3>2, <3>3 DEF LockExclusion, NoLostWakeup, Readers, LockQueue, SharedQueue
  <2>4. CASE depth[l] = 1
    <3>1. Release(l, shared[l]) /\ queue' = QueueReleased(l)
      BY <1>8, <2>0, <2>4 DEF Unlock
    <3>2. shared[l] \in [Threads -> Nat]
      BY <2>1 DEF TypeOK
    <3>3. \A u \in Threads : shared[l][u] = 0
      BY <2>2, <3>2 DEF Readers
    <3>4. QED
      BY <2>1, <3>1, <3>2, <3>3, ReleaseStep DEF LockQueue, SharedQueue
  <2>5. QED
    BY <1>8, <2>0, <2>3, <2>4 DEF Unlock
<1>9. CASE UnlockShared(t)
  <2>0. PICK l \in Locks : l = obj[t]
    BY <1>9 DEF UnlockShared, Called, TypeOK, CallOK, ConditionOps
  <2>1. shared[l] \in [Threads -> Nat] /\ shared[l][t] > 0
    BY <1>9, <2>0 DEF UnlockShared, HoldsShared, TypeOK
  <2>2. PICK sh \in [Threads -> Nat] : sh = [shared[l] EXCEPT ![t] = shared[l][t] - 1]
    <3>1. shared[l][t] - 1 \in Nat
      BY <2>1
    <3>2. [shared[l] EXCEPT ![t] = shared[l][t] - 1] \in [Threads -> Nat]
      BY <2>1, <3>1
    <3>3. QED
      BY <3>2
  <2>3. owner[l] = NoThread
    <3>1. t \in Readers(l)
      BY <2>1 DEF Readers
    <3>2. QED
      BY <3>1 DEF LockExclusion
  <2>4. CASE \E u \in Threads : sh[u] > 0
    <3>1. shared' = [shared EXCEPT ![l] = sh] /\ UNCHANGED <<owner, depth, queue>>
      BY <1>9, <2>0, <2>2, <2>3, <2>4 DEF UnlockShared
    <3>2. shared'[l] = sh /\ \A m \in Locks \ {l} : shared'[m] = shared[m]
      BY <2>1, <3>1 DEF TypeOK
    <3>3. Readers(l)' # {}
      BY <2>4, <3>2 DEF Readers
    <3>4. \A m \in Locks \ {l} : Readers(m)' = Readers(m)
      BY <3>2 DEF Readers
    <3>5. QED
      BY <2>3, <3>1, <3>3, <3>4 DEF LockExclusion, NoLostWakeup, LockQueue, SharedQueue
  <2>5. CASE \A u \in Threads : sh[u] = 0
    <3>1. Release(l, sh) /\ queue' = QueueReleased(l)
      BY <1>9, <2>0, <2>2, <2>3, <2>5 DEF UnlockShared
    <3>2. QED
      BY <2>1, <2>2, <2>5, <3>1, ReleaseStep DEF LockQueue, SharedQueue
  <2>6. \A u \in Threads : sh[u] \in Nat
    BY <2>2
  <2>7. (\E u \in Threads : sh[u] > 0) \/ (\A u \in Threads : sh[u] = 0)
    BY <2>6
  <2>8. QED
    BY <2>4, <2>5, <2>7
<1>10. CASE Misuse(t)
  BY <1>0, <1>10 DEF Misuse, waitVars
<1>11. CASE WaitBlock(t)
  <2> DEFINE l == LockOf[obj[t]]
             k == <<"condition", obj[t]>>
  <2>1. obj[t] \in Conditions /\ l \in Locks
    BY <1>11, LockOfAssumption
       DEF WaitBlock, MayWait, Called, TypeOK, CallOK, LockOps, SharedOps
  <2>2. owner[l] = t /\ Release(l, shared[l]) /\ shared[l] \in [Threads -> Nat]
    BY <1>11, <2>1 DEF WaitBlock, MayWait, Holds, TypeOK
  <2>3. \A u \in Threads : shared[l][u] = 0
    BY <2>1, <2>2, NAssumption DEF LockExclusion, Readers, Threads, NoThread
  <2>4. /\ Block(t, k, QueueReleased(l), blocked \ Woken(l), timedOut \ Woken(l),
                 op[t] = "wait_for")
        /\ UNCHANGED callVars
    BY <1>11 DEF WaitBlock
  <2>5. /\ blocked \ Woken(l) \in SUBSET Threads
        /\ timedOut \ Woken(l) \in SUBSET Threads
        /\ CoreTypeOK /\ k \in Queues
    BY <2>1, QueueNames DEF TypeOK, CoreTypeOK
  <2>6. QueueReleased(l) \in [Queues -> Seq(Threads)]
    <3> HIDE DEF l
    <3>1. QED
      BY <2>1, <2>2, ReleaseFacts
  <2>7. \A j \in Queues \ {k} : queue'[j] # <<>> => QueueReleased(l)[j] # <<>>
    <3> HIDE DEF l, k
    <3>1. QED
      BY <2>4, <2>5, <2>6, BlockFacts DEF callVars
  <2>8. \A m \in Locks : /\ <<"lock", m>> \in Queues \ {k}
                         /\ <<"shared", m>> \in Queues \ {k}
    BY QueueNames
  <2> HIDE DEF l, k
  <2>9. QED
    BY <2>1, <2>2, <2>3, <2>7, <2>8, ReleaseStep DEF LockQueue, SharedQueue
<1>12. CASE WaitExpired(t)
  <2> DEFINE l == LockOf[obj[t]]
  <2>1. obj[t] \in Conditions /\ l \in Locks
    BY <1>12, LockOfAssumption
       DEF WaitExpired, MayWait, Called, TypeOK, CallOK, LockOps, SharedOps
  <2>2. /\ owner[l] = t /\ Release(l, shared[l]) /\ shared[l] \in [Threads -> Nat]
        /\ queue' = QueueReleased(l)
    BY <1>12, <2>1 DEF WaitExpired, MayWait, Holds, TypeOK
  <2>3. \A u \in Threads : shared[l][u] = 0
    BY <2>1, <2>2, NAssumption DEF LockExclusion, Readers, Threads, NoThread
  <2> HIDE DEF l
  <2>4. QED
    BY <2>1, <2>2, <2>3, ReleaseStep DEF LockQueue, SharedQueue
<1>13. CASE WaitWake(t)
  BY <1>0, <1>13 DEF WaitWake
<1>14. CASE Notify(t)
  <2> DEFINE k == <<"condition", obj[t]>>
  <2>1. \E s : queue' = [queue EXCEPT ![k] = s]
    BY <1>14 DEF Notify
  <2>2. UNCHANGED lockVars /\ queue \in [Queues -> Seq(Threads)]
    BY <1>14 DEF Notify, TypeOK, CoreTypeOK
  <2>3. \A m \in Locks : <<"lock", m>> # k /\ <<"shared", m>> # k
    OBVIOUS
  <2>4. \A m \in Locks : queue'[<<"lock", m>>] = queue[<<"lock", m>>]
                         /\ queue'[<<"shared", m>>] = queue[<<"shared", m>>]
    BY <2>1, <2>2, <2>3, QueueNames
  <2>5. QED
    BY <2>2, <2>4, QuietStep DEF LockQueue, SharedQueue
<1>15. QED
  BY <1>1, <1>2, <1>3, <1>4, <1>5, <1>6, <1>7, <1>8, <1>9, <1>10, <1>11,
     <1>12, <1>13, <1>14 DEF LockStep

LEMMA LockInvHolds == Spec => []LockInv
<1>1. Init => LockInv
  <2> SUFFICES ASSUME Init PROVE LockExclusion /\ NoLostWakeup
    BY InitType DEF LockInv
  <2>1. \A l \in Locks : Readers(l) = {} /\ owner[l] = NoThread /\ depth[l] = 0
    BY DEF Init, Readers
  <2>2. \A l \in Locks : LockQueue(l) = <<>> /\ SharedQueue(l) = <<>>
    BY QueueNames DEF Init, CoreInit, LockQueue, SharedQueue
  <2>3. QED
    BY <2>1, <2>2 DEF LockExclusion, NoLostWakeup
<1>2. LockInv /\ [Next]_vars => LockInv'
  <2> SUFFICES ASSUME LockInv, [Next]_vars PROVE LockInv'
    OBVIOUS
  <2>1. CASE WaitUntilReady /\ UNCHANGED lockVars
    <3>1. TypeOK'
      BY <2>1, WaitUntilReadyType DEF LockInv
    <3>2. UNCHANGED queue
      BY <2>1 DEF WaitUntilReady, waitVars
    <3>3. QED
      BY <2>1, <3>1, <3>2, QuietStep DEF LockInv, LockQueue, SharedQueue
  <2>2. CASE \E t \in Threads : Step(t)
    BY <2>2, CoreStepType, LockStepType, CoreStepLocks, LockStepLocks DEF Step, LockInv
  <2>3. CASE UNCHANGED vars
    BY <2>3 DEF vars, coreVars, tokenVars, handVars, waitVars, callVars,
                failVars, lockVars, LockInv, TypeOK, CoreTypeOK, CallOK,
                LockExclusion, NoLostWakeup, LockQueue, SharedQueue, Readers
  <2>4. QED
    BY <2>1, <2>2, <2>3 DEF Next, Terminated
<1>3. QED
  BY <1>1, <1>2, PTL DEF Spec

\* A lock never has a writer together with readers
THEOREM LocksExclude == Spec => []LockExclusion
BY LockInvHolds, PTL DEF LockInv

\* No waiter is left in the queue of a lock that it could have
THEOREM NoWakeupLost == Spec => []NoLostWakeup
BY LockInvHolds, PTL DEF LockInv

-----------------------------------------------------------------------------
(* Who may run: the token is exclusive and is never lost, an abort arrives.*)

LEMMA LockStepToken ==
    ASSUME TypeOK, TokenInv, CoreTypeOK', NEW t \in Threads, LockStep(t)
    PROVE  TokenInv'
<1>1. CASE LockBlock(t)
  <2>1. pc[t] = "call" /\ ~deadlocked /\ obj[t] \in Locks
    BY <1>1 DEF LockBlock, Called, DeadlockChecked, TypeOK, CallOK, ConditionOps
  <2>2. \E k \in {<<"lock", obj[t]>>, <<"shared", obj[t]>>}, b \in BOOLEAN :
            Block(t, k, queue, blocked, timedOut, b)
    BY <1>1 DEF LockBlock
  <2>3. QED
    BY <2>1, <2>2, QueueNames, BlockToken
<1>2. CASE WaitBlock(t)
  <2>1. pc[t] = "call" /\ ~deadlocked /\ obj[t] \in Conditions
    BY <1>2 DEF WaitBlock, MayWait, Called, DeadlockChecked, TypeOK, CallOK,
                LockOps, SharedOps
  <2>2. \E q, b, to, w : Block(t, <<"condition", obj[t]>>, q, b, to, w)
    BY <1>2 DEF WaitBlock
  <2>3. QED
    BY <2>1, <2>2, QueueNames, BlockToken
<1>3. CASE ~LockBlock(t) /\ ~WaitBlock(t)
  <2>1. \E l \in Locations \ {"finishing", "done"} : Goto(t, l)
    BY <1>3 DEF LockStep, Begin, LockAcquire, SharedAcquire, TryRefused, LockWake,
                TimedLockWake, Unlock, UnlockShared, Misuse, WaitExpired, WaitWake,
                Notify, Return, Relock, Fail, Locations
  <2>2. UNCHANGED <<tokenVars, scheduled, deadlocked>>
    BY <1>3 DEF LockStep, Begin, LockAcquire, SharedAcquire, TryRefused, LockWake,
                TimedLockWake, Unlock, UnlockShared, Misuse, WaitExpired, WaitWake,
                Notify, tokenVars, handVars
  <2>3. /\ pc[t] \in {"user", "call", "blocked"}
        /\ pc[t] = "blocked" => Awake(t) /\ t \notin aborted
    BY <1>3 DEF LockStep, Begin, LockAcquire, SharedAcquire, TryRefused, LockWake,
                TimedLockWake, Unlock, UnlockShared, Misuse, WaitExpired, WaitWake,
                Notify, MayWait, Called, WokenIn
  <2>4. QED
    BY <2>1, <2>2, <2>3, KeepsToken
<1>4. QED
  BY <1>1, <1>2, <1>3

LEMMA LockStepAlive ==
    ASSUME TypeOK, AliveInv, TokenInv', NEW t \in Threads, LockStep(t)
    PROVE  AliveInv'
<1>0. /\ queue \in [Queues -> Seq(Threads)]
      /\ blocked \in SUBSET Threads /\ timedOut \in SUBSET Threads
  BY DEF TypeOK, CoreTypeOK
<1>1. CASE LockBlock(t)
  <2>1. obj[t] \in Locks
    BY <1>0, <1>1 DEF LockBlock, Called, TypeOK, CallOK, ConditionOps
  <2>2. \E k \in {<<"lock", obj[t]>>, <<"shared", obj[t]>>}, b \in BOOLEAN :
            Block(t, k, queue, blocked, timedOut, b)
    BY <1>1 DEF LockBlock
  <2>3. QED
    BY <1>0, <2>1, <2>2, QueueNames, AliveBlocks
<1>2. CASE WaitBlock(t)
  <2>1. PICK l \in Locks : l = LockOf[obj[t]]
    BY <1>0, <1>2, LockOfAssumption
       DEF WaitBlock, MayWait, Called, TypeOK, CallOK, LockOps, SharedOps
  <2>2. obj[t] \in Conditions /\ shared[l] \in [Threads -> Nat] /\ Release(l, shared[l])
    BY <1>0, <1>2, <2>1
       DEF WaitBlock, MayWait, Called, TypeOK, CallOK, LockOps, SharedOps
  <2>3. QueueReleased(l) \in [Queues -> Seq(Threads)]
    BY <1>0, <2>2, ReleaseFacts
  <2>4. Block(t, <<"condition", obj[t]>>, QueueReleased(l), blocked \ Woken(l),
              timedOut \ Woken(l), op[t] = "wait_for")
    BY <1>2, <2>1 DEF WaitBlock
  <2>5. /\ <<"condition", obj[t]>> \in Queues
        /\ blocked \ Woken(l) \in SUBSET Threads /\ timedOut \ Woken(l) \in SUBSET Threads
        /\ (op[t] = "wait_for") \in BOOLEAN
    BY <1>0, <2>2, QueueNames
  <2>6. QED
    BY <2>3, <2>4, <2>5, AliveBlocks
<1>3. CASE ~LockBlock(t) /\ ~WaitBlock(t)
  <2>1. /\ UNCHANGED <<ready, finished, aborted, started, abortRequested, scheduled, deadlocked>>
        /\ blocked' \subseteq blocked
    BY <1>3 DEF LockStep, Begin, LockAcquire, SharedAcquire, TryRefused, LockWake,
                TimedLockWake, Unlock, UnlockShared, Misuse, WaitExpired, WaitWake,
                Notify, tokenVars, handVars, waitVars
  <2>2. QED
    BY <2>1, AliveStays
<1>4. QED
  BY <1>1, <1>2, <1>3

LEMMA AliveInvHolds == Spec => [](TypeOK /\ AliveInv)
<1>1. Init => TypeOK /\ AliveInv
  BY InitType, AliveInit DEF Init
<1>2. TypeOK /\ AliveInv /\ [Next]_vars => (TypeOK /\ AliveInv)'
  <2> SUFFICES ASSUME TypeOK, AliveInv, [Next]_vars PROVE TypeOK' /\ AliveInv'
    OBVIOUS
  <2>1. CASE WaitUntilReady /\ UNCHANGED lockVars
    BY <2>1, WaitUntilReadyType, WaitUntilReadyAlive
  <2>2. CASE \E t \in Threads : Step(t)
    <3>1. PICK t \in Threads : Step(t)
      BY <2>2
    <3>2. TypeOK' /\ CoreTypeOK'
      BY <3>1, CoreStepType, LockStepType DEF Step, TypeOK
    <3>3. CASE CoreStep(t)
      BY <3>2, <3>3, CoreStepToken, CoreStepAlive DEF AliveInv
    <3>4. CASE LockStep(t)
      BY <3>2, <3>4, LockStepToken, LockStepAlive DEF AliveInv
    <3>5. QED
      BY <3>1, <3>3, <3>4 DEF Step
  <2>3. CASE UNCHANGED vars
    BY <2>3, AliveUnchanged DEF vars, TypeOK, CallOK, CoreTypeOK, coreVars, tokenVars,
                handVars, waitVars, callVars, failVars, lockVars
  <2>4. QED
    BY <2>1, <2>2, <2>3 DEF Next, Terminated
<1>3. QED
  BY <1>1, <1>2, PTL DEF Spec

\* Code of the object under test runs only in the thread that has the token,
\* until a deadlock is found
THEOREM OneThreadRuns == Spec => []TokenExclusive
BY AliveInvHolds, PTL DEF AliveInv, TokenInv

\* An abort leaves no worker behind
THEOREM AbortReachesAll == Spec => []AbortReachesPeers
BY AliveInvHolds, PTL DEF AliveInv, TokenInv

\* While a run is neither failing nor over, the token is with a thread that
\* can run
THEOREM TokenKept == Spec => []TokenNotLost
BY AliveInvHolds, PTL DEF AliveInv

-----------------------------------------------------------------------------
(* Waiting: the queues, notifications, deadlocks, aborts, what callers get.*)

\* A full release takes the threads that it wakes out of their queue
LEMMA ReleasedQueued ==
    ASSUME TypeOK, NEW l \in Locks, QueuedOnce(queue, blocked)
    PROVE  QueuedOnce(QueueReleased(l), blocked \ Woken(l))
<1>1. /\ queue \in [Queues -> Seq(Threads)]
      /\ <<"lock", l>> \in Queues /\ <<"shared", l>> \in Queues
  BY QueueNames DEF TypeOK, CoreTypeOK
<1>2. CASE HandsToWriter(l)
  BY <1>1, <1>2, TailQueued DEF HandsToWriter, QueueReleased, Woken, LockQueue
<1>3. CASE ~HandsToWriter(l)
  BY <1>1, <1>3, EmptyQueued DEF QueueReleased, Woken, SharedQueue
<1>4. QED
  BY <1>2, <1>3

LEMMA NotifiedQueued ==
    ASSUME TypeOK, WaitInv, NEW t \in Threads, Notify(t)
    PROVE  QueuedOnce(queue', blocked') /\ blocked' \subseteq blocked
<1> DEFINE k == <<"condition", obj[t]>>
<1>1. /\ queue \in [Queues -> Seq(Threads)] /\ QueuedOnce(queue, blocked) /\ k \in Queues
  BY QueueNames DEF Notify, Called, TypeOK, CoreTypeOK, CallOK, WaitInv, LockOps, SharedOps
<1>2. CASE op[t] = "notify_all"
  <2>1. queue' = [queue EXCEPT ![k] = <<>>] /\ blocked' = blocked \ ToSet(queue[k])
    BY <1>2 DEF Notify
  <2>2. QED
    BY <1>1, <2>1, EmptyQueued
<1>3. CASE op[t] # "notify_all" /\ queue[k] # <<>>
  <2>1. queue' = [queue EXCEPT ![k] = Tail(queue[k])] /\ blocked' = blocked \ {Head(queue[k])}
    BY <1>3 DEF Notify
  <2>2. QED
    BY <1>1, <1>3, <2>1, TailQueued
<1>4. CASE op[t] # "notify_all" /\ queue[k] = <<>>
  <2>1. queue' = queue /\ blocked' = blocked
    BY <1>1, <1>4 DEF Notify
  <2>2. QED
    BY <1>1, <2>1
<1>5. QED
  BY <1>2, <1>3, <1>4

LEMMA LockStepWait ==
    ASSUME TypeOK, WaitInv, AliveInv', NEW t \in Threads, LockStep(t)
    PROVE  WaitInv'
<1>0. /\ queue \in [Queues -> Seq(Threads)] /\ QueuedOnce(queue, blocked)
      /\ blocked \in SUBSET Threads /\ timedOut \in SUBSET Threads
      /\ (op[t] = "wait_for") \in BOOLEAN
  BY DEF TypeOK, CoreTypeOK, WaitInv
<1>1. CASE LockBlock(t)
  <2>1. /\ pc[t] = "call" /\ ~deadlocked /\ t \notin aborted /\ obj[t] \in Locks
    BY <1>1 DEF LockBlock, Called, DeadlockChecked, TypeOK, CallOK, ConditionOps
  <2>2. PICK k \in {<<"lock", obj[t]>>, <<"shared", obj[t]>>} : \E w \in BOOLEAN :
            Block(t, k, queue, blocked, timedOut, w)
    BY <1>1 DEF LockBlock
  <2>3. k \in Queues
    BY <2>1, QueueNames
  <2>4. QED
    BY <1>0, <2>1, <2>2, <2>3, BlockWait
<1>2. CASE WaitBlock(t)
  <2>1. /\ pc[t] = "call" /\ ~deadlocked /\ t \notin aborted
        /\ obj[t] \in Conditions /\ LockOf[obj[t]] \in Locks
    BY <1>2, LockOfAssumption DEF WaitBlock, MayWait, Called, DeadlockChecked, TypeOK, CallOK,
       LockOps, SharedOps
  <2>2. PICK l \in Locks : l = LockOf[obj[t]]
    BY <2>1
  <2>3. /\ Block(t, <<"condition", obj[t]>>, QueueReleased(l), blocked \ Woken(l),
                 timedOut \ Woken(l), op[t] = "wait_for")
        /\ Release(l, shared[l]) /\ shared[l] \in [Threads -> Nat]
    BY <1>2, <2>2 DEF WaitBlock, TypeOK
  <2>4. QueueReleased(l) \in [Queues -> Seq(Threads)]
    BY <2>3, ReleaseFacts
  <2>5. /\ <<"condition", obj[t]>> \in Queues
        /\ blocked \ Woken(l) \in SUBSET Threads /\ timedOut \ Woken(l) \in SUBSET Threads
        /\ blocked \ Woken(l) \subseteq blocked
    BY <1>0, <2>1, QueueNames
  <2>6. QueuedOnce(QueueReleased(l), blocked \ Woken(l))
    BY <1>0, ReleasedQueued
  <2>7. QED
    BY <1>0, <2>1, <2>3, <2>4, <2>5, <2>6, BlockWait
<1>3. CASE ~LockBlock(t) /\ ~WaitBlock(t)
  <2>1. /\ pc[t] \in {"user", "call", "blocked"}
        /\ pc[t] = "blocked" => Awake(t) /\ t \notin aborted
    BY <1>3 DEF LockStep, Begin, LockAcquire, SharedAcquire, TryRefused, LockWake,
                TimedLockWake, Unlock, UnlockShared, Misuse, WaitExpired, WaitWake,
                Notify, MayWait, Called, WokenIn
  <2>2. \E l : l \notin {"ready", "beforeWait", "afterWait", "blocked"} /\ Goto(t, l)
    BY <1>3 DEF LockStep, Begin, LockAcquire, SharedAcquire, TryRefused, LockWake,
                TimedLockWake, Unlock, UnlockShared, Misuse, WaitExpired, WaitWake,
                Notify, Return, Relock, Fail
  <2>3. UNCHANGED <<ready, started, abortRequested, deadlocked>>
    BY <1>3 DEF LockStep, Begin, LockAcquire, SharedAcquire, TryRefused, LockWake,
                TimedLockWake, Unlock, UnlockShared, Misuse, WaitExpired, WaitWake,
                Notify, tokenVars
  <2>4. NotifyAll \/ UNCHANGED <<handVars, blocked>>
    BY <1>3 DEF LockStep, Begin, LockAcquire, SharedAcquire, TryRefused, LockWake,
                TimedLockWake, Unlock, UnlockShared, Misuse, WaitExpired, WaitWake,
                Notify, waitVars
  <2>5. blocked' \subseteq blocked /\ QueuedOnce(queue', blocked')
    <3>1. CASE UNCHANGED <<queue, blocked>>
      BY <1>0, <3>1
    <3>2. CASE \E l \in Locks : queue' = QueueReleased(l) /\ blocked' = blocked \ Woken(l)
      BY <1>0, <3>2, ReleasedQueued
    <3>3. CASE Notify(t)
      BY <3>3, NotifiedQueued
    <3>4. ASSUME Unlock(t) \/ UnlockShared(t)
          PROVE  \/ UNCHANGED <<queue, blocked>>
                 \/ \E l \in Locks : queue' = QueueReleased(l) /\ blocked' = blocked \ Woken(l)
      <4>1. obj[t] \in Locks
        BY <3>4 DEF Unlock, UnlockShared, Called, TypeOK, CallOK, ConditionOps
      <4>2. QED
        BY <3>4, <4>1 DEF Unlock, UnlockShared
    <3>5. ASSUME WaitExpired(t)
          PROVE  \E l \in Locks : queue' = QueueReleased(l) /\ blocked' = blocked \ Woken(l)
      <4>1. LockOf[obj[t]] \in Locks
        BY <3>5, LockOfAssumption
           DEF WaitExpired, MayWait, Called, TypeOK, CallOK, LockOps, SharedOps
      <4>2. QED
        BY <3>5, <4>1 DEF WaitExpired
    <3>6. QED
      BY <1>3, <3>1, <3>2, <3>3, <3>4, <3>5
         DEF LockStep, Begin, LockAcquire, SharedAcquire, TryRefused, LockWake,
             TimedLockWake, Misuse, WaitWake, waitVars
  <2>6. QED
    BY <2>1, <2>2, <2>3, <2>4, <2>5, MethodWait
<1>4. QED
  BY <1>1, <1>2, <1>3

LEMMA WaitInvHolds == Spec => [](TypeOK /\ WaitInv)
<1>1. Init => TypeOK /\ WaitInv
  BY InitType, WaitInit DEF Init
<1>2. TypeOK /\ WaitInv /\ TypeOK' /\ AliveInv' /\ [Next]_vars => (TypeOK /\ WaitInv)'
  <2> SUFFICES ASSUME TypeOK, WaitInv, AliveInv', [Next]_vars PROVE WaitInv'
    OBVIOUS
  <2>1. CASE WaitUntilReady /\ UNCHANGED lockVars
    BY <2>1, WaitUntilReadyWait
  <2>2. CASE \E t \in Threads : Step(t)
    BY <2>2, CoreStepWait, LockStepWait DEF Step
  <2>3. CASE UNCHANGED vars
    BY <2>3, WaitUnchanged DEF vars
  <2>4. QED
    BY <2>1, <2>2, <2>3 DEF Next, Terminated
<1>3. QED
  BY <1>1, <1>2, AliveInvHolds, PTL DEF Spec

\* A thread is marked blocked exactly while it has a place in a wait queue, and
\* it has one place, through every hand-over, time-out and notification
THEOREM WaitersQueuedOnce == Spec => []QueuedOnceIffBlocked
<1>1. TypeOK /\ WaitInv => QueuedOnceIffBlocked
  BY QueuedOnceCounts DEF TypeOK, CoreTypeOK, WaitInv
<1>2. QED
  BY <1>1, WaitInvHolds, PTL

\* Every step that makes the predicate of a sleeping thread true notifies it
THEOREM NobodyOversleeps == Spec => []NoMissedNotify
BY WaitInvHolds, PTL DEF WaitInv

-----------------------------------------------------------------------------
(* What a step may never do.                                               *)

LEMMA StepStuck ==
    ASSUME TypeOK, WaitInv, [Next]_vars, ~deadlocked, deadlocked'
    PROVE  Stuck'
<1>1. ~(WaitUntilReady /\ UNCHANGED lockVars)
  BY DEF WaitUntilReady
<1>2. ~UNCHANGED vars
  BY DEF vars, coreVars
<1>3. PICK t \in Threads : Step(t)
  BY <1>1, <1>2 DEF Next, Terminated
<1>4. CASE CoreStep(t)
  BY <1>4, CoreStepStuck
<1>5. CASE LockStep(t)
  <2>1. LockBlock(t) \/ WaitBlock(t)
    BY <1>5 DEF LockStep, Begin, LockAcquire, SharedAcquire, TryRefused, LockWake,
                TimedLockWake, Unlock, UnlockShared, Misuse, WaitExpired, WaitWake, Notify
  <2>2. pc[t] = "call" /\ t \notin aborted
    BY <2>1 DEF LockBlock, WaitBlock, MayWait, Called
  <2>3. ~abortRequested
    BY <2>2, CallerNotBlocked DEF InControl, Running
  <2>4. \E k, q, b, to, w : Block(t, k, q, b, to, w)
    BY <2>1 DEF LockBlock, WaitBlock
  <2>5. QED
    BY <2>3, <2>4, BlockStuck
<1>6. QED
  BY <1>3, <1>4, <1>5 DEF Step

\* A deadlock is declared only when nobody can run and no time-out is pending
THEOREM DeadlocksAreReal == Spec => DeadlockIsReal
<1>1. TypeOK /\ WaitInv /\ [Next]_vars =>
        [~deadlocked /\ deadlocked' =>
            Active(finished, blocked)' = {} /\ Expirable(queue, timed, finished)' = {}]_vars
  BY StepStuck DEF Stuck
<1>2. QED
  BY <1>1, WaitInvHolds, PTL DEF Spec, DeadlockIsReal

LEMMA AbortStops ==
    ASSUME TypeOK, WaitInv, [Next]_vars, abortRequested
    PROVE  UNCHANGED <<lockVars, queue, blocked>>
<1>1. \A t \in Threads : t \in aborted \/ pc[t] \in {"finishing", "done"}
  BY DEF WaitInv, AliveInv, TokenInv, AbortReachesPeers
<1>2. CASE WaitUntilReady /\ UNCHANGED lockVars
  BY <1>2 DEF WaitUntilReady, waitVars
<1>3. CASE UNCHANGED vars
  BY <1>3 DEF vars, coreVars, waitVars
<1>4. ASSUME NEW t \in Threads, CoreStep(t), UNCHANGED lockVars
      PROVE  UNCHANGED <<lockVars, queue, blocked>>
  BY <1>4 DEF CoreStep, WorkerReady, ReadyWake, SwitchStay, SwitchTo, SwitchLivelock, SwitchWake,
         CallInterrupted, UserReturn, UserThrow, SwallowException, RecordFailure,
         RequestAbort, FinishThread, CanHandOff, BlockedInterrupted, waitVars
<1>5. ASSUME NEW t \in Threads, LockStep(t)
      PROVE  UNCHANGED <<lockVars, queue, blocked>>
  BY <1>1, <1>5 DEF LockStep, Begin, LockAcquire, SharedAcquire, TryRefused, LockBlock, LockWake,
                TimedLockWake, Unlock, UnlockShared, Misuse, WaitBlock, WaitExpired, WaitWake,
                Notify, MayWait, Called, WokenIn, waitVars
<1>6. QED
  BY <1>2, <1>3, <1>4, <1>5 DEF Next, Terminated, Step

\* Once a worker has asked for the abort no operation takes effect any more
THEOREM AbortEndsEffects == Spec => NoEffectAfterAbort
<1>1. TypeOK /\ WaitInv /\ [Next]_vars =>
        [abortRequested => UNCHANGED <<lockVars, queue, blocked>>]_vars
  BY AbortStops
<1>2. QED
  BY <1>1, WaitInvHolds, PTL DEF Spec, NoEffectAfterAbort

-----------------------------------------------------------------------------
(* What the callers of the lock operations may believe.                    *)

\* The queue that thread t waits in, by the operation it is in
QueueOf(t) ==
    IF op[t] \in {"lock", "relock", "try_lock_for"} THEN <<"lock", obj[t]>>
    ELSE IF op[t] \in {"lock_shared", "try_lock_shared_for"} THEN <<"shared", obj[t]>>
    ELSE <<"condition", obj[t]>>

\* A timed waiter has its lock exactly when it was neither timed out nor left
\* in its queue
TimedWait(t) ==
    /\ op[t] = "try_lock_for" =>
            (Holds(t, obj[t]) <=> t \notin blocked /\ t \notin timedOut)
    /\ op[t] = "try_lock_shared_for" =>
            (HoldsShared(t, obj[t]) <=> t \notin blocked /\ t \notin timedOut)

HeldInv ==
    /\ GrantedMeansHeld
    /\ ~deadlocked =>
        /\ \A k \in Queues : \A t \in ToSet(queue[k]) : k = QueueOf(t)
        /\ \A t \in Threads : pc[t] = "blocked" => TimedWait(t)

\* What GrantedMeansHeld says of thread t
GrantedOf(t) ==
    pc[t] \in {"after", "afterWait"} =>
        /\ op[t] \in {"lock", "relock"} => Holds(t, obj[t])
        /\ op[t] = "lock_shared" => HoldsShared(t, obj[t])
        /\ op[t] \in {"try_lock", "try_lock_for"} =>
                IF granted[t] THEN Holds(t, obj[t])
                ELSE ~deadlocked => ~Holds(t, obj[t])
        /\ op[t] \in {"try_lock_shared", "try_lock_shared_for"} =>
                IF granted[t] THEN HoldsShared(t, obj[t])
                ELSE ~deadlocked => ~HoldsShared(t, obj[t])

\* A step leaves thread u what it holds
Keeps(u) ==
    \A l \in Locks : /\ Holds(u, l) => Holds(u, l)'
                     /\ HoldsShared(u, l) => HoldsShared(u, l)'

\* ... and gives it nothing
GivenNothing(u) ==
    \A l \in Locks : /\ Holds(u, l)' <=> Holds(u, l)
                     /\ HoldsShared(u, l)' <=> HoldsShared(u, l)

\* ... or takes it from its queue with what it waits for
Handed(u) ==
    /\ u \in blocked /\ u \notin blocked' /\ u \notin timedOut'
    /\ op[u] = "try_lock_for" => Holds(u, obj[u])'
    /\ op[u] = "try_lock_shared_for" => HoldsShared(u, obj[u])'

\* What a step of thread t must respect of the others, and of t
LEMMA HeldStep ==
    ASSUME TypeOK, WaitInv, HeldInv, NEW t \in Threads,
           queue' \in [Queues -> Seq(Threads)],
           deadlocked => deadlocked',
           \A u \in Threads \ {t} :
              /\ pc'[u] = pc[u] /\ op'[u] = op[u] /\ obj'[u] = obj[u] /\ granted'[u] = granted[u]
              /\ Keeps(u)
              /\ ~deadlocked => (GivenNothing(u) /\ TimedOutOf(u, blocked, timedOut)) \/ Handed(u),
           ~deadlocked' => \A k \in Queues : \A u \in ToSet(queue'[k]) :
                \/ u \in ToSet(queue[k]) /\ (u = t => QueueOf(t)' = QueueOf(t))
                \/ u = t /\ k = QueueOf(t)',
           GrantedOf(t)',
           ~deadlocked' /\ pc'[t] = "blocked" => TimedWait(t)'
    PROVE  HeldInv'
<1>1. ASSUME NEW u \in Threads \ {t} PROVE GrantedOf(u)'
  <2>1. GrantedOf(u) /\ CallOK(u)
    BY DEF HeldInv, GrantedMeansHeld, GrantedOf, TypeOK
  <2>2. ASSUME pc[u] \in {"after", "afterWait"}, ~deadlocked PROVE GivenNothing(u)
    <3>1. u \notin blocked
      BY <2>2 DEF WaitInv, BlockedWait
    <3>2. QED
      BY <2>2, <3>1 DEF Handed
  <2>3. CASE pc[u] \in {"after", "afterWait"} /\ op[u] \in LockOps \cup SharedOps \cup {"relock"}
    <3>1. obj[u] \in Locks
      BY <2>1, <2>3 DEF CallOK, LockOps, SharedOps, ConditionOps
    <3>2. /\ Holds(u, obj[u]) => Holds(u, obj[u])'
          /\ HoldsShared(u, obj[u]) => HoldsShared(u, obj[u])'
          /\ ~deadlocked => (Holds(u, obj[u])' <=> Holds(u, obj[u]))
          /\ ~deadlocked => (HoldsShared(u, obj[u])' <=> HoldsShared(u, obj[u]))
      BY <2>2, <2>3, <3>1 DEF Keeps, GivenNothing, Holds, HoldsShared
    <3>3. QED
      BY <2>1, <2>3, <3>2 DEF GrantedOf, Holds, HoldsShared
  <2>4. QED
    BY <2>3 DEF GrantedOf, LockOps, SharedOps
<1>2. ASSUME ~deadlocked', NEW u \in Threads \ {t}, pc[u] = "blocked" PROVE TimedWait(u)'
  <2>1. TimedWait(u) /\ CallOK(u)
    BY <1>2 DEF HeldInv, TypeOK
  <2>2. CASE GivenNothing(u) /\ TimedOutOf(u, blocked, timedOut)
    <3>1. CASE op[u] = "try_lock_for"
      <4>1. obj[u] \in Locks
        BY <2>1, <3>1 DEF CallOK, ConditionOps
      <4>2. Holds(u, obj[u])' <=> Holds(u, obj[u])
        BY <2>2, <4>1 DEF GivenNothing, Holds
      <4>3. QED
        BY <2>1, <2>2, <3>1, <4>2 DEF TimedWait, TimedOutOf
    <3>2. CASE op[u] = "try_lock_shared_for"
      <4>1. obj[u] \in Locks
        BY <2>1, <3>2 DEF CallOK, ConditionOps
      <4>2. HoldsShared(u, obj[u])' <=> HoldsShared(u, obj[u])
        BY <2>2, <4>1 DEF GivenNothing, HoldsShared
      <4>3. QED
        BY <2>1, <2>2, <3>2, <4>2 DEF TimedWait, TimedOutOf
    <3>3. QED
      BY <3>1, <3>2 DEF TimedWait
  <2>3. CASE Handed(u)
    BY <2>3 DEF Handed, TimedWait
  <2>4. QED
    BY <1>2, <2>2, <2>3
<1>3. ASSUME ~deadlocked', NEW k \in Queues, NEW u \in ToSet(queue'[k]) PROVE k = QueueOf(u)'
  <2>1. u \in Threads
    BY ToSetType
  <2>2. CASE u \in ToSet(queue[k]) /\ (u = t => QueueOf(t)' = QueueOf(t))
    <3>1. k = QueueOf(u)
      BY <1>3, <2>2 DEF HeldInv
    <3>2. CASE u = t
      BY <2>2, <3>1, <3>2
    <3>3. CASE u # t
      BY <2>1, <3>1, <3>3 DEF QueueOf
    <3>4. QED
      BY <3>2, <3>3
  <2>3. QED
    BY <1>3, <2>2
<1>4. GrantedMeansHeld'
  BY <1>1 DEF GrantedMeansHeld, GrantedOf
<1>5. \A u \in Threads : ~deadlocked' /\ pc'[u] = "blocked" => TimedWait(u)'
  BY <1>2
<1>6. QED
  BY <1>3, <1>4, <1>5 DEF HeldInv

LEMMA CoreStepHeld ==
    ASSUME TypeOK, WaitInv, HeldInv, TypeOK', NEW t \in Threads, CoreStep(t), UNCHANGED lockVars
    PROVE  HeldInv'
<1>1. /\ pc \in [Threads -> Locations] /\ queue \in [Queues -> Seq(Threads)]
      /\ queue' \in [Queues -> Seq(Threads)]
      /\ blocked \in SUBSET Threads /\ timedOut \in SUBSET Threads
      /\ QueuedOnce(queue, blocked)
  BY DEF WaitInv, TypeOK, CoreTypeOK
<1>2. /\ \A u \in Threads \ {t} : pc'[u] = pc[u]
      /\ pc'[t] # "blocked"
      /\ pc'[t] \in {"after", "afterWait"} => pc[t] \in {"after", "afterWait"}
  BY <1>1 DEF CoreStep, WorkerReady, ReadyWake, SwitchStay, SwitchTo, SwitchLivelock, SwitchWake,
              CallInterrupted, UserReturn, UserThrow, SwallowException, RecordFailure,
              RequestAbort, FinishThread, BlockedInterrupted, ResumeAt, Fail, Goto,
              AtSwitchPoint, AfterSwitch
<1>3. UNCHANGED <<op, obj, granted>>
  BY CoreStepCore DEF callVars, TypeOK
<1>4. /\ \A k \in Queues : ToSet(queue'[k]) \subseteq ToSet(queue[k])
      /\ \A u \in Threads : TimedOutOf(u, blocked, timedOut)
  <2>1. CASE UNCHANGED <<queue, blocked, timedOut>>
    BY <2>1 DEF TimedOutOf
  <2>2. CASE \E f : HandOff(t, f, blocked, queue, timed, timedOut)
    BY <1>1, <2>2, HandOffQueued
  <2>3. QED
    BY <2>1, <2>2 DEF CoreStep, WorkerReady, ReadyWake, SwitchStay, SwitchTo, SwitchLivelock,
              SwitchWake, CallInterrupted, UserReturn, UserThrow, SwallowException, RecordFailure,
              RequestAbort, FinishThread, BlockedInterrupted, waitVars
<1>5. deadlocked => deadlocked'
  <2>1. CASE FinishThread(t)
    BY <2>1, Zenon DEF FinishThread
  <2>2. CASE ~FinishThread(t)
    BY <2>2 DEF CoreStep, WorkerReady, ReadyWake, SwitchStay, SwitchTo, SwitchLivelock, SwitchWake,
              CallInterrupted, UserReturn, UserThrow, SwallowException, RecordFailure,
              RequestAbort, BlockedInterrupted
  <2>3. QED
    BY <2>1, <2>2
<1>6. \A u \in Threads : Keeps(u) /\ GivenNothing(u)
  BY DEF Keeps, GivenNothing, Holds, HoldsShared, lockVars
<1>7. GrantedOf(t)'
  <2>1. GrantedOf(t)
    BY DEF HeldInv, GrantedMeansHeld, GrantedOf
  <2>2. QED
    BY <1>2, <1>3, <1>5, <2>1 DEF GrantedOf, Holds, HoldsShared, lockVars
<1>8. QueueOf(t)' = QueueOf(t)
  BY <1>3 DEF QueueOf
<1>9. QED
  BY <1>1, <1>2, <1>3, <1>4, <1>5, <1>6, <1>7, <1>8, HeldStep

\* A full release of lock l by thread t hands it to the threads it wakes, and
\* to nobody else
LEMMA ReleaseHeld ==
    ASSUME TypeOK, WaitInv, HeldInv, NEW t \in Threads, NEW l \in Locks,
           NEW sh \in [Threads -> Nat], \A u \in Threads : sh[u] = 0,
           \A u \in Threads \ {t} : ~Holds(u, l) /\ ~HoldsShared(u, l) /\ obj'[u] = obj[u],
           ~deadlocked => t \notin blocked,
           Release(l, sh)
    PROVE  /\ \A u \in Threads \ {t} : Keeps(u)
           /\ \A u \in Threads \ ({t} \cup Woken(l)) : GivenNothing(u)
           /\ ~deadlocked => \A u \in Woken(l) :
                /\ u \in blocked
                /\ op[u] = "try_lock_for" => Holds(u, obj[u])'
                /\ op[u] = "try_lock_shared_for" => HoldsShared(u, obj[u])'
<1>1. /\ LockQueue(l) \in Seq(Threads) /\ SharedQueue(l) \in Seq(Threads)
      /\ <<"lock", l>> \in Queues /\ <<"shared", l>> \in Queues
      /\ NoThread \notin Threads
  BY QueueNames, NAssumption DEF TypeOK, CoreTypeOK, LockQueue, SharedQueue, Threads, NoThread
<1>2. /\ \A m \in Locks \ {l} : owner'[m] = owner[m] /\ shared'[m] = shared[m]
      /\ owner'[l] = NextOwner(l)
      /\ shared'[l] = IF HandsToWriter(l) THEN sh
                      ELSE [u \in Threads |-> IF u \in Woken(l) THEN sh[u] + 1 ELSE sh[u]]
  BY DEF Release, TypeOK
<1>3. ASSUME NEW u \in Threads, NEW m \in Locks \ {l}
      PROVE  (Holds(u, m)' <=> Holds(u, m)) /\ (HoldsShared(u, m)' <=> HoldsShared(u, m))
  BY <1>2 DEF Holds, HoldsShared
<1>4. \A u \in Threads \ {t} : Keeps(u)
  BY <1>3 DEF Keeps
<1>5. ASSUME NEW u \in Threads \ ({t} \cup Woken(l)) PROVE GivenNothing(u)
  <2>1. ~Holds(u, l)'
    BY <1>1, <1>2 DEF Holds, NextOwner, Woken
  <2>2. ~HoldsShared(u, l)'
    BY <1>2 DEF HoldsShared
  <2>3. QED
    BY <1>3, <2>1, <2>2 DEF GivenNothing
<1>6. ASSUME ~deadlocked, NEW u \in Woken(l)
      PROVE  /\ u \in blocked
             /\ op[u] = "try_lock_for" => Holds(u, obj[u])'
             /\ op[u] = "try_lock_shared_for" => HoldsShared(u, obj[u])'
  <2>1. CASE HandsToWriter(l)
    <3>1. u = LockQueue(l)[1] /\ 1 \in DOMAIN LockQueue(l) /\ u \in Threads
      BY <1>1, <2>1 DEF Woken, HandsToWriter
    <3>2. u \in blocked
      <4>1. 1 \in DOMAIN queue[<<"lock", l>>] /\ queue[<<"lock", l>>][1] = u
        BY <3>1 DEF LockQueue
      <4>2. QED
        BY <1>1, <3>1, <4>1 DEF WaitInv, QueuedOnce
    <3>3. <<"lock", l>> = QueueOf(u)
      BY <1>1, <1>6, <3>1 DEF HeldInv, LockQueue, ToSet
    <3>4. obj[u] = l /\ op[u] # "try_lock_shared_for"
      BY <3>3 DEF QueueOf
    <3>5. Holds(u, l)'
      BY <1>2, <2>1 DEF Holds, NextOwner, Woken
    <3>6. QED
      BY <1>6, <3>1, <3>2, <3>4, <3>5 DEF Holds
  <2>2. CASE ~HandsToWriter(l)
    <3>1. u \in ToSet(SharedQueue(l))
      BY <2>2 DEF Woken
    <3>2. PICK i \in DOMAIN SharedQueue(l) : SharedQueue(l)[i] = u
      BY <3>1 DEF ToSet
    <3>3. u \in Threads /\ u \in blocked
      <4>1. i \in DOMAIN queue[<<"shared", l>>] /\ queue[<<"shared", l>>][i] = u
        BY <3>2 DEF SharedQueue
      <4>2. u \in Threads
        BY <1>1, <3>2
      <4>3. QED
        BY <1>1, <4>1, <4>2 DEF WaitInv, QueuedOnce
    <3>4. <<"shared", l>> = QueueOf(u)
      BY <1>1, <1>6, <3>1 DEF HeldInv, SharedQueue
    <3>5. obj[u] = l /\ op[u] # "try_lock_for"
      BY <3>4 DEF QueueOf
    <3>6. HoldsShared(u, l)'
      BY <1>2, <2>2, <3>3 DEF HoldsShared
    <3>7. QED
      BY <1>6, <3>3, <3>5, <3>6 DEF HoldsShared
  <2>3. QED
    BY <2>1, <2>2
<1>7. QED
  BY <1>4, <1>5, <1>6

\* The queues after the release have no new threads in them
LEMMA ReleasedSets ==
    ASSUME TypeOK, NEW l \in Locks
    PROVE  \A k \in Queues : ToSet(QueueReleased(l)[k]) \subseteq ToSet(queue[k])
<1>1. /\ queue \in [Queues -> Seq(Threads)]
      /\ <<"lock", l>> \in Queues /\ <<"shared", l>> \in Queues
  BY QueueNames DEF TypeOK, CoreTypeOK
<1>2. CASE HandsToWriter(l)
  <2>1. /\ queue[<<"lock", l>>] \in Seq(Threads) /\ queue[<<"lock", l>>] # <<>>
        /\ QueueReleased(l) = [queue EXCEPT ![<<"lock", l>>] = Tail(queue[<<"lock", l>>])]
    BY <1>1, <1>2 DEF HandsToWriter, LockQueue, QueueReleased
  <2>2. \A i \in DOMAIN Tail(queue[<<"lock", l>>]) :
            /\ i + 1 \in DOMAIN queue[<<"lock", l>>]
            /\ Tail(queue[<<"lock", l>>])[i] = queue[<<"lock", l>>][i + 1]
    BY <2>1
  <2>3. ToSet(Tail(queue[<<"lock", l>>])) \subseteq ToSet(queue[<<"lock", l>>])
    BY <2>2 DEF ToSet
  <2>4. QED
    BY <1>1, <2>1, <2>3
<1>3. CASE ~HandsToWriter(l)
  <2>1. QueueReleased(l) = [queue EXCEPT ![<<"shared", l>>] = <<>>] /\ ToSet(<<>>) = {}
    BY <1>3 DEF QueueReleased, ToSet
  <2>2. QED
    BY <1>1, <2>1
<1>4. QED
  BY <1>2, <1>3

\* A step of t that changes neither the queues nor who is blocked, and what at
\* most t itself holds or was timed out of
LEMMA OwnStep ==
    ASSUME TypeOK, WaitInv, HeldInv, NEW t \in Threads,
           pc[t] \in {"user", "call", "blocked"},
           pc[t] = "blocked" => Awake(t) /\ t \notin aborted,
           UNCHANGED <<queue, blocked, deadlocked>>,
           \A u \in Threads \ {t} :
              /\ pc'[u] = pc[u] /\ op'[u] = op[u] /\ obj'[u] = obj[u] /\ granted'[u] = granted[u]
              /\ GivenNothing(u)
              /\ u \in timedOut' <=> u \in timedOut,
           pc'[t] # "blocked", GrantedOf(t)'
    PROVE  HeldInv'
<1>1. queue \in [Queues -> Seq(Threads)]
  BY DEF TypeOK, CoreTypeOK
<1>2. ~deadlocked => t \notin blocked
  BY AwakeNotBlocked DEF WaitInv, BlockedWait
<1>3. \A u \in Threads \ {t} : Keeps(u) /\ TimedOutOf(u, blocked, timedOut)
  BY DEF Keeps, GivenNothing, TimedOutOf
<1>4. ~deadlocked => \A k \in Queues : \A u \in ToSet(queue[k]) : u # t
  BY <1>1, <1>2 DEF WaitInv, QueuedOnce, ToSet
<1>5. QED
  BY <1>1, <1>3, <1>4, HeldStep

\* A step of t that takes the threads W out of the queues, wakes them, and
\* gives them what they wait for
LEMMA WakingStep ==
    ASSUME TypeOK, WaitInv, HeldInv, NEW t \in Threads, pc[t] = "call",
           queue' \in [Queues -> Seq(Threads)], NEW W, W \subseteq Threads,
           UNCHANGED deadlocked,
           \A k \in Queues : ToSet(queue'[k]) \subseteq ToSet(queue[k]),
           blocked' = blocked \ W, timedOut' = timedOut \ W,
           \A u \in Threads \ {t} :
              /\ pc'[u] = pc[u] /\ op'[u] = op[u] /\ obj'[u] = obj[u] /\ granted'[u] = granted[u]
              /\ Keeps(u)
              /\ u \notin W => GivenNothing(u),
           ~deadlocked => \A u \in W :
                /\ u \in blocked
                /\ op[u] = "try_lock_for" => Holds(u, obj[u])'
                /\ op[u] = "try_lock_shared_for" => HoldsShared(u, obj[u])',
           pc'[t] # "blocked", GrantedOf(t)'
    PROVE  HeldInv'
<1>1. queue \in [Queues -> Seq(Threads)]
  BY DEF TypeOK, CoreTypeOK
<1>2. ~deadlocked => t \notin blocked
  BY DEF WaitInv, BlockedWait
<1>3. ASSUME NEW u \in Threads \ {t}, ~deadlocked
      PROVE  (GivenNothing(u) /\ TimedOutOf(u, blocked, timedOut)) \/ Handed(u)
  <2>1. CASE u \in W
    BY <1>3, <2>1 DEF Handed
  <2>2. CASE u \notin W
    BY <2>2 DEF TimedOutOf
  <2>3. QED
    BY <2>1, <2>2
<1>4. ~deadlocked => \A k \in Queues : \A u \in ToSet(queue[k]) : u # t
  BY <1>1, <1>2 DEF WaitInv, QueuedOnce, ToSet
<1>5. QED
  BY <1>3, <1>4, HeldStep

LEMMA LockBlockHeld ==
    ASSUME TypeOK, LockInv, WaitInv, HeldInv, TypeOK', NEW t \in Threads, LockBlock(t)
    PROVE  HeldInv'
<1>1. /\ pc[t] = "call" /\ ~deadlocked /\ t \notin aborted /\ obj[t] \in Locks
      /\ UNCHANGED callVars /\ UNCHANGED lockVars
  BY DEF LockBlock, Called, DeadlockChecked, TypeOK, CallOK, ConditionOps
<1>2. PICK k \in {<<"lock", obj[t]>>, <<"shared", obj[t]>>} : \E w \in BOOLEAN :
            Block(t, k, queue, blocked, timedOut, w) /\ k = QueueOf(t)
  BY DEF LockBlock, Called, QueueOf
<1>3. /\ CoreTypeOK /\ k \in Queues /\ queue \in [Queues -> Seq(Threads)]
      /\ queue' \in [Queues -> Seq(Threads)]
      /\ QueuedOnce(queue, blocked) /\ t \notin blocked
      /\ blocked \in SUBSET Threads /\ timedOut \in SUBSET Threads
  BY <1>1, QueueNames DEF TypeOK, CoreTypeOK, WaitInv, BlockedWait
<1>4. Joins(t, k, queue, blocked, timedOut)
  BY <1>2, <1>3, BlockQueued
<1>5. /\ pc'[t] \in {"blocked", "failed"} /\ \A u \in Threads \ {t} : pc'[u] = pc[u]
  BY <1>2, <1>3 DEF Block, Fail, Goto, CoreTypeOK
<1>6. \A u \in Threads : GivenNothing(u) /\ Keeps(u)
  BY <1>1 DEF GivenNothing, Keeps, Holds, HoldsShared, lockVars
<1>7. QueueOf(t)' = QueueOf(t)
  BY <1>1 DEF QueueOf, callVars
<1>8. GrantedOf(t)'
  BY <1>5 DEF GrantedOf
<1>9. TimedWait(t)'
  <2>1. /\ op[t] = "try_lock_for" => ~Holds(t, obj[t])
        /\ op[t] = "try_lock_shared_for" => ~HoldsShared(t, obj[t])
    <3>1. op[t] = "try_lock_for" => ~MayLock(t, obj[t])
      BY DEF LockBlock, Called
    <3>2. op[t] = "try_lock_shared_for" => ~MayLockShared(obj[t])
      BY DEF LockBlock, Called
    <3>3. QED
      BY <1>1, <3>1, <3>2 DEF MayLock, MayLockShared, Holds, HoldsShared, LockInv,
         LockExclusion, Readers
  <2>2. op'[t] = op[t] /\ obj'[t] = obj[t] /\ owner' = owner /\ shared' = shared
    BY <1>1 DEF callVars, lockVars
  <2>3. t \in blocked' \/ t \in timedOut'
    BY <1>4 DEF Joins
  <2>4. QED
    BY <1>1, <2>1, <2>2, <2>3 DEF TimedWait, Holds, HoldsShared
<1>10. \A u \in Threads \ {t} : TimedOutOf(u, blocked, timedOut)
  BY <1>4 DEF Joins
<1>11. \A j \in Queues : \A u \in ToSet(queue'[j]) :
          \/ u \in ToSet(queue[j]) /\ (u = t => QueueOf(t)' = QueueOf(t))
          \/ u = t /\ j = QueueOf(t)'
  BY <1>2, <1>4, <1>7 DEF Joins
<1>12. QED
  BY <1>1, <1>3, <1>5, <1>6, <1>8, <1>9, <1>10, <1>11, HeldStep DEF callVars

LEMMA WaitBlockHeld ==
    ASSUME TypeOK, LockInv, WaitInv, HeldInv, TypeOK', NEW t \in Threads, WaitBlock(t)
    PROVE  HeldInv'
<1>1. /\ pc[t] = "call" /\ ~deadlocked /\ t \notin aborted /\ op[t] \in {"wait", "wait_for"}
      /\ obj[t] \in Conditions /\ LockOf[obj[t]] \in Locks
      /\ UNCHANGED callVars
  BY LockOfAssumption DEF WaitBlock, MayWait, Called, DeadlockChecked, TypeOK, CallOK,
     LockOps, SharedOps
<1>2. PICK l \in Locks : l = LockOf[obj[t]]
  BY <1>1
<1>3. PICK k : k = <<"condition", obj[t]>>
  OBVIOUS
<1>4. /\ Block(t, k, QueueReleased(l), blocked \ Woken(l), timedOut \ Woken(l), op[t] = "wait_for")
      /\ Release(l, shared[l]) /\ shared[l] \in [Threads -> Nat] /\ owner[l] = t
      /\ k = QueueOf(t)
  BY <1>1, <1>2, <1>3 DEF WaitBlock, MayWait, Holds, TypeOK, QueueOf
<1>5. /\ NoThread \notin Threads
      /\ \A u \in Threads : shared[l][u] = 0
      /\ \A u \in Threads \ {t} : ~Holds(u, l) /\ ~HoldsShared(u, l)
  BY <1>4, NAssumption DEF LockInv, LockExclusion, Readers, Holds, HoldsShared, Threads, NoThread
<1>6. /\ CoreTypeOK /\ k \in Queues
      /\ QueueReleased(l) \in [Queues -> Seq(Threads)]
      /\ queue' \in [Queues -> Seq(Threads)]
      /\ blocked \ Woken(l) \in SUBSET Threads /\ timedOut \ Woken(l) \in SUBSET Threads
      /\ (op[t] = "wait_for") \in BOOLEAN
      /\ t \notin blocked
  <2>1. CoreTypeOK /\ k \in Queues /\ queue' \in [Queues -> Seq(Threads)]
    BY <1>1, <1>3, QueueNames DEF TypeOK, CoreTypeOK
  <2>2. QueueReleased(l) \in [Queues -> Seq(Threads)]
    BY <1>4, ReleaseFacts
  <2>3. blocked \ Woken(l) \in SUBSET Threads /\ timedOut \ Woken(l) \in SUBSET Threads
    BY <2>1 DEF CoreTypeOK
  <2>4. t \notin blocked
    BY <1>1 DEF WaitInv, BlockedWait
  <2>5. QED
    BY <2>1, <2>2, <2>3, <2>4
<1>7. QueuedOnce(QueueReleased(l), blocked \ Woken(l))
  BY ReleasedQueued DEF WaitInv
<1>8. Joins(t, k, QueueReleased(l), blocked \ Woken(l), timedOut \ Woken(l))
  BY <1>4, <1>6, <1>7, BlockQueued
<1>9. /\ \A u \in Threads \ {t} : Keeps(u)
      /\ \A u \in Threads \ ({t} \cup Woken(l)) : GivenNothing(u)
      /\ \A u \in Woken(l) :
            /\ u \in blocked
            /\ op[u] = "try_lock_for" => Holds(u, obj[u])'
            /\ op[u] = "try_lock_shared_for" => HoldsShared(u, obj[u])'
  BY <1>1, <1>4, <1>5, <1>6, ReleaseHeld DEF callVars
<1>10. ASSUME NEW u \in Threads \ {t}
       PROVE  (GivenNothing(u) /\ TimedOutOf(u, blocked, timedOut)) \/ Handed(u)
  <2>1. TimedOutOf(u, blocked \ Woken(l), timedOut \ Woken(l))
    BY <1>8 DEF Joins
  <2>2. CASE u \in Woken(l)
    BY <1>9, <2>1, <2>2 DEF Handed, TimedOutOf
  <2>3. CASE u \notin Woken(l)
    BY <1>9, <2>1, <2>3 DEF TimedOutOf
  <2>4. QED
    BY <2>2, <2>3
<1>11. /\ pc'[t] \in {"blocked", "failed"} /\ \A u \in Threads \ {t} : pc'[u] = pc[u]
  BY <1>4, <1>6 DEF Block, Fail, Goto, CoreTypeOK
<1>12. QueueOf(t)' = QueueOf(t)
  BY <1>1 DEF QueueOf, callVars
<1>13. GrantedOf(t)' /\ TimedWait(t)'
  BY <1>1, <1>11 DEF GrantedOf, TimedWait, callVars
<1>14. \A j \in Queues : \A u \in ToSet(queue'[j]) :
          \/ u \in ToSet(queue[j]) /\ (u = t => QueueOf(t)' = QueueOf(t))
          \/ u = t /\ j = QueueOf(t)'
  BY <1>4, <1>8, <1>12, ReleasedSets DEF Joins
<1>15. QED
  BY <1>1, <1>6, <1>9, <1>10, <1>11, <1>13, <1>14, HeldStep DEF callVars

LEMMA UnlockHeld ==
    ASSUME TypeOK, LockInv, WaitInv, HeldInv, TypeOK', NEW t \in Threads,
           Unlock(t) \/ UnlockShared(t) \/ WaitExpired(t)
    PROVE  HeldInv'
<1>1. /\ pc[t] = "call" /\ pc'[t] \in {"call", "after"}
      /\ op'[t] \in {"unlock", "unlock_shared", "relock"} /\ (pc'[t] = "after" => op'[t] # "relock")
      /\ UNCHANGED deadlocked
      /\ \A u \in Threads \ {t} :
            pc'[u] = pc[u] /\ op'[u] = op[u] /\ obj'[u] = obj[u] /\ granted'[u] = granted[u]
  BY DEF Unlock, UnlockShared, WaitExpired, MayWait, Called, Return, Relock, Goto, TypeOK, CoreTypeOK
<1>2. GrantedOf(t)'
  BY <1>1 DEF GrantedOf
<1>3. queue' \in [Queues -> Seq(Threads)] /\ NoThread \notin Threads
  BY NAssumption DEF TypeOK, CoreTypeOK, Threads, NoThread
<1>4. ASSUME NEW l \in Locks, NEW sh \in [Threads -> Nat], \A u \in Threads : sh[u] = 0,
             \A u \in Threads \ {t} : ~Holds(u, l) /\ ~HoldsShared(u, l),
             Release(l, sh), queue' = QueueReleased(l), blocked' = blocked \ Woken(l),
             timedOut' = timedOut \ Woken(l)
      PROVE  HeldInv'
  <2>1. ~deadlocked => t \notin blocked
    BY <1>1 DEF WaitInv, BlockedWait
  <2>2. /\ \A u \in Threads \ {t} : Keeps(u)
        /\ \A u \in Threads \ ({t} \cup Woken(l)) : GivenNothing(u)
        /\ ~deadlocked => \A u \in Woken(l) :
              /\ u \in blocked
              /\ op[u] = "try_lock_for" => Holds(u, obj[u])'
              /\ op[u] = "try_lock_shared_for" => HoldsShared(u, obj[u])'
    BY <1>1, <1>4, <2>1, ReleaseHeld
  <2>3. \A k \in Queues : ToSet(queue'[k]) \subseteq ToSet(queue[k])
    BY <1>4, ReleasedSets
  <2>4. Woken(l) \subseteq Threads
    BY <1>4, ReleaseFacts
  <2>5. QED
    BY <1>1, <1>2, <1>3, <1>4, <2>2, <2>3, <2>4, WakingStep
<1>5. ASSUME UNCHANGED <<queue, blocked, timedOut>>, \A u \in Threads \ {t} : GivenNothing(u)
      PROVE  HeldInv'
  BY <1>1, <1>2, <1>5, OwnStep
<1>6. CASE Unlock(t)
  <2>1. PICK l \in Locks : l = obj[t]
    BY <1>6 DEF Unlock, Called, TypeOK, CallOK, ConditionOps
  <2>2. /\ owner[l] = t /\ shared[l] \in [Threads -> Nat]
        /\ \A u \in Threads : shared[l][u] = 0
        /\ \A u \in Threads \ {t} : ~Holds(u, l) /\ ~HoldsShared(u, l)
    BY <1>3, <1>6, <2>1 DEF Unlock, LockInv, LockExclusion, Readers, Holds, HoldsShared, TypeOK
  <2>3. CASE depth[l] > 1
    <3>1. UNCHANGED <<owner, shared, queue, blocked, timedOut>>
      BY <1>6, <2>1, <2>3 DEF Unlock
    <3>2. QED
      BY <1>5, <3>1 DEF GivenNothing, Holds, HoldsShared
  <2>4. CASE depth[l] = 1
    BY <1>4, <1>6, <2>1, <2>2, <2>4 DEF Unlock
  <2>5. QED
    BY <1>6, <2>1, <2>3, <2>4 DEF Unlock
<1>7. CASE UnlockShared(t)
  <2>1. PICK l \in Locks : l = obj[t]
    BY <1>7 DEF UnlockShared, Called, TypeOK, CallOK, ConditionOps
  <2>2. shared[l] \in [Threads -> Nat] /\ shared[l][t] > 0
    BY <1>7, <2>1 DEF UnlockShared, HoldsShared, TypeOK
  <2>3. PICK sh \in [Threads -> Nat] : sh = [shared[l] EXCEPT ![t] = shared[l][t] - 1]
    <3>1. shared[l][t] - 1 \in Nat
      BY <2>2
    <3>2. [shared[l] EXCEPT ![t] = shared[l][t] - 1] \in [Threads -> Nat]
      BY <2>2, <3>1
    <3>3. QED
      BY <3>2
  <2>4. owner[l] = NoThread
    BY <2>2 DEF LockInv, LockExclusion, Readers
  <2>5. CASE \E u \in Threads : sh[u] > 0
    <3>1. shared' = [shared EXCEPT ![l] = sh] /\ UNCHANGED <<owner, queue, blocked, timedOut>>
      BY <1>7, <2>1, <2>3, <2>4, <2>5 DEF UnlockShared
    <3>2. \A u \in Threads \ {t} : \A m \in Locks : shared'[m][u] = shared[m][u]
      BY <2>2, <2>3, <3>1 DEF TypeOK
    <3>3. QED
      BY <1>5, <3>1, <3>2 DEF GivenNothing, Holds, HoldsShared
  <2>6. CASE \A u \in Threads : sh[u] = 0
    <3>1. \A u \in Threads \ {t} : ~Holds(u, l) /\ ~HoldsShared(u, l)
      BY <1>3, <2>2, <2>3, <2>4, <2>6 DEF Holds, HoldsShared
    <3>2. /\ Release(l, sh) /\ queue' = QueueReleased(l)
          /\ blocked' = blocked \ Woken(l) /\ timedOut' = timedOut \ Woken(l)
      BY <1>7, <2>1, <2>3, <2>4, <2>6 DEF UnlockShared
    <3>3. QED
      BY <1>4, <2>6, <3>1, <3>2
  <2>7. \A u \in Threads : sh[u] \in Nat
    BY <2>3
  <2>8. QED
    BY <2>5, <2>6, <2>7
<1>8. CASE WaitExpired(t)
  <2>1. PICK l \in Locks : l = LockOf[obj[t]]
    BY <1>8, LockOfAssumption
       DEF WaitExpired, MayWait, Called, TypeOK, CallOK, LockOps, SharedOps
  <2>2. /\ owner[l] = t /\ shared[l] \in [Threads -> Nat]
        /\ \A u \in Threads : shared[l][u] = 0
        /\ \A u \in Threads \ {t} : ~Holds(u, l) /\ ~HoldsShared(u, l)
    BY <1>3, <1>8, <2>1 DEF WaitExpired, MayWait, LockInv, LockExclusion, Readers, Holds,
       HoldsShared, TypeOK
  <2>3. QED
    BY <1>4, <1>8, <2>1, <2>2 DEF WaitExpired
<1>9. QED
  BY <1>6, <1>7, <1>8

LEMMA NotifyHeld ==
    ASSUME TypeOK, WaitInv, HeldInv, TypeOK', NEW t \in Threads, Notify(t)
    PROVE  HeldInv'
<1> DEFINE k == <<"condition", obj[t]>>
           W == IF op[t] = "notify_all" THEN ToSet(queue[k])
                ELSE IF queue[k] = <<>> THEN {} ELSE {Head(queue[k])}
           s == IF op[t] = "notify_all" \/ queue[k] = <<>> THEN <<>> ELSE Tail(queue[k])
<1>1. /\ queue \in [Queues -> Seq(Threads)] /\ k \in Queues /\ pc[t] = "call"
      /\ queue' \in [Queues -> Seq(Threads)]
      /\ op[t] \in {"notify_one", "notify_all"}
      /\ queue' = [queue EXCEPT ![k] = s]
      /\ blocked' = blocked \ W /\ timedOut' = timedOut \ W
      /\ UNCHANGED deadlocked /\ UNCHANGED lockVars
  BY QueueNames DEF Notify, Called, TypeOK, CoreTypeOK, CallOK, LockOps, SharedOps
<1>2. ToSet(s) \subseteq ToSet(queue[k]) /\ W \subseteq ToSet(queue[k])
  <2>1. queue[k] \in Seq(Threads)
    BY <1>1
  <2>2. CASE s = <<>> /\ (W = {} \/ W = ToSet(queue[k]))
    <3>1. ToSet(<<>>) = {}
      BY DEF ToSet
    <3> HIDE DEF W, s
    <3>2. QED
      BY <2>2, <3>1
  <2>3. CASE queue[k] # <<>> /\ s = Tail(queue[k]) /\ W = {Head(queue[k])}
    <3>1. /\ \A i \in DOMAIN Tail(queue[k]) :
                i + 1 \in DOMAIN queue[k] /\ Tail(queue[k])[i] = queue[k][i + 1]
          /\ 1 \in DOMAIN queue[k] /\ Head(queue[k]) = queue[k][1]
      BY <2>1, <2>3
    <3>2. ToSet(Tail(queue[k])) \subseteq ToSet(queue[k]) /\ Head(queue[k]) \in ToSet(queue[k])
      BY <3>1 DEF ToSet
    <3>3. QED
      BY <2>3, <3>2
  <2>4. QED
    BY <2>2, <2>3
<1> HIDE DEF s, W
<1>3. \A j \in Queues : ToSet(queue'[j]) \subseteq ToSet(queue[j])
  BY <1>1, <1>2
<1>4. W \subseteq Threads /\ \A u \in W : u \in blocked
  <2> SUFFICES ASSUME NEW u \in W PROVE u \in Threads /\ u \in blocked
    OBVIOUS
  <2>1. PICK i \in DOMAIN queue[k] : queue[k][i] = u
    BY <1>2 DEF ToSet
  <2>2. u \in Threads
    BY <1>1, <2>1
  <2>3. QED
    BY <1>1, <2>1, <2>2 DEF WaitInv, QueuedOnce
<1>5. ~deadlocked => \A u \in W : op[u] \notin {"try_lock_for", "try_lock_shared_for"}
  BY <1>1, <1>2 DEF HeldInv, QueueOf
<1>6. /\ pc'[t] = "after" /\ op'[t] = op[t]
      /\ \A u \in Threads \ {t} :
            pc'[u] = pc[u] /\ op'[u] = op[u] /\ obj'[u] = obj[u] /\ granted'[u] = granted[u]
  BY DEF Notify, Return, Goto, TypeOK, CoreTypeOK
<1>7. GrantedOf(t)'
  BY <1>1, <1>6 DEF GrantedOf
<1>8. \A u \in Threads : GivenNothing(u) /\ Keeps(u)
  BY <1>1 DEF GivenNothing, Keeps, Holds, HoldsShared, lockVars
<1>9. QED
  BY <1>1, <1>3, <1>4, <1>5, <1>6, <1>7, <1>8, WakingStep

LEMMA LockStepHeld ==
    ASSUME TypeOK, LockInv, WaitInv, HeldInv, TypeOK', NEW t \in Threads, LockStep(t)
    PROVE  HeldInv'
<1> USE DEF Goto, Return
<1>0. /\ pc \in [Threads -> Locations] /\ DOMAIN op = Threads /\ DOMAIN obj = Threads
      /\ granted \in [Threads -> BOOLEAN] /\ NoThread \notin Threads
  BY NAssumption DEF TypeOK, CoreTypeOK, Threads, NoThread
<1>1. ASSUME UNCHANGED lockVars PROVE \A u \in Threads : GivenNothing(u)
  BY <1>1 DEF GivenNothing, Holds, HoldsShared, lockVars
<1>2. CASE \E o \in Ops : \E x \in ObjectsOf(o) : Begin(t, o, x)
  <2>1. /\ pc[t] = "user" /\ pc'[t] \in {"before", "call"}
        /\ UNCHANGED <<queue, blocked, timedOut, deadlocked>> /\ UNCHANGED lockVars
        /\ \A u \in Threads \ {t} :
              pc'[u] = pc[u] /\ op'[u] = op[u] /\ obj'[u] = obj[u] /\ granted'[u] = granted[u]
    BY <1>0, <1>2 DEF Begin, waitVars
  <2>2. QED
    BY <1>1, <2>1, OwnStep DEF GrantedOf
<1>3. CASE LockAcquire(t)
  <2>1. PICK l \in Locks : l = obj[t]
    BY <1>3 DEF LockAcquire, Called, TypeOK, CallOK, ConditionOps
  <2>2. /\ pc[t] = "call" /\ pc'[t] = "after" /\ granted'[t] = TRUE
        /\ op[t] \in {"lock", "relock", "try_lock", "try_lock_for"}
        /\ owner' = [owner EXCEPT ![l] = t] /\ owner[l] \in {t, NoThread}
        /\ UNCHANGED <<queue, blocked, timedOut, deadlocked, shared, op, obj>>
        /\ \A u \in Threads \ {t} : pc'[u] = pc[u] /\ granted'[u] = granted[u]
    BY <1>0, <1>3, <2>1 DEF LockAcquire, Called, MayLock, waitVars
  <2>3. \A u \in Threads \ {t} : GivenNothing(u)
    BY <1>0, <2>1, <2>2 DEF GivenNothing, Holds, HoldsShared, TypeOK
  <2>4. GrantedOf(t)'
    BY <2>1, <2>2 DEF GrantedOf, Holds, TypeOK
  <2>5. QED
    BY <2>2, <2>3, <2>4, OwnStep
<1>4. CASE SharedAcquire(t)
  <2>1. PICK l \in Locks : l = obj[t]
    BY <1>4 DEF SharedAcquire, Called, TypeOK, CallOK, ConditionOps
  <2>2. /\ pc[t] = "call" /\ pc'[t] = "after" /\ granted'[t] = TRUE
        /\ op[t] \in {"lock_shared", "try_lock_shared", "try_lock_shared_for"}
        /\ shared' = [shared EXCEPT ![l][t] = shared[l][t] + 1]
        /\ UNCHANGED <<queue, blocked, timedOut, deadlocked, owner, op, obj>>
        /\ \A u \in Threads \ {t} : pc'[u] = pc[u] /\ granted'[u] = granted[u]
    BY <1>0, <1>4, <2>1 DEF SharedAcquire, Called, waitVars
  <2>3. shared[l] \in [Threads -> Nat]
    BY <2>1 DEF TypeOK
  <2>4. /\ shared'[l][t] > 0
        /\ \A u \in Threads \ {t} : \A m \in Locks : shared'[m][u] = shared[m][u]
    BY <2>1, <2>2, <2>3 DEF TypeOK
  <2>5. \A u \in Threads \ {t} : GivenNothing(u)
    BY <2>2, <2>4 DEF GivenNothing, Holds, HoldsShared
  <2>6. GrantedOf(t)'
    BY <2>1, <2>2, <2>4 DEF GrantedOf, HoldsShared
  <2>7. QED
    BY <2>2, <2>5, <2>6, OwnStep
<1>5. CASE TryRefused(t)
  <2>1. /\ pc[t] = "call" /\ pc'[t] = "after" /\ granted'[t] = FALSE
        /\ UNCHANGED <<queue, blocked, timedOut, deadlocked, op, obj>> /\ UNCHANGED lockVars
        /\ \A u \in Threads \ {t} : pc'[u] = pc[u] /\ granted'[u] = granted[u]
    BY <1>0, <1>5 DEF TryRefused, Called, waitVars
  <2>2. obj[t] \in Locks
    BY <1>5 DEF TryRefused, Called, TypeOK, CallOK, ConditionOps
  <2>3. \/ op[t] \in {"try_lock", "try_lock_for"} /\ ~Holds(t, obj[t])
        \/ op[t] \in {"try_lock_shared", "try_lock_shared_for"} /\ ~HoldsShared(t, obj[t])
    BY <1>5, <2>2 DEF TryRefused, Called, MayLock, MayLockShared, Holds, HoldsShared,
       LockInv, LockExclusion, Readers
  <2>4. GrantedOf(t)'
    BY <2>1, <2>3 DEF GrantedOf, Holds, HoldsShared, lockVars
  <2>5. QED
    BY <1>1, <2>1, <2>4, OwnStep
<1>6. CASE LockWake(t)
  <2>1. /\ pc[t] = "blocked" /\ Awake(t) /\ t \notin aborted /\ granted'[t] = TRUE
        /\ UNCHANGED <<queue, blocked, timedOut, deadlocked, op, obj>> /\ UNCHANGED lockVars
        /\ \A u \in Threads \ {t} : pc'[u] = pc[u] /\ granted'[u] = granted[u]
    BY <1>0, <1>6 DEF LockWake, WokenIn, waitVars
  <2>2. \/ pc'[t] = "call"
        \/ pc'[t] = "after" /\ op[t] \in {"lock", "relock"} /\ Holds(t, obj[t])
        \/ pc'[t] = "after" /\ op[t] = "lock_shared" /\ HoldsShared(t, obj[t])
    BY <1>0, <1>6 DEF LockWake, WokenIn
  <2>3. GrantedOf(t)' /\ pc'[t] # "blocked"
    BY <2>1, <2>2 DEF GrantedOf, Holds, HoldsShared, lockVars
  <2>4. QED
    BY <1>1, <2>1, <2>3, OwnStep
<1>7. CASE TimedLockWake(t)
  <2>1. /\ pc[t] = "blocked" /\ Awake(t) /\ t \notin aborted /\ ~deadlocked
        /\ pc'[t] = "after" /\ (granted'[t] <=> t \notin timedOut)
        /\ op[t] \in {"try_lock_for", "try_lock_shared_for"}
        /\ UNCHANGED <<queue, blocked, deadlocked, op, obj>> /\ UNCHANGED lockVars
        /\ \A u \in Threads \ {t} :
              /\ pc'[u] = pc[u] /\ granted'[u] = granted[u]
              /\ u \in timedOut' <=> u \in timedOut
    BY <1>0, <1>7 DEF TimedLockWake, WokenIn
  <2>2. t \notin blocked /\ TimedWait(t)
    BY <2>1, AwakeNotBlocked DEF HeldInv
  <2>3. GrantedOf(t)'
    BY <2>1, <2>2 DEF GrantedOf, TimedWait, Holds, HoldsShared, lockVars
  <2>4. QED
    BY <1>1, <2>1, <2>3, OwnStep
<1>8. CASE Misuse(t)
  <2>1. /\ pc[t] = "call" /\ pc'[t] = "failed"
        /\ UNCHANGED <<queue, blocked, timedOut, deadlocked, op, obj, granted>>
        /\ UNCHANGED lockVars
        /\ \A u \in Threads \ {t} : pc'[u] = pc[u]
    BY <1>0, <1>8 DEF Misuse, Fail, Called, waitVars, callVars
  <2>2. QED
    BY <1>1, <2>1, OwnStep DEF GrantedOf
<1>9. CASE WaitWake(t)
  <2>1. /\ pc[t] = "blocked" /\ Awake(t) /\ t \notin aborted /\ pc'[t] = "call"
        /\ UNCHANGED <<queue, blocked, deadlocked, granted>> /\ UNCHANGED lockVars
        /\ \A u \in Threads \ {t} :
              /\ pc'[u] = pc[u] /\ op'[u] = op[u] /\ obj'[u] = obj[u]
              /\ u \in timedOut' <=> u \in timedOut
    BY <1>0, <1>9 DEF WaitWake, WokenIn, Relock
  <2>2. QED
    BY <1>1, <2>1, OwnStep DEF GrantedOf
<1>10. QED
  BY <1>2, <1>3, <1>4, <1>5, <1>6, <1>7, <1>8, <1>9, LockBlockHeld, WaitBlockHeld,
     UnlockHeld, NotifyHeld DEF LockStep

\* lock(), lock_shared() and the try and timed forms tell their callers the truth
THEOREM GrantsAreHeld == Spec => []GrantedMeansHeld
<1>1. Init => HeldInv
  <2> SUFFICES ASSUME Init PROVE HeldInv
    OBVIOUS
  <2>1. \A k \in Queues : ToSet(queue[k]) = {}
    BY DEF Init, CoreInit, ToSet
  <2>2. QED
    BY <2>1 DEF Init, CoreInit, HeldInv, GrantedMeansHeld
<1>2. TypeOK /\ TypeOK' /\ LockInv /\ WaitInv /\ HeldInv /\ [Next]_vars => HeldInv'
  <2> SUFFICES ASSUME TypeOK, TypeOK', LockInv, WaitInv, HeldInv, [Next]_vars PROVE HeldInv'
    OBVIOUS
  <2>1. ASSUME UNCHANGED <<queue, blocked, timedOut, deadlocked, pc, callVars, lockVars>>
        PROVE  HeldInv'
    BY <2>1 DEF HeldInv, GrantedMeansHeld, TimedWait, QueueOf, Holds, HoldsShared, callVars, lockVars
  <2>2. CASE WaitUntilReady /\ UNCHANGED lockVars
    BY <2>1, <2>2 DEF WaitUntilReady, waitVars
  <2>3. CASE \E t \in Threads : Step(t)
    BY <2>3, CoreStepHeld, LockStepHeld DEF Step
  <2>4. CASE UNCHANGED vars
    BY <2>1, <2>4 DEF vars, coreVars, waitVars
  <2>5. QED
    BY <2>2, <2>3, <2>4 DEF Next, Terminated
<1>3. HeldInv => GrantedMeansHeld
  BY DEF HeldInv
<1>4. QED
  BY <1>1, <1>2, <1>3, LockInvHolds, WaitInvHolds, PTL DEF Spec

-----------------------------------------------------------------------------
(* What run_schedule reports.                                              *)

LEMMA LockStepFail ==
    ASSUME TypeOK, WaitInv, FailInv, NEW t \in Threads, LockStep(t)
    PROVE  FailInv'
<1>0. blocked \in SUBSET Threads
  BY DEF TypeOK, CoreTypeOK
<1>1. CASE LockBlock(t)
  <2>1. pc[t] = "call" /\ ~deadlocked /\ t \notin aborted
    BY <1>1 DEF LockBlock, Called, DeadlockChecked
  <2>2. \E k, w : Block(t, k, queue, blocked, timedOut, w)
    BY <1>1 DEF LockBlock
  <2>3. QED
    BY <1>0, <2>1, <2>2, BlockFail
<1>2. CASE WaitBlock(t)
  <2>1. pc[t] = "call" /\ ~deadlocked /\ t \notin aborted
    BY <1>2 DEF WaitBlock, MayWait, Called, DeadlockChecked
  <2>2. PICK b : b = blocked \ Woken(LockOf[obj[t]])
    OBVIOUS
  <2>3. \E k, q, to, w : Block(t, k, q, b, to, w)
    BY <1>2, <2>2 DEF WaitBlock
  <2>4. b \in SUBSET Threads /\ b \subseteq blocked
    BY <1>0, <2>2
  <2>5. QED
    BY <2>1, <2>3, <2>4, BlockFail
<1>3. CASE Misuse(t)
  <2>1. /\ pc[t] = "call" /\ Fail(t, "misuse") /\ UNCHANGED <<deadlocked, switchCount>>
        /\ UNCHANGED tokenVars
    BY <1>3 DEF Misuse, Called
  <2>2. ~deadlocked
    BY <2>1 DEF FailInv, DeadlockReport
  <2>3. QED
    BY <2>1, <2>2, ThrowFail DEF Running, tokenVars
<1>4. CASE ~LockBlock(t) /\ ~WaitBlock(t) /\ ~Misuse(t)
  <2>1. /\ pc[t] \in {"user", "call", "blocked"}
        /\ pc[t] = "blocked" => Awake(t) /\ t \notin aborted /\ ~deadlocked
    BY <1>4 DEF LockStep, Begin, LockAcquire, SharedAcquire, TryRefused, LockWake,
                TimedLockWake, Unlock, UnlockShared, WaitExpired, WaitWake,
                Notify, MayWait, Called, WokenIn
  <2>2. \E l : l \notin {"failed", "recorded"} /\ Goto(t, l)
    BY <1>4 DEF LockStep, Begin, LockAcquire, SharedAcquire, TryRefused, LockWake,
                TimedLockWake, Unlock, UnlockShared, WaitExpired, WaitWake,
                Notify, Return, Relock
  <2>3. UNCHANGED <<failVars, deadlocked, abortRequested, switchCount>>
    BY <1>4 DEF LockStep, Begin, LockAcquire, SharedAcquire, TryRefused, LockWake,
                TimedLockWake, Unlock, UnlockShared, WaitExpired, WaitWake,
                Notify, tokenVars
  <2>4. QED
    BY <2>1, <2>2, <2>3, MethodFail
<1>5. QED
  BY <1>1, <1>2, <1>3, <1>4

\* Where no operation turns its exceptions into results, the failure that
\* run_schedule reports is what happened: a deadlock or a spent budget is never
\* masked by what the workers throw while they are stopped, and nothing fails
\* silently
THEOREM FailuresAreReported ==
    ASSUME ExceptionResults = {}
    PROVE  Spec => []FailureReported
<1>1. Init => FailInv
  BY FailInit DEF Init
<1>2. TypeOK /\ TypeOK' /\ WaitInv /\ FailInv /\ [Next]_vars => FailInv'
  <2> SUFFICES ASSUME TypeOK, TypeOK', WaitInv, FailInv, [Next]_vars PROVE FailInv'
    OBVIOUS
  <2>1. ASSUME UNCHANGED <<deadlocked, abortRequested, pc, failure, exception, switchCount>>
        PROVE  FailInv'
    BY <2>1 DEF FailInv, RunReport, AbortReport, DeadlockReport, Failing, Idle, OverBudget
  <2>2. CASE WaitUntilReady /\ UNCHANGED lockVars
    BY <2>1, <2>2 DEF WaitUntilReady, failVars
  <2>3. CASE \E t \in Threads : Step(t)
    BY <2>3, CoreStepFail, LockStepFail DEF Step, TypeOK
  <2>4. CASE UNCHANGED vars
    BY <2>1, <2>4 DEF vars, coreVars, tokenVars, failVars
  <2>5. QED
    BY <2>2, <2>3, <2>4 DEF Next, Terminated
<1>3. WaitInv /\ FailInv => FailureReported
  BY FailReported
<1>4. QED
  BY <1>1, <1>2, <1>3, WaitInvHolds, PTL DEF Spec

-----------------------------------------------------------------------------
(* SchedulerLocks implements FairLocks: leaving a queue.                   *)

\* Who gives the token away times out at most one waiter, of one queue
LEMMA HandOffLeaves ==
    ASSUME NEW t, NEW f, NEW b, NEW q \in [Queues -> Seq(Threads)], NEW tm, NEW to,
           HandOff(t, f, b, q, tm, to)
    PROVE  \A k \in Queues : Fair!GivenUp(q[k], queue'[k])
<1>1. CASE queue' = q
  BY <1>1 DEF Fair!GivenUp
<1>2. CASE \E j \in Expirable(q, tm, f) : \E i \in FirstTimed(q[j], tm, f) :
              queue' = [q EXCEPT ![j] = RemoveAt(q[j], i)]
  <2>0. PICK j \in Expirable(q, tm, f) : \E i \in FirstTimed(q[j], tm, f) :
              queue' = [q EXCEPT ![j] = RemoveAt(q[j], i)]
    BY <1>2
  <2>1. PICK i \in FirstTimed(q[j], tm, f) : queue' = [q EXCEPT ![j] = RemoveAt(q[j], i)]
    BY <2>0
  <2>2. i \in DOMAIN q[j]
    BY DEF FirstTimed
  <2>3. Fair!RemoveAt(q[j], i) = RemoveAt(q[j], i)
    BY DEF RemoveAt, Fair!RemoveAt
  <2>4. QED
    BY <2>1, <2>2, <2>3 DEF Fair!GivenUp
<1>3. QED
  BY <1>1, <1>2 DEF HandOff

\* A thread that blocks joins its queue, and somebody may be timed out for it
LEMMA BlockLeaves ==
    ASSUME NEW t \in Threads, NEW k \in Queues, NEW q \in [Queues -> Seq(Threads)],
           NEW b, NEW to, NEW isTimed, Block(t, k, q, b, to, isTimed)
    PROVE  /\ Fair!GivenUp(Fair!Queued(q[k], t), queue'[k])
           /\ \A j \in Queues \ {k} : Fair!GivenUp(q[j], queue'[j])
<1> DEFINE q1 == [q EXCEPT ![k] = Enqueue(q[k], t)]
           tm1 == IF isTimed THEN timed \cup {t} ELSE timed
           to1 == IF isTimed THEN to \ {t} ELSE to
<1>1. /\ q1 \in [Queues -> Seq(Threads)]
      /\ q1[k] = Enqueue(q[k], t)
      /\ \A j \in Queues \ {k} : q1[j] = q[j]
  BY EnqueueType
<1>2. HandOff(t, finished, b \cup {t}, q1, tm1, to1) \/ queue' = q1
  BY DEF Block
<1>3. Fair!Queued(q[k], t) = Enqueue(q[k], t)
  BY DEF Fair!Queued, Enqueue, ToSet, Fair!ToSet
<1> HIDE DEF q1, tm1, to1
<1>4. \A j \in Queues : Fair!GivenUp(q1[j], queue'[j])
  <2>1. CASE HandOff(t, finished, b \cup {t}, q1, tm1, to1)
    BY <2>1, <1>1, HandOffLeaves
  <2>2. CASE queue' = q1
    BY <2>2 DEF Fair!GivenUp
  <2>3. QED
    BY <1>2, <2>1, <2>2
<1>5. QED
  BY <1>1, <1>3, <1>4

LEMMA NobodyLeaves == ASSUME NEW r, Fair!GivenUp(<<>>, r) PROVE r = <<>>
<1>1. DOMAIN <<>> = {}
  OBVIOUS
<1>2. QED
  BY <1>1 DEF Fair!GivenUp

-----------------------------------------------------------------------------
(* Locks a step leaves alone.                                              *)

\* The step leaves lock l to its holders
Undisturbed(l) == owner'[l] = owner[l] /\ depth'[l] = depth[l] /\ shared'[l] = shared[l]

\* ... and at most lets one of its waiters go
Rests(l) ==
    /\ Undisturbed(l)
    /\ Fair!GivenUp(LockQueue(l), LockQueue(l)')
    /\ Fair!GivenUp(SharedQueue(l), SharedQueue(l)')

LEMMA RestMoves == ASSUME NEW l \in Locks, Rests(l) PROVE Fair!Move(l)
BY DEF Rests, Undisturbed, Fair!Move, Fair!Rest, Fair!HeldAs

LEMMA QuietStepMoves ==
    ASSUME UNCHANGED lockVars, UNCHANGED queue PROVE Fair!Next
<1>1. \A l \in Locks : Rests(l)
  BY DEF Rests, Undisturbed, lockVars, Fair!GivenUp, LockQueue, SharedQueue
<1>2. QED
  BY <1>1, RestMoves DEF Fair!Next

\* The token machinery changes queues only by timing a waiter out
LEMMA CoreStepMoves ==
    ASSUME TypeOK, NEW t \in Threads, CoreStep(t), UNCHANGED lockVars
    PROVE  Fair!Next
<1>1. \A k \in Queues : Fair!GivenUp(queue[k], queue'[k])
  <2>1. CASE FinishThread(t)
    <3>1. CASE HandOff(t, finished', blocked, queue, timed, timedOut)
      BY <3>1, HandOffLeaves DEF TypeOK, CoreTypeOK
    <3>2. CASE UNCHANGED queue
      BY <3>2 DEF Fair!GivenUp
    <3>3. QED
      BY <2>1, <3>1, <3>2 DEF FinishThread
  <2>2. CASE ~FinishThread(t)
    <3>1. UNCHANGED queue
      BY <2>2 DEF CoreStep, WorkerReady, ReadyWake, SwitchStay, SwitchTo, SwitchLivelock,
                  SwitchWake, CallInterrupted, UserReturn, UserThrow, SwallowException,
                  RecordFailure, RequestAbort, BlockedInterrupted, waitVars
    <3>2. QED
      BY <3>1 DEF Fair!GivenUp
  <2>3. QED
    BY <2>1, <2>2
<1>2. \A l \in Locks : Rests(l)
  BY <1>1, QueueNames DEF Rests, Undisturbed, lockVars, LockQueue, SharedQueue
<1>3. QED
  BY <1>2, RestMoves DEF Fair!Next

-----------------------------------------------------------------------------
(* The lock whose turn it is.                                              *)

\* One lock moves and the others rest
LEMMA OneMoves ==
    ASSUME NEW l \in Locks, Fair!Move(l), \A m \in Locks \ {l} : Rests(m)
    PROVE  Fair!Next
BY RestMoves DEF Fair!Next

\* The queues as a full release of l leaves them, and Block after it
LEMMA ReleaseQueues ==
    ASSUME TypeOK, NEW l \in Locks
    PROVE  /\ \A m \in Locks \ {l} :
                /\ QueueReleased(l)[<<"lock", m>>] = LockQueue(m)
                /\ QueueReleased(l)[<<"shared", m>>] = SharedQueue(m)
           /\ HandsToWriter(l) =>
                /\ QueueReleased(l)[<<"lock", l>>] = Tail(LockQueue(l))
                /\ QueueReleased(l)[<<"shared", l>>] = SharedQueue(l)
           /\ ~HandsToWriter(l) =>
                /\ QueueReleased(l)[<<"lock", l>>] = <<>>
                /\ QueueReleased(l)[<<"shared", l>>] = <<>>
<1>1. queue \in [Queues -> Seq(Threads)]
  BY DEF TypeOK, CoreTypeOK
<1>2. \A m \in Locks : /\ <<"lock", m>> # <<"shared", l>>
                       /\ <<"shared", m>> # <<"lock", l>>
                       /\ m # l => /\ <<"lock", m>> # <<"lock", l>>
                                   /\ <<"shared", m>> # <<"shared", l>>
  OBVIOUS
<1>3. CASE HandsToWriter(l)
  <2>1. QueueReleased(l) = [queue EXCEPT ![<<"lock", l>>] = Tail(LockQueue(l))]
    BY <1>3 DEF QueueReleased
  <2>2. QED
    BY <2>1, <1>1, <1>2, <1>3, QueueNames DEF LockQueue, SharedQueue
<1>4. CASE ~HandsToWriter(l)
  <2>1. QueueReleased(l) = [queue EXCEPT ![<<"shared", l>>] = <<>>]
    BY <1>4 DEF QueueReleased
  <2>2. LockQueue(l) = <<>>
    BY <1>4 DEF HandsToWriter
  <2>3. QED
    BY <2>1, <2>2, <1>1, <1>2, <1>4, QueueNames DEF LockQueue, SharedQueue
<1>5. QED
  BY <1>3, <1>4

\* A full release hands l over, whoever is timed out in the same step
LEMMA ReleaseMoves ==
    ASSUME TypeOK, NEW l \in Locks, NEW sh \in [Threads -> Nat], Release(l, sh),
           \A m \in Locks :
              /\ Fair!GivenUp(QueueReleased(l)[<<"lock", m>>], LockQueue(m)')
              /\ Fair!GivenUp(QueueReleased(l)[<<"shared", m>>], SharedQueue(m)')
    PROVE  Fair!HandOver(l, sh) /\ \A m \in Locks \ {l} : Rests(m)
<1>1. \A m \in Locks \ {l} : Undisturbed(m)
  BY DEF Release, TypeOK, Undisturbed
<1>2. \A m \in Locks \ {l} : Rests(m)
  BY <1>1, ReleaseQueues DEF Rests
<1>3. CASE HandsToWriter(l)
  <2>1. owner'[l] = Head(LockQueue(l)) /\ depth'[l] = 1 /\ shared'[l] = sh
    BY <1>3 DEF Release, NextOwner, TypeOK
  <2>2. /\ LockQueue(l) # <<>>
        /\ Fair!GivenUp(Tail(LockQueue(l)), LockQueue(l)')
        /\ Fair!GivenUp(SharedQueue(l), SharedQueue(l)')
    BY <1>3, ReleaseQueues DEF HandsToWriter
  <2>3. Fair!HandOver(l, sh)
    BY <2>1, <2>2 DEF Fair!HandOver, Fair!HeldAs
  <2>4. QED
    BY <1>2, <2>3
<1>4. CASE ~HandsToWriter(l)
  <2>1. Woken(l) = Fair!ToSet(SharedQueue(l))
    BY <1>4 DEF Woken, ToSet, Fair!ToSet
  <2>2. /\ owner'[l] = NoThread /\ depth'[l] = 0
        /\ shared'[l] = [u \in Threads |-> IF u \in Fair!ToSet(SharedQueue(l)) THEN sh[u] + 1 ELSE sh[u]]
    BY <1>4, <2>1 DEF Release, NextOwner, TypeOK
  <2>3. LockQueue(l) = <<>>
    BY <1>4 DEF HandsToWriter
  <2>4. LockQueue(l)' = <<>> /\ SharedQueue(l)' = <<>>
    <3>1. /\ Fair!GivenUp(<<>>, LockQueue(l)')
          /\ Fair!GivenUp(<<>>, SharedQueue(l)')
      BY <1>4, ReleaseQueues
    <3>2. QED
      BY <3>1, NobodyLeaves
  <2>5. Fair!HandOver(l, sh)
    BY <2>2, <2>3, <2>4 DEF Fair!HandOver, Fair!HeldAs
  <2>6. QED
    BY <1>2, <2>5
<1>5. QED
  BY <1>3, <1>4

-----------------------------------------------------------------------------
(* The lock and condition methods.                                         *)

LEMMA LockStepMoves ==
    ASSUME LockInv, NEW t \in Threads, LockStep(t)
    PROVE  Fair!Next
<1> USE DEF LockInv
<1>1. CASE \E o \in Ops : \E x \in ObjectsOf(o) : Begin(t, o, x)
  BY <1>1, QuietStepMoves DEF Begin, waitVars
<1>2. CASE LockAcquire(t)
  <2>1. PICK l \in Locks : l = obj[t]
    BY <1>2 DEF LockAcquire, Called, TypeOK, CallOK, ConditionOps
  <2>2. /\ MayLock(t, l)
        /\ owner' = [owner EXCEPT ![l] = t] /\ depth' = [depth EXCEPT ![l] = depth[l] + 1]
        /\ UNCHANGED <<shared, queue>>
    BY <1>2, <2>1 DEF LockAcquire, waitVars
  <2>3. Fair!MayWrite(l, t)
    <3>1. shared[l] \in [Threads -> Nat]
      BY DEF TypeOK
    <3>2. QED
      BY <2>2, <3>1 DEF MayLock, Readers, Fair!MayWrite
  <2>4. Fair!Write(l, t)
    BY <2>2, <2>3 DEF TypeOK, Fair!Write, Fair!HeldAs, LockQueue, SharedQueue
  <2>5. \A m \in Locks \ {l} : Rests(m)
    BY <2>2 DEF TypeOK, Rests, Undisturbed, Fair!GivenUp, LockQueue, SharedQueue
  <2>6. QED
    BY <2>4, <2>5, OneMoves DEF Fair!Move
<1>3. CASE SharedAcquire(t)
  <2>1. PICK l \in Locks : l = obj[t]
    BY <1>3 DEF SharedAcquire, Called, TypeOK, CallOK, ConditionOps
  <2>2. /\ owner[l] = NoThread
        /\ shared' = [shared EXCEPT ![l][t] = shared[l][t] + 1]
        /\ UNCHANGED <<owner, depth, queue>>
    BY <1>3, <2>1 DEF SharedAcquire, MayLockShared, waitVars
  <2>3. shared'[l] = [shared[l] EXCEPT ![t] = shared[l][t] + 1]
    BY <2>1, <2>2 DEF TypeOK
  <2>4. Fair!Read(l, t)
    BY <2>2, <2>3 DEF Fair!Read, Fair!HeldAs, LockQueue, SharedQueue
  <2>5. \A m \in Locks \ {l} : Rests(m)
    BY <2>2 DEF TypeOK, Rests, Undisturbed, Fair!GivenUp, LockQueue, SharedQueue
  <2>6. QED
    BY <2>4, <2>5, OneMoves DEF Fair!Move
<1>4. CASE TryRefused(t)
  BY <1>4, QuietStepMoves DEF TryRefused, waitVars
<1>5. CASE LockBlock(t)
  <2>1. PICK l \in Locks : l = obj[t]
    BY <1>5 DEF LockBlock, Called, TypeOK, CallOK, ConditionOps
  <2>2. \A m \in Locks : Undisturbed(m)
    BY <1>5 DEF LockBlock, lockVars, Undisturbed
  <2>3. queue \in [Queues -> Seq(Threads)]
    BY DEF TypeOK, CoreTypeOK
  <2>4. CASE /\ ~MayLock(t, l)
             /\ \E b \in BOOLEAN : Block(t, <<"lock", l>>, queue, blocked, timedOut, b)
    <3> DEFINE k == <<"lock", l>>
    <3>1. /\ Fair!GivenUp(Fair!Queued(queue[k], t), queue'[k])
          /\ \A j \in Queues \ {k} : Fair!GivenUp(queue[j], queue'[j])
      BY <2>3, <2>4, QueueNames, BlockLeaves
    <3>2. \A m \in Locks : /\ m # l => <<"lock", m>> \in Queues \ {k}
                           /\ <<"shared", m>> \in Queues \ {k}
      BY QueueNames
    <3>3. \A m \in Locks \ {l} : Rests(m)
      BY <2>2, <3>1, <3>2 DEF Rests, LockQueue, SharedQueue
    <3>4. /\ Fair!GivenUp(Fair!Queued(LockQueue(l), t), LockQueue(l)')
          /\ Fair!GivenUp(SharedQueue(l), SharedQueue(l)')
      BY <3>1, <3>2 DEF LockQueue, SharedQueue
    <3>5. ~Fair!MayWrite(l, t)
      BY <2>4 DEF MayLock, Readers, Fair!MayWrite
    <3>6. Fair!WaitToWrite(l, t)
      BY <2>2, <3>4, <3>5 DEF Undisturbed, Fair!WaitToWrite, Fair!HeldAs
    <3>7. QED
      BY <3>3, <3>6, OneMoves DEF Fair!Move
  <2>5. CASE /\ ~MayLockShared(l)
             /\ \E b \in BOOLEAN : Block(t, <<"shared", l>>, queue, blocked, timedOut, b)
    <3> DEFINE k == <<"shared", l>>
    <3>1. /\ Fair!GivenUp(Fair!Queued(queue[k], t), queue'[k])
          /\ \A j \in Queues \ {k} : Fair!GivenUp(queue[j], queue'[j])
      BY <2>3, <2>5, QueueNames, BlockLeaves
    <3>2. \A m \in Locks : /\ m # l => <<"shared", m>> \in Queues \ {k}
                           /\ <<"lock", m>> \in Queues \ {k}
      BY QueueNames
    <3>3. \A m \in Locks \ {l} : Rests(m)
      BY <2>2, <3>1, <3>2 DEF Rests, LockQueue, SharedQueue
    <3>4. /\ Fair!GivenUp(Fair!Queued(SharedQueue(l), t), SharedQueue(l)')
          /\ Fair!GivenUp(LockQueue(l), LockQueue(l)')
      BY <3>1, <3>2 DEF LockQueue, SharedQueue
    <3>5. owner[l] # NoThread
      BY <2>5 DEF MayLockShared
    <3>6. Fair!WaitToRead(l, t)
      BY <2>2, <3>4, <3>5 DEF Undisturbed, Fair!WaitToRead, Fair!HeldAs
    <3>7. QED
      BY <3>3, <3>6, OneMoves DEF Fair!Move
  <2>6. QED
    BY <1>5, <2>1, <2>4, <2>5 DEF LockBlock
<1>6. CASE LockWake(t)
  BY <1>6, QuietStepMoves DEF LockWake, waitVars
<1>7. CASE TimedLockWake(t)
  BY <1>7, QuietStepMoves DEF TimedLockWake
<1>8. CASE Unlock(t)
  <2>0. PICK l \in Locks : l = obj[t]
    BY <1>8 DEF Unlock, Called, TypeOK, CallOK, ConditionOps
  <2>1. owner[l] = t
    BY <1>8, <2>0 DEF Unlock
  <2>2. CASE depth[l] > 1
    <3>1. depth' = [depth EXCEPT ![l] = depth[l] - 1] /\ UNCHANGED <<owner, shared, queue>>
      BY <1>8, <2>0, <2>2 DEF Unlock
    <3>2. Fair!EndWrite(l, t)
      BY <2>1, <2>2, <3>1 DEF TypeOK, Fair!EndWrite, Fair!HeldAs, LockQueue, SharedQueue
    <3>3. \A m \in Locks \ {l} : Rests(m)
      BY <3>1 DEF TypeOK, Rests, Undisturbed, Fair!GivenUp, LockQueue, SharedQueue
    <3>4. QED
      BY <3>2, <3>3, OneMoves DEF Fair!Move
  <2>3. CASE depth[l] = 1
    <3>0. PICK sh \in [Threads -> Nat] : sh = shared[l]
      BY DEF TypeOK
    <3>1. Release(l, sh) /\ queue' = QueueReleased(l)
      BY <1>8, <2>0, <2>3, <3>0 DEF Unlock
    <3>2. Fair!HandOver(l, sh) /\ \A m \in Locks \ {l} : Rests(m)
      BY <3>1, ReleaseMoves DEF LockQueue, SharedQueue, Fair!GivenUp
    <3>3. Fair!EndWrite(l, t)
      BY <2>1, <2>3, <3>0, <3>2 DEF Fair!EndWrite
    <3>4. QED
      BY <3>2, <3>3, OneMoves DEF Fair!Move
  <2>4. QED
    BY <1>8, <2>0, <2>2, <2>3 DEF Unlock
<1>9. CASE UnlockShared(t)
  <2>0. PICK l \in Locks : l = obj[t]
    BY <1>9 DEF UnlockShared, Called, TypeOK, CallOK, ConditionOps
  <2>1. shared[l] \in [Threads -> Nat] /\ shared[l][t] > 0
    BY <1>9, <2>0 DEF UnlockShared, HoldsShared, TypeOK
  <2>2. PICK sh \in [Threads -> Nat] : sh = [shared[l] EXCEPT ![t] = shared[l][t] - 1]
    <3>1. shared[l][t] - 1 \in Nat
      BY <2>1
    <3>2. QED
      BY <2>1, <3>1
  <2>3. CASE owner[l] # NoThread \/ \E u \in Threads : sh[u] > 0
    <3>1. shared' = [shared EXCEPT ![l] = sh] /\ UNCHANGED <<owner, depth, queue>>
      <4>1. CASE shared' = [shared EXCEPT ![l] = sh] /\ UNCHANGED <<owner, depth, queue>>
        BY <4>1
      <4>2. CASE owner[l] = NoThread /\ \A u \in Threads : sh[u] = 0
        BY <2>3, <4>2
      <4>3. QED
        BY <1>9, <2>0, <2>2, <4>1, <4>2 DEF UnlockShared
    <3>2. Fair!EndRead(l, t)
      BY <2>1, <2>2, <2>3, <3>1 DEF TypeOK, Fair!EndRead, Fair!HeldAs, LockQueue, SharedQueue
    <3>3. \A m \in Locks \ {l} : Rests(m)
      BY <3>1 DEF TypeOK, Rests, Undisturbed, Fair!GivenUp, LockQueue, SharedQueue
    <3>4. QED
      BY <3>2, <3>3, OneMoves DEF Fair!Move
  <2>4. CASE owner[l] = NoThread /\ \A u \in Threads : sh[u] = 0
    <3>1. Release(l, sh) /\ queue' = QueueReleased(l)
      BY <1>9, <2>0, <2>2, <2>4 DEF UnlockShared
    <3>2. Fair!HandOver(l, sh) /\ \A m \in Locks \ {l} : Rests(m)
      BY <3>1, ReleaseMoves DEF LockQueue, SharedQueue, Fair!GivenUp
    <3>3. Fair!EndRead(l, t)
      BY <2>1, <2>2, <2>4, <3>2 DEF Fair!EndRead
    <3>4. QED
      BY <3>2, <3>3, OneMoves DEF Fair!Move
  <2>5. \A u \in Threads : sh[u] > 0 \/ sh[u] = 0
    OBVIOUS
  <2>6. QED
    BY <2>3, <2>4, <2>5
<1>10. CASE Misuse(t)
  BY <1>10, QuietStepMoves DEF Misuse, waitVars
<1>11. CASE WaitBlock(t)
  <2>1. PICK c \in Conditions, l \in Locks : c = obj[t] /\ l = LockOf[c]
    BY <1>11, LockOfAssumption
       DEF WaitBlock, MayWait, Called, TypeOK, CallOK, LockOps, SharedOps
  <2> DEFINE k == <<"condition", c>>
  <2>0. PICK sh \in [Threads -> Nat] : sh = shared[l]
    BY DEF TypeOK
  <2>2. owner[l] = t /\ depth[l] = 1 /\ Release(l, sh)
    BY <1>11, <2>0, <2>1 DEF WaitBlock, MayWait, Holds
  <2>3. \E b : Block(t, k, QueueReleased(l), blocked \ Woken(l), timedOut \ Woken(l), b)
    BY <1>11, <2>1 DEF WaitBlock
  <2>4. QueueReleased(l) \in [Queues -> Seq(Threads)]
    BY <2>2, ReleaseFacts
  <2>5. \A m \in Locks : <<"lock", m>> \in Queues \ {k} /\ <<"shared", m>> \in Queues \ {k}
    BY QueueNames
  <2>6. k \in Queues
    BY QueueNames
  <2> HIDE DEF k
  <2>7. \A j \in Queues \ {k} : Fair!GivenUp(QueueReleased(l)[j], queue'[j])
    BY <2>3, <2>4, <2>6, BlockLeaves
  <2>8. Fair!HandOver(l, sh) /\ \A m \in Locks \ {l} : Rests(m)
    BY <2>2, <2>5, <2>7, ReleaseMoves DEF LockQueue, SharedQueue
  <2>9. Fair!EndWrite(l, t)
    BY <2>0, <2>2, <2>8 DEF Fair!EndWrite
  <2>10. QED
    BY <2>8, <2>9, OneMoves DEF Fair!Move
<1>12. CASE WaitExpired(t)
  <2>1. PICK l \in Locks : l = LockOf[obj[t]]
    BY <1>12, LockOfAssumption
       DEF WaitExpired, MayWait, Called, TypeOK, CallOK, LockOps, SharedOps
  <2>0. PICK sh \in [Threads -> Nat] : sh = shared[l]
    BY DEF TypeOK
  <2>2. owner[l] = t /\ depth[l] = 1 /\ Release(l, sh) /\ queue' = QueueReleased(l)
    BY <1>12, <2>0, <2>1 DEF WaitExpired, MayWait, Holds
  <2>3. Fair!HandOver(l, sh) /\ \A m \in Locks \ {l} : Rests(m)
    BY <2>2, ReleaseMoves DEF LockQueue, SharedQueue, Fair!GivenUp
  <2>4. Fair!EndWrite(l, t)
    BY <2>0, <2>2, <2>3 DEF Fair!EndWrite
  <2>5. QED
    BY <2>3, <2>4, OneMoves DEF Fair!Move
<1>13. CASE WaitWake(t)
  BY <1>13, QuietStepMoves DEF WaitWake
<1>14. CASE Notify(t)
  <2> DEFINE k == <<"condition", obj[t]>>
  <2>1. \E s : queue' = [queue EXCEPT ![k] = s]
    BY <1>14 DEF Notify
  <2>2. UNCHANGED lockVars /\ queue \in [Queues -> Seq(Threads)]
    BY <1>14 DEF Notify, TypeOK, CoreTypeOK
  <2>3. \A m \in Locks : <<"lock", m>> # k /\ <<"shared", m>> # k
    OBVIOUS
  <2>4. \A m \in Locks : LockQueue(m)' = LockQueue(m) /\ SharedQueue(m)' = SharedQueue(m)
    BY <2>1, <2>2, <2>3, QueueNames DEF LockQueue, SharedQueue
  <2>5. \A m \in Locks : Rests(m)
    BY <2>2, <2>4 DEF Rests, Undisturbed, lockVars, Fair!GivenUp
  <2>6. QED
    BY <2>5, RestMoves DEF Fair!Next
<1>15. QED
  BY <1>1, <1>2, <1>3, <1>4, <1>5, <1>6, <1>7, <1>8, <1>9, <1>10, <1>11,
     <1>12, <1>13, <1>14 DEF LockStep

-----------------------------------------------------------------------------
\* The scheduler's locks are fair reader-writer locks: every behaviour of the token, the wait
\* queues, the timeouts and the failures is one FairLocks allows (CooperativeScheduler)
THEOREM LocksAreFair == Spec => ImplementsFairLocks
<1>1. Init => Fair!Init
  <2> SUFFICES ASSUME Init PROVE Fair!Init
    OBVIOUS
  <2>1. \A l \in Locks : LockQueue(l) = <<>> /\ SharedQueue(l) = <<>>
    BY QueueNames DEF Init, CoreInit, LockQueue, SharedQueue
  <2>2. QED
    BY <2>1 DEF Init, Fair!Init
<1>2. LockInv /\ [Next]_vars => [Fair!Next]_(Fair!fairVars)
  <2> SUFFICES ASSUME LockInv, [Next]_vars PROVE Fair!Next
    OBVIOUS
  <2>1. CASE WaitUntilReady /\ UNCHANGED lockVars
    BY <2>1, QuietStepMoves DEF WaitUntilReady, waitVars
  <2>2. CASE \E t \in Threads : Step(t)
    BY <2>2, CoreStepMoves, LockStepMoves DEF Step, LockInv
  <2>3. CASE UNCHANGED vars
    BY <2>3, QuietStepMoves DEF vars, coreVars, waitVars
  <2>4. QED
    BY <2>1, <2>2, <2>3 DEF Next, Terminated
<1>3. QED
  BY <1>1, <1>2, LockInvHolds, PTL DEF Spec, ImplementsFairLocks, Fair!Spec
=============================================================================
