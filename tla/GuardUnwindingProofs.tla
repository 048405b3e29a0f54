------------------------ MODULE GuardUnwindingProofs ------------------------
(***************************************************************************)
(* Theorems about GuardUnwinding: the guards of the object under test and  *)
(* the scheduler's lock table agree, through hand-overs and unwinding, for *)
(* any number of threads and locks, any depth and any switch budget.       *)
(***************************************************************************)
EXTENDS GuardUnwinding, SchedulerLocksProofs, SequenceTheorems

-----------------------------------------------------------------------------
(* The guards of a thread as a stack.                                      *)

\* How often l is locked by the guards s
CountIn(s, l) == Cardinality({i \in DOMAIN s : s[i] = l})

LEMMA FrontType ==
    ASSUME NEW s \in Seq(Locks), s # <<>>
    PROVE  /\ Front(s) \in Seq(Locks) /\ Last(s) \in Locks
           /\ Len(s) \in Nat /\ Len(s) > 0 /\ Len(Front(s)) = Len(s) - 1
           /\ \A i \in 1 .. Len(s) - 1 : Front(s)[i] = s[i]
           /\ Last(s) = s[Len(s)]
<1>1. Len(s) \in Nat /\ Len(s) > 0 /\ s \in [1 .. Len(s) -> Locks]
  BY EmptySeq, LenProperties, SMT
<1>2. Last(s) = s[Len(s)] /\ Last(s) \in Locks
  BY <1>1 DEF Last
<1>3. /\ 1 \in 1 .. Len(s) + 1 /\ Len(s) - 1 \in 1 - 1 .. Len(s)
      /\ Len(s) - 1 - 1 + 1 = Len(s) - 1
      /\ \A i \in 1 .. Len(s) - 1 : 1 + i - 1 = i
  BY <1>1
<1>4. /\ SubSeq(s, 1, Len(s) - 1) \in Seq(Locks)
      /\ Len(SubSeq(s, 1, Len(s) - 1)) = Len(s) - 1
      /\ \A i \in 1 .. Len(s) - 1 : SubSeq(s, 1, Len(s) - 1)[i] = s[i]
  BY <1>1, SMT
<1>5. QED
  BY <1>1, <1>2, <1>4 DEF Front

LEMMA CountType ==
    ASSUME NEW s \in Seq(Locks), NEW l
    PROVE  /\ IsFiniteSet({i \in DOMAIN s : s[i] = l})
           /\ CountIn(s, l) \in Nat
           /\ CountIn(s, l) = 0 <=> l \notin ToSet(s)
<1> DEFINE P == {i \in DOMAIN s : s[i] = l}
<1>1. DOMAIN s = 1 .. Len(s) /\ Len(s) \in Nat
  OBVIOUS
<1>2. IsFiniteSet(1 .. Len(s))
  BY <1>1, FS_Interval
<1>3. IsFiniteSet(P)
  BY <1>1, <1>2, FS_Subset
<1>4. CountIn(s, l) = Cardinality(P)
  BY DEF CountIn
<1>5. Cardinality(P) \in Nat /\ (Cardinality(P) = 0 <=> P = {})
  BY <1>3, FS_CardinalityType, FS_EmptySet
<1>6. P = {} <=> l \notin ToSet(s)
  BY DEF ToSet
<1>7. QED
  BY <1>3, <1>4, <1>5, <1>6

\* A guard for m more
LEMMA CountAppend ==
    ASSUME NEW s \in Seq(Locks), NEW l, NEW m \in Locks
    PROVE  CountIn(Append(s, m), l) = CountIn(s, l) + (IF l = m THEN 1 ELSE 0)
<1> DEFINE P == {i \in DOMAIN s : s[i] = l}
           Q == {i \in DOMAIN Append(s, m) : Append(s, m)[i] = l}
           n == Len(s) + 1
<1>1. /\ DOMAIN s = 1 .. Len(s) /\ Len(s) \in Nat
      /\ DOMAIN Append(s, m) = 1 .. n
      /\ Append(s, m)[n] = m
      /\ \A i \in 1 .. Len(s) : Append(s, m)[i] = s[i]
  OBVIOUS
<1>2. n \notin P
  BY <1>1
<1>3. IsFiniteSet(P) /\ CountIn(s, l) = Cardinality(P) /\ CountIn(Append(s, m), l) = Cardinality(Q)
  BY CountType DEF CountIn
<1>4. Q = IF l = m THEN P \cup {n} ELSE P
  <2>1. \A i : i \in 1 .. n <=> i \in 1 .. Len(s) \/ i = n
    BY <1>1
  <2>2. \A i : i \in Q <=> (i \in P \/ (i = n /\ l = m))
    BY <1>1, <2>1
  <2>3. QED
    BY <2>2
<1>5. Cardinality(P) \in Nat
  BY <1>3, FS_CardinalityType
<1> HIDE DEF P, Q, n
<1>6. CASE l = m
  <2>1. Q = P \cup {n}
    BY <1>4, <1>6
  <2>2. Cardinality(P \cup {n}) = Cardinality(P) + 1
    BY <1>2, <1>3, FS_AddElement
  <2>3. QED
    BY <1>3, <1>6, <2>1, <2>2
<1>7. CASE l # m
  <2>1. Cardinality(Q) = Cardinality(P)
    BY <1>4, <1>7
  <2>2. QED
    BY <1>3, <1>5, <1>7, <2>1
<1>8. QED
  BY <1>6, <1>7

\* ... and one less
LEMMA CountFront ==
    ASSUME NEW s \in Seq(Locks), s # <<>>, NEW l
    PROVE  CountIn(s, l) = CountIn(Front(s), l) + (IF l = Last(s) THEN 1 ELSE 0)
<1>1. /\ Front(s) \in Seq(Locks) /\ Last(s) \in Locks
      /\ Len(s) \in Nat /\ Len(s) > 0 /\ Len(Front(s)) = Len(s) - 1
      /\ \A i \in 1 .. Len(s) - 1 : Front(s)[i] = s[i]
      /\ Last(s) = s[Len(s)]
  BY FrontType
<1>3. s = Append(Front(s), Last(s))
  <2>1. /\ Append(Front(s), Last(s)) \in Seq(Locks)
        /\ Len(Append(Front(s), Last(s))) = Len(s)
        /\ \A i \in 1 .. Len(s) : Append(Front(s), Last(s))[i] = s[i]
    BY <1>1
  <2>2. QED
    BY <1>1, <2>1, SeqEqual
<1>2. CountIn(Append(Front(s), Last(s)), l) = CountIn(Front(s), l) + (IF l = Last(s) THEN 1 ELSE 0)
  BY <1>1, CountAppend
<1>4. QED
  BY <1>2, <1>3, Zenon

-----------------------------------------------------------------------------
(* Types.                                                                  *)

LEMMA StepFrame ==
    ASSUME TypeOK, NEW t \in Threads, Step(t)
    PROVE  \A u \in Threads \ {t} :
              pc'[u] = pc[u] /\ op'[u] = op[u] /\ obj'[u] = obj[u] /\ failure'[u] = failure[u]
<1> USE DEF Goto, Fail, ResumeAt, Return, Relock, callVars, failVars
<1>1. DOMAIN pc = Threads /\ DOMAIN op = Threads /\ DOMAIN obj = Threads /\ DOMAIN failure = Threads
  BY DEF TypeOK, CoreTypeOK
<1>2. CASE CoreStep(t)
  BY <1>1, <1>2 DEF CoreStep, WorkerReady, ReadyWake, SwitchStay, SwitchTo, SwitchLivelock,
     SwitchWake, CallInterrupted, UserReturn, UserThrow, SwallowException, RecordFailure,
     RequestAbort, BlockedInterrupted, FinishThread
<1>3. CASE LockStep(t)
  <2>1. CASE LockBlock(t) \/ WaitBlock(t)
    BY <1>1, <2>1 DEF LockBlock, WaitBlock, Block
  <2>2. CASE ~LockBlock(t) /\ ~WaitBlock(t)
    BY <1>1, <1>3, <2>2 DEF LockStep, Begin, LockAcquire, SharedAcquire, TryRefused, LockWake,
       TimedLockWake, Unlock, UnlockShared, Misuse, WaitExpired, WaitWake, Notify
  <2>3. QED
    BY <2>1, <2>2
<1>4. QED
  BY <1>2, <1>3 DEF Step

LEMMA StepType ==
    ASSUME TypeOK, NEW t \in Threads, Step(t)
    PROVE  TypeOK'
BY CoreStepType, LockStepType DEF Step

LEMMA UnwindType ==
    ASSUME GuardTypeOK, NEW t \in Threads, Unwind(t) \/ Unwound(t)
    PROVE  TypeOK'
<1>1. /\ TypeOK /\ guards[t] \in Seq(Locks)
      /\ pc \in [Threads -> Locations] /\ DOMAIN op = Threads /\ DOMAIN obj = Threads
  BY DEF GuardTypeOK, TypeOK, CoreTypeOK
<1>2. CASE Unwind(t)
  <2>1. /\ op' = [op EXCEPT ![t] = "unlock"] /\ obj' = [obj EXCEPT ![t] = Last(guards[t])]
        /\ pc' = [pc EXCEPT ![t] = "call"] /\ Last(guards[t]) \in Locks
        /\ UNCHANGED <<tokenVars, handVars, waitVars, granted, failVars, deadlocked,
                       switchCount, lockVars>>
    BY <1>1, <1>2, FrontType DEF Unwind, Goto
  <2>2. CoreTypeOK'
    BY <1>1, <2>1 DEF TypeOK, CoreTypeOK, Locations, tokenVars, handVars, waitVars, failVars
  <2>3. \A u \in Threads : CallOK(u)'
    BY <1>1, <2>1 DEF TypeOK, CallOK, LockOps
  <2>4. QED
    BY <1>1, <2>1, <2>2, <2>3 DEF TypeOK, lockVars
<1>3. CASE Unwound(t)
  <2>1. /\ pc' = [pc EXCEPT ![t] = "failed"]
        /\ UNCHANGED <<tokenVars, handVars, waitVars, callVars, failVars, deadlocked,
                       switchCount, lockVars>>
    BY <1>3 DEF Unwound, Goto
  <2>2. CoreTypeOK'
    BY <1>1, <2>1 DEF TypeOK, CoreTypeOK, Locations, tokenVars, handVars, waitVars, callVars, failVars
  <2>3. \A u \in Threads : CallOK(u)'
    BY <1>1, <2>1 DEF TypeOK, CallOK, callVars
  <2>4. QED
    BY <1>1, <2>1, <2>2, <2>3 DEF TypeOK, lockVars, callVars
<1>4. QED
  BY <1>2, <1>3

\* Closes(t) and Opens(t) say what a step does to the guards of t
LEMMA GuardsType ==
    ASSUME GuardTypeOK, NEW t \in Threads, GuardedStep(t)
    PROVE  GuardTypeOK'
<1>1. TypeOK'
  BY StepType DEF GuardTypeOK, GuardedStep
<1>2. guards[t] \in Seq(Locks)
  BY DEF GuardTypeOK
<1>3. unwinding' = unwinding /\ terminated' \in BOOLEAN
  BY DEF GuardedStep
<1>4. CASE Closes(t)
  <2>1. guards' = [guards EXCEPT ![t] = Front(guards[t])] /\ guards[t] # <<>>
    BY <1>4 DEF GuardedStep, Scoped
  <2>2. QED
    BY <1>1, <1>2, <1>3, <2>1, FrontType DEF GuardTypeOK
<1>5. CASE ~Closes(t) /\ Opens(t)
  <2>1. guards' = [guards EXCEPT ![t] = Append(guards[t], obj[t])]
    <3>1. guards' = IF Closes(t) THEN [guards EXCEPT ![t] = Front(guards[t])]
                    ELSE IF Opens(t) THEN [guards EXCEPT ![t] = Append(guards[t], obj[t])]
                    ELSE guards
      BY DEF GuardedStep
    <3>2. QED
      BY <1>5, <3>1
  <2>2. obj[t] \in Locks
    BY <1>5 DEF Opens, GuardTypeOK, TypeOK, CallOK, ConditionOps
  <2>3. QED
    BY <1>1, <1>2, <1>3, <2>1, <2>2 DEF GuardTypeOK
<1>6. CASE ~Closes(t) /\ ~Opens(t)
  <2>1. guards' = IF Closes(t) THEN [guards EXCEPT ![t] = Front(guards[t])]
                  ELSE IF Opens(t) THEN [guards EXCEPT ![t] = Append(guards[t], obj[t])]
                  ELSE guards
    BY DEF GuardedStep
  <2>2. guards' = guards
    BY <1>6, <2>1
  <2>3. QED
    BY <1>1, <1>3, <2>2 DEF GuardTypeOK
<1>7. QED
  BY <1>4, <1>5, <1>6

\* Every reachable state of an object under lock guards is well typed
THEOREM GuardTypesHold == GuardSpec => []GuardTypeOK
<1>1. GuardInit => GuardTypeOK
  <2> SUFFICES ASSUME GuardInit PROVE GuardTypeOK
    OBVIOUS
  <2>1. TypeOK
    BY InitType DEF GuardInit
  <2>2. guards \in [Threads -> Seq(Locks)]
    BY DEF GuardInit
  <2>3. QED
    BY <2>1, <2>2 DEF GuardInit, GuardTypeOK
<1>2. GuardTypeOK /\ [GuardNext]_<<vars, guardVars>> => GuardTypeOK'
  <2> SUFFICES ASSUME GuardTypeOK, [GuardNext]_<<vars, guardVars>> PROVE GuardTypeOK'
    OBVIOUS
  <2>1. CASE WaitUntilReady /\ UNCHANGED <<lockVars, guardVars>>
    BY <2>1, WaitUntilReadyType DEF GuardTypeOK, guardVars
  <2>2. CASE \E t \in Threads : GuardedStep(t)
    BY <2>2, GuardsType
  <2>3. CASE \E t \in Threads : Unwind(t) \/ Unwound(t)
    <3>1. PICK t \in Threads : Unwind(t) \/ Unwound(t)
      BY <2>3
    <3>2. TypeOK'
      BY <3>1, UnwindType
    <3>3. guards[t] \in Seq(Locks)
      BY DEF GuardTypeOK
    <3>4. CASE Unwind(t)
      BY <3>2, <3>3, <3>4, FrontType DEF Unwind, GuardTypeOK
    <3>5. CASE Unwound(t)
      BY <3>2, <3>5 DEF Unwound, GuardTypeOK
    <3>6. QED
      BY <3>1, <3>4, <3>5
  <2>4. ASSUME UNCHANGED vars, UNCHANGED <<guards, unwinding>>, terminated' \in BOOLEAN
        PROVE  GuardTypeOK'
    <3>1. TypeOK'
      BY <2>4 DEF GuardTypeOK, TypeOK, CoreTypeOK, CallOK, vars, coreVars, lockVars, tokenVars,
         handVars, waitVars, callVars, failVars
    <3>2. QED
      BY <2>4, <3>1 DEF GuardTypeOK
  <2>5. CASE \E t \in Threads : UnwindAborted(t)
    BY <2>4, <2>5 DEF UnwindAborted
  <2>6. CASE UNCHANGED <<vars, guardVars>>
    BY <2>4, <2>6 DEF guardVars, GuardTypeOK
  <2>7. QED
    BY <2>1, <2>2, <2>3, <2>5, <2>6 DEF GuardNext, GuardTerminated
<1>3. QED
  BY <1>1, <1>2, PTL DEF GuardSpec

-----------------------------------------------------------------------------
(* Where the workers are.  The theorems of SchedulerLocks are about Spec,  *)
(* which has no unwinding; their lemmas about one step still apply.        *)

\* What holds of the scheduler whatever calls it
Base == LockInv /\ WaitInv /\ HeldInv

\* An aborted worker never gets back to the object's code, while nobody has
\* found a deadlock
Stopped == ~deadlocked => \A t \in aborted : Idle(t)

\* The call of t belongs to the place it is at
CallFits(t) ==
    /\ op[t] \in {"none", "lock", "unlock"}
    /\ pc[t] \in {"before", "beforeWait", "blocked"} => op[t] = "lock"
    /\ pc[t] \in {"call", "after", "afterWait"} => op[t] # "none"

\* A worker that the scheduler has stopped does not get back to the object's
\* code: a destructor that it still runs ends the process
FailureFits(t) ==
    /\ failure[t] \notin {"none", "exception"} =>
            /\ pc[t] \in {"failed", "recorded", "finishing", "done", "call", "after"}
            /\ pc[t] \in {"call", "after"} => op[t] = "unlock"
    /\ failure[t] = "livelock" => OverBudget
    /\ failure[t] = "deadlock" => deadlocked
    /\ failure[t] = "misuse" => terminated

\* A deadlock leaves nobody in the object's code but destructors
DeadFits(t) ==
    /\ pc[t] \in {"blocked", "failed", "recorded", "call", "after", "finishing", "done"}
    /\ pc[t] \in {"call", "after"} => op[t] = "unlock"
    /\ pc[t] \in {"failed", "recorded"} => failure[t] # "exception"

PlaceOf(t) ==
    /\ CallFits(t)
    /\ FailureFits(t)
    /\ deadlocked => DeadFits(t)
    /\ pc[t] = "recorded" => guards[t] = <<>>

PlacesInv == timed = {} /\ Stopped /\ \A t \in Threads : PlaceOf(t)

\* The steps of an object that only locks and unlocks
LEMMA GuardCalls ==
    ASSUME TypeOK, NEW t \in Threads, CallFits(t), LockStep(t)
    PROVE  \/ \E o \in {"lock", "unlock"} : \E x \in Locks : Begin(t, o, x)
           \/ LockAcquire(t) /\ op[t] = "lock"
           \/ LockBlock(t) /\ op[t] = "lock"
           \/ LockWake(t) /\ op[t] = "lock"
           \/ Unlock(t) /\ op[t] = "unlock"
           \/ Misuse(t) /\ op[t] = "unlock"
<1>1. op[t] \in {"none", "lock", "unlock"}
  BY DEF CallFits
<1>2. CASE \E o \in Ops : \E x \in ObjectsOf(o) : Begin(t, o, x)
  BY <1>2, GuardOpsAssumption DEF ObjectsOf, ConditionOps
<1>3. /\ ~SharedAcquire(t) /\ ~TryRefused(t) /\ ~TimedLockWake(t) /\ ~UnlockShared(t)
      /\ ~WaitBlock(t) /\ ~WaitExpired(t) /\ ~WaitWake(t) /\ ~Notify(t)
  BY <1>1 DEF SharedAcquire, TryRefused, TimedLockWake, UnlockShared, WaitBlock, WaitExpired,
     WaitWake, Notify, MayWait, Called, WokenIn
<1>4. /\ LockAcquire(t) => op[t] = "lock"
      /\ LockBlock(t) => op[t] = "lock"
      /\ LockWake(t) => op[t] = "lock"
      /\ Unlock(t) => op[t] = "unlock"
      /\ Misuse(t) => op[t] = "unlock"
  BY <1>1 DEF LockAcquire, LockBlock, LockWake, Unlock, Misuse, Called, WokenIn
<1>5. QED
  BY <1>2, <1>3, <1>4 DEF LockStep

LEMMA StepBase ==
    ASSUME Base, NEW t \in Threads, Step(t)
    PROVE  Base'
<1>1. TypeOK /\ TypeOK'
  BY StepType DEF Base, LockInv
<1>2. LockInv'
  BY <1>1, CoreStepLocks, LockStepLocks DEF Base, LockInv, Step
<1>3. TokenInv'
  BY <1>1, CoreStepToken, LockStepToken DEF Base, WaitInv, AliveInv, Step, TypeOK
<1>4. AliveInv'
  BY <1>1, <1>3, CoreStepAlive, LockStepAlive DEF Base, WaitInv, Step
<1>5. WaitInv'
  BY <1>1, <1>4, CoreStepWait, LockStepWait DEF Base, Step
<1>6. HeldInv'
  BY <1>1, CoreStepHeld, LockStepHeld DEF Base, LockInv, Step
<1>7. QED
  BY <1>2, <1>5, <1>6 DEF Base

\* An unwinding worker goes from one guard to the next
LEMMA UnwindBase ==
    ASSUME GuardTypeOK, Base, Stopped, NEW t \in Threads, Unwind(t) \/ Unwound(t)
    PROVE  Base'
<1> USE DEF Goto
<1>1. /\ TypeOK /\ TypeOK' /\ LockInv /\ WaitInv /\ AliveInv /\ TokenInv /\ HeldInv
      /\ pc \in [Threads -> Locations] /\ DOMAIN op = Threads /\ DOMAIN obj = Threads
      /\ queue \in [Queues -> Seq(Threads)]
  BY UnwindType DEF Base, LockInv, WaitInv, AliveInv, TypeOK, CoreTypeOK
<1>2. /\ UNCHANGED <<tokenVars, handVars, waitVars, granted, failVars, deadlocked,
                     switchCount, lockVars>>
      /\ pc[t] \in {"failed", "user"} /\ pc'[t] \in {"call", "failed"}
      /\ pc' = [pc EXCEPT ![t] = pc'[t]]
      /\ \A u \in Threads \ {t} : pc'[u] = pc[u] /\ op'[u] = op[u] /\ obj'[u] = obj[u]
  BY <1>1 DEF Unwind, Unwound, callVars
<1>3. UNCHANGED <<ready, finished, aborted, started, abortRequested, scheduled, asleep, queue,
                  blocked, timed, timedOut>>
  BY <1>2 DEF tokenVars, handVars, waitVars
<1>4. ~deadlocked => t \notin aborted /\ t \notin blocked /\ scheduled = t
  BY <1>1, <1>2, CallerNotBlocked DEF Stopped, Idle, InControl, Running
<1>5. LockInv'
  BY <1>1, <1>2, <1>3, QuietStep DEF LockInv, LockQueue, SharedQueue
<1>6. TokenInv'
  <2>1. CoreTypeOK'
    BY <1>1 DEF TypeOK
  <2>2. ~deadlocked' /\ InControl(t)' => scheduled' = t
    BY <1>2, <1>3, <1>4
  <2>3. t \in finished' <=> pc'[t] = "done"
    BY <1>1, <1>2, <1>3 DEF TokenInv
  <2>4. QED
    BY <1>1, <1>2, <1>3, <2>1, <2>2, <2>3, TokenStep
<1>7. AliveInv'
  BY <1>1, <1>2, <1>3, <1>6, AliveStays
<1>8. WaitInv'
  <2>1. QueuedOnce(queue', blocked')
    BY <1>1, <1>3 DEF WaitInv
  <2>2. BlockedWait'
    BY <1>1, <1>2, <1>3, <1>4 DEF WaitInv, BlockedWait, TypeOK, CoreTypeOK
  <2>3. NoMissedNotify'
    <3>1. Goto(t, pc'[t]) /\ ~Waiting(t)
      BY <1>2 DEF Waiting
    <3>2. CoreTypeOK /\ NoMissedNotify
      BY <1>1 DEF TypeOK, WaitInv
    <3>3. PICK l : l = pc'[t]
      OBVIOUS
    <3>4. QED
      BY <1>2, <1>3, <3>1, <3>2, <3>3, QuietSleepers DEF handVars
  <2>4. QED
    BY <1>7, <2>1, <2>2, <2>3 DEF WaitInv
<1>9. HeldInv'
  <2>1. \A u \in Threads \ {t} : /\ granted'[u] = granted[u] /\ Keeps(u)
                                 /\ GivenNothing(u) /\ TimedOutOf(u, blocked, timedOut)
    BY <1>2, <1>3 DEF Keeps, GivenNothing, Holds, HoldsShared, lockVars, TimedOutOf
  <2>2. ~deadlocked' => \A k \in Queues : \A u \in ToSet(queue'[k]) : u \in ToSet(queue[k]) /\ u # t
    <3>1. ASSUME ~deadlocked, NEW k \in Queues, t \in ToSet(queue[k]) PROVE t \in blocked
      <4>1. \E i \in DOMAIN queue[k] : queue[k][i] = t
        BY <3>1 DEF ToSet
      <4>2. QED
        BY <1>1, <4>1 DEF WaitInv, QueuedOnce
    <3>2. QED
      BY <1>2, <1>3, <1>4, <3>1
  <2>3. GrantedOf(t)' /\ pc'[t] # "blocked"
    BY <1>2 DEF GrantedOf
  <2>4. queue' \in [Queues -> Seq(Threads)] /\ deadlocked' = deadlocked
    BY <1>1, <1>2, <1>3
  <2>5. QED
    BY <1>1, <1>2, <2>1, <2>2, <2>3, <2>4, HeldStep
<1>10. QED
  BY <1>5, <1>8, <1>9 DEF Base

\* When a deadlock is found the others are blocked or done
LEMMA FoundDeadlock ==
    ASSUME Base, PlacesInv, NEW t \in Threads, Step(t), ~deadlocked, deadlocked'
    PROVE  /\ \A u \in Threads \ {t} : pc[u] \in {"blocked", "done"}
           /\ pc'[t] = "done" \/ (pc'[t] = "failed" /\ failure'[t] = "deadlock")
<1>0. /\ WaitInv /\ AliveInv /\ TokenInv /\ CoreTypeOK /\ CallFits(t) /\ TypeOK
      /\ pc \in [Threads -> Locations] /\ DOMAIN failure = Threads
  BY DEF Base, WaitInv, AliveInv, TokenInv, CoreTypeOK, PlacesInv, PlaceOf, LockInv
<1>1. CASE CoreStep(t)
  <2>1. FinishThread(t)
    BY <1>1 DEF CoreStep, WorkerReady, ReadyWake, SwitchStay, SwitchTo, SwitchLivelock, SwitchWake,
           CallInterrupted, UserReturn, UserThrow, SwallowException, RecordFailure,
           RequestAbort, BlockedInterrupted
  <2>2. /\ pc' = [pc EXCEPT ![t] = "done"] /\ finished' = finished \cup {t}
        /\ scheduled = t /\ ~CanHandOff(finished', blocked, queue, timed)
        /\ deadlocked' = (deadlocked \/ (~abortRequested /\ ready \ finished' # {}))
    BY <2>1 DEF FinishThread, Goto
  <2>3. ~abortRequested
    BY <2>2, Zenon
  <2>4. Active(finished \cup {t}, blocked) = {}
    BY <2>2, <2>3 DEF CanHandOff
  <2>5. \A u \in Threads \ {t} : pc[u] \in {"blocked", "done"}
    <3>1. finished \cup {t} \subseteq finished \cup {t} /\ blocked \subseteq blocked \cup {t}
      OBVIOUS
    <3>2. QED
      BY <1>0, <2>2, <2>3, <2>4, <3>1, DeadlockFound
  <2>6. QED
    BY <1>0, <2>2, <2>5
<1>2. CASE LockStep(t)
  <2>1. LockBlock(t) /\ op[t] = "lock"
    BY <1>0, <1>2, GuardCalls DEF Begin, LockAcquire, LockWake, Unlock, Misuse
  <2>2. /\ pc[t] = "call" /\ t \notin aborted
        /\ Block(t, <<"lock", obj[t]>>, queue, blocked, timedOut, FALSE)
    BY <2>1 DEF LockBlock, Called
  <2>3. scheduled = t /\ ~abortRequested
    BY <1>0, <2>2, CallerNotBlocked DEF InControl, Running
  <2>4. /\ Fail(t, "deadlock") /\ Active(finished, blocked \cup {t}) = {}
    BY <2>2, <2>3 DEF Block, CanHandOff
  <2>5. \A u \in Threads \ {t} : pc[u] \in {"blocked", "done"}
    <3>1. finished \subseteq finished \cup {t} /\ blocked \cup {t} \subseteq blocked \cup {t}
      OBVIOUS
    <3>2. QED
      BY <1>0, <2>3, <2>4, <3>1, DeadlockFound
  <2>6. QED
    BY <1>0, <2>4, <2>5 DEF Fail, Goto
<1>3. QED
  BY <1>1, <1>2 DEF Step

\* Deadlocks, spent budgets and abort requests stay
LEMMA StepKeeps ==
    ASSUME Base, PlacesInv, NEW t \in Threads, Step(t)
    PROVE  /\ deadlocked => deadlocked'
           /\ OverBudget => OverBudget'
           /\ timed' = {}
           /\ aborted' = aborted \/ RequestAbort(t)
<1>0. /\ timed = {} /\ CallFits(t) /\ TypeOK
      /\ switchCount \in 0 .. Budget + 1 /\ Budget \in Nat
      /\ deadlocked \in BOOLEAN
  BY BudgetAssumption DEF PlacesInv, PlaceOf, Base, LockInv, TypeOK, CoreTypeOK
<1> USE DEF tokenVars, waitVars
<1>1. CASE CoreStep(t)
  <2>1. CASE FinishThread(t)
    <3>1. UNCHANGED <<timed, aborted, switchCount>>
      BY <2>1 DEF FinishThread
    <3>2. deadlocked' = deadlocked \/ deadlocked' = (deadlocked \/ (~abortRequested /\ ready \ finished' # {}))
      BY <2>1 DEF FinishThread
    <3>3. deadlocked => deadlocked'
      BY <3>2, Zenon
    <3>4. (OverBudget => OverBudget') /\ timed' = {} /\ aborted' = aborted
      BY <1>0, <3>1 DEF OverBudget
    <3>5. QED
      BY <3>3, <3>4
  <2>2. CASE ~FinishThread(t)
    <3>1. /\ deadlocked' = deadlocked /\ timed' = timed
          /\ aborted' = aborted \/ RequestAbort(t)
      BY <1>1, <2>2 DEF CoreStep, WorkerReady, ReadyWake, SwitchStay, SwitchTo, SwitchLivelock,
         SwitchWake, CallInterrupted, UserReturn, UserThrow, SwallowException, RecordFailure,
         RequestAbort, BlockedInterrupted
    <3>2. \/ switchCount' = switchCount
          \/ switchCount' = switchCount + 1
          \/ switchCount' = Budget + 1
      BY <1>1, <2>2 DEF CoreStep, WorkerReady, ReadyWake, SwitchStay, SwitchTo, SwitchLivelock,
         SwitchWake, CallInterrupted, UserReturn, UserThrow, SwallowException, RecordFailure,
         RequestAbort, BlockedInterrupted
    <3>3. QED
      BY <1>0, <3>1, <3>2 DEF OverBudget
  <2>3. QED
    BY <2>1, <2>2
<1>2. CASE LockStep(t)
  <2>1. CASE LockBlock(t)
    <3>1. Block(t, <<"lock", obj[t]>>, queue, blocked, timedOut, FALSE)
      BY <1>0, <2>1 DEF CallFits, LockBlock, Called
    <3>2. QED
      BY <1>0, <3>1 DEF Block, OverBudget
  <2>2. CASE ~LockBlock(t)
    <3>1. UNCHANGED <<deadlocked, timed, aborted, switchCount>>
      BY <1>0, <1>2, <2>2, GuardCalls DEF Begin, LockAcquire, LockWake, Unlock, Misuse
    <3>2. QED
      BY <1>0, <3>1 DEF OverBudget
  <2>3. QED
    BY <2>1, <2>2
<1>3. QED
  BY <1>1, <1>2 DEF Step

LEMMA StepStopped ==
    ASSUME Base, PlacesInv, ExceptionResults = {}, NEW t \in Threads, Step(t)
    PROVE  Stopped'
<1> SUFFICES ASSUME ~deadlocked', NEW u \in aborted' PROVE Idle(u)'
  BY DEF Stopped
<1>0. /\ TypeOK /\ TypeOK' /\ CallFits(t) /\ TokenInv /\ u \in Threads
      /\ pc \in [Threads -> Locations]
  BY StepType DEF Base, LockInv, PlacesInv, PlaceOf, WaitInv, AliveInv, TypeOK, CoreTypeOK
<1>1. ~deadlocked /\ Stopped
  BY StepKeeps DEF PlacesInv
<1>2. CASE u # t
  <2>1. pc'[u] = pc[u]
    BY <1>0, <1>2, StepFrame
  <2>2. CASE u \in aborted
    BY <1>1, <2>1, <2>2 DEF Stopped, Idle
  <2>3. CASE u \notin aborted
    <3>1. RequestAbort(t)
      BY <2>3, StepKeeps
    <3>2. t \notin aborted /\ pc[t] = "recorded"
      BY <1>1, <3>1 DEF Stopped, Idle, RequestAbort
    <3>3. scheduled = t
      BY <1>0, <1>1, <3>2 DEF TokenInv, TokenExclusive, InControl
    <3>4. ~InControl(u)
      BY <1>0, <1>1, <1>2, <3>3 DEF TokenInv, TokenExclusive
    <3>5. QED
      BY <1>0, <2>1, <2>3, <3>4 DEF Idle, InControl, Running, Locations
  <2>4. QED
    BY <2>2, <2>3
<1>3. CASE u = t
  <2>1. t \in aborted /\ Idle(t)
    <3>1. RequestAbort(t) => aborted' = aborted \cup Peers(t)
      BY DEF RequestAbort
    <3>2. t \in aborted
      BY <1>3, <3>1, StepKeeps DEF Peers
    <3>3. QED
      BY <1>1, <3>2 DEF Stopped
  <2>2. CASE CoreStep(t)
    BY <1>0, <1>1, <1>3, <2>1, <2>2 DEF CoreStep, WorkerReady, ReadyWake, SwitchStay, SwitchTo,
       SwitchLivelock, SwitchWake, CallInterrupted, UserReturn, UserThrow, SwallowException,
       RecordFailure, RequestAbort, BlockedInterrupted, FinishThread, AtSwitchPoint, ResumeAt,
       Goto, Idle
  <2>3. ~LockStep(t)
    BY <1>0, <2>1, GuardCalls DEF Begin, LockAcquire, LockBlock, LockWake, Unlock, Misuse,
       Called, WokenIn, Idle
  <2>4. QED
    BY <2>2, <2>3 DEF Step
<1>4. QED
  BY <1>2, <1>3

\* The other workers stay where they are
LEMMA OthersPlaces ==
    ASSUME Base, PlacesInv, NEW t \in Threads, Step(t),
           ~terminated, \A u \in Threads \ {t} : guards'[u] = guards[u],
           NEW u \in Threads \ {t}
    PROVE  PlaceOf(u)'
<1>1. /\ pc'[u] = pc[u] /\ op'[u] = op[u] /\ failure'[u] = failure[u] /\ guards'[u] = guards[u]
      /\ PlaceOf(u)
      /\ deadlocked => deadlocked'
      /\ OverBudget => OverBudget'
  BY StepFrame, StepKeeps DEF Base, LockInv, PlacesInv
<1>2. ASSUME ~deadlocked, deadlocked' PROVE pc[u] \in {"blocked", "done"}
  BY <1>2, FoundDeadlock
<1>3. CallFits(u)'
  BY <1>1 DEF PlaceOf, CallFits
<1>4. FailureFits(u)'
  BY <1>1 DEF PlaceOf, FailureFits
<1>5. deadlocked' => DeadFits(u)'
  BY <1>1, <1>2 DEF PlaceOf, DeadFits
<1>6. QED
  BY <1>1, <1>3, <1>4, <1>5 DEF PlaceOf

LEMMA OwnCall ==
    ASSUME TypeOK, NEW t \in Threads, CallFits(t), Step(t)
    PROVE  CallFits(t)'
<1> USE DEF Goto, Fail, ResumeAt, Return, callVars
<1>0. pc \in [Threads -> Locations] /\ DOMAIN op = Threads
  BY DEF TypeOK, CoreTypeOK
<1>1. CASE CoreStep(t)
  <2>1. op'[t] = op[t]
    BY <1>1 DEF CoreStep, WorkerReady, ReadyWake, SwitchStay, SwitchTo, SwitchLivelock, SwitchWake,
       CallInterrupted, UserReturn, UserThrow, SwallowException, RecordFailure, RequestAbort,
       BlockedInterrupted, FinishThread
  <2>2. \/ pc'[t] \in {"ready", "user", "failed", "finishing", "recorded", "done"}
        \/ pc[t] = "before" /\ pc'[t] \in {"call", "beforeWait"}
        \/ pc[t] = "beforeWait" /\ pc'[t] = "call"
        \/ pc[t] = "after" /\ pc'[t] = "afterWait"
    BY <1>0, <1>1 DEF CoreStep, WorkerReady, ReadyWake, SwitchStay, SwitchTo, SwitchLivelock,
       SwitchWake, CallInterrupted, UserReturn, UserThrow, SwallowException, RecordFailure,
       RequestAbort, BlockedInterrupted, FinishThread, AtSwitchPoint, AfterSwitch
  <2>3. QED
    BY <2>1, <2>2 DEF CallFits
<1>2. CASE LockStep(t)
  <2>1. CASE \E o \in {"lock", "unlock"} : \E x \in Locks : Begin(t, o, x)
    BY <1>0, <2>1 DEF Begin, CallFits
  <2>2. CASE LockBlock(t) /\ op[t] = "lock"
    <3>1. op'[t] = "lock" /\ pc'[t] \in {"blocked", "failed"}
      BY <1>0, <2>2 DEF LockBlock, Block, Called
    <3>2. QED
      BY <3>1 DEF CallFits
  <2>3. CASE \/ LockAcquire(t) /\ op[t] = "lock"
             \/ LockWake(t) /\ op[t] = "lock"
             \/ Unlock(t) /\ op[t] = "unlock"
             \/ Misuse(t) /\ op[t] = "unlock"
    <3>1. op'[t] = op[t] /\ op[t] \in {"lock", "unlock"} /\ pc'[t] \in {"after", "call", "failed"}
      BY <1>0, <2>3 DEF LockAcquire, LockWake, Unlock, Misuse
    <3>2. QED
      BY <3>1 DEF CallFits
  <2>4. QED
    BY <1>2, <2>1, <2>2, <2>3, GuardCalls
<1>3. QED
  BY <1>1, <1>2 DEF Step

\* How a step of t may fail
LEMMA OwnFailure ==
    ASSUME Base, PlacesInv, ExceptionResults = {}, ~terminated, NEW t \in Threads, GuardedStep(t)
    PROVE  FailureFits(t)'
<1> USE DEF Goto, Fail, ResumeAt, Return, callVars, failVars
<1>0. /\ TypeOK /\ CallFits(t) /\ FailureFits(t) /\ Step(t)
      /\ pc \in [Threads -> Locations] /\ DOMAIN op = Threads /\ failure \in [Threads -> Failures]
      /\ Budget \in Nat
  BY BudgetAssumption DEF Base, LockInv, TypeOK, CoreTypeOK, PlacesInv, PlaceOf, GuardedStep
<1>1. (deadlocked => deadlocked') /\ (OverBudget => OverBudget')
  BY <1>0, StepKeeps
<1>2. CASE SwitchLivelock(t)
  BY <1>0, <1>2 DEF SwitchLivelock, FailureFits, OverBudget
<1>3. CASE SwitchWake(t) \/ CallInterrupted(t) \/ BlockedInterrupted(t)
  <2>1. CASE t \in aborted
    <3>1. pc'[t] = "finishing" /\ failure'[t] = failure[t]
      BY <1>0, <1>3, <2>1 DEF SwitchWake, CallInterrupted, BlockedInterrupted
    <3>2. QED
      BY <1>0, <1>1, <3>1 DEF FailureFits
  <2>2. CASE t \notin aborted /\ deadlocked
    <3>1. pc'[t] = "failed" /\ failure'[t] = "deadlock"
      BY <1>0, <1>3, <2>2 DEF SwitchWake, CallInterrupted, BlockedInterrupted
    <3>2. QED
      BY <1>1, <2>2, <3>1 DEF FailureFits
  <2>3. CASE t \notin aborted /\ ~deadlocked
    <3>1. SwitchWake(t) /\ failure'[t] = failure[t]
      BY <1>3, <2>3 DEF SwitchWake, CallInterrupted, BlockedInterrupted
    <3>2. failure[t] \in {"none", "exception"}
      BY <1>0, <3>1 DEF SwitchWake, FailureFits
    <3>3. QED
      BY <3>1, <3>2 DEF FailureFits
  <2>4. QED
    BY <2>1, <2>2, <2>3
<1>4. CASE UserThrow(t)
  BY <1>0, <1>4 DEF UserThrow, FailureFits
<1>5. CASE LockBlock(t)
  <2>1. pc[t] = "call" /\ op[t] = "lock"
    BY <1>0, <1>5 DEF LockBlock, Called, CallFits
  <2>2. failure[t] \in {"none", "exception"}
    BY <1>0, <2>1 DEF FailureFits
  <2>3. Block(t, <<"lock", obj[t]>>, queue, blocked, timedOut, FALSE)
    BY <1>5, <2>1 DEF LockBlock, Called
  <2>4. \/ failure'[t] = failure[t]
        \/ failure'[t] = "deadlock" /\ deadlocked' /\ pc'[t] = "failed"
    BY <1>0, <2>3 DEF Block
  <2>5. QED
    BY <2>2, <2>4 DEF FailureFits
<1>6. CASE Misuse(t)
  <2>1. pc[t] = "call" /\ op[t] = "unlock" /\ pc'[t] = "failed" /\ failure'[t] = "misuse"
    BY <1>0, <1>6 DEF Misuse, Called, CallFits
  <2>2. terminated'
    BY <2>1 DEF GuardedStep, InDestructor
  <2>3. QED
    BY <2>1, <2>2 DEF FailureFits
<1>7. CASE CoreStep(t) /\ ~SwitchLivelock(t) /\ ~SwitchWake(t) /\ ~CallInterrupted(t)
           /\ ~BlockedInterrupted(t) /\ ~UserThrow(t)
  <2>1. failure' = failure
    BY <1>7 DEF CoreStep, WorkerReady, ReadyWake, SwitchStay, SwitchTo, UserReturn,
       SwallowException, RecordFailure, RequestAbort, FinishThread
  <2>2. CASE failure[t] \in {"none", "exception"}
    BY <2>1, <2>2 DEF FailureFits
  <2>3. CASE failure[t] \notin {"none", "exception"}
    <3>1. deadlocked \/ OverBudget
      BY <1>0, <2>3 DEF FailureFits, Failures
    <3>2. ~SwitchStay(t) /\ \A c \in Threads : ~SwitchTo(t, c)
      BY <1>0, <3>1 DEF SwitchStay, SwitchTo, AtSwitchPoint, OverBudget, TypeOK, CoreTypeOK
    <3>3. pc'[t] \in {"recorded", "finishing", "done"}
      BY <1>0, <1>7, <2>3, <3>2 DEF CoreStep, WorkerReady, ReadyWake, UserReturn,
         SwallowException, RecordFailure, RequestAbort, FinishThread, FailureFits
    <3>4. QED
      BY <1>0, <1>1, <2>1, <2>3, <3>3 DEF FailureFits
  <2>4. QED
    BY <2>2, <2>3
<1>8. CASE LockStep(t) /\ ~LockBlock(t) /\ ~Misuse(t)
  <2>1. failure' = failure
    BY <1>0, <1>8, GuardCalls DEF Begin, LockAcquire, LockWake, Unlock
  <2>2. CASE failure[t] \in {"none", "exception"}
    BY <2>1, <2>2 DEF FailureFits
  <2>3. CASE failure[t] \notin {"none", "exception"}
    <3>1. pc[t] # "user" /\ pc[t] # "blocked" /\ (pc[t] = "call" => op[t] = "unlock")
      BY <1>0, <2>3 DEF FailureFits
    <3>2. Unlock(t) /\ op[t] = "unlock"
      BY <1>0, <1>8, <3>1, GuardCalls DEF Begin, LockAcquire, LockWake, Called, WokenIn
    <3>3. pc'[t] = "after" /\ op'[t] = "unlock"
      BY <1>0, <3>2 DEF Unlock
    <3>4. QED
      BY <1>0, <1>1, <2>1, <3>3 DEF FailureFits
  <2>4. QED
    BY <2>2, <2>3
<1>9. QED
  BY <1>0, <1>2, <1>3, <1>4, <1>5, <1>6, <1>7, <1>8 DEF Step

\* After a deadlock every worker that still moves is on its way out
LEMMA OwnDead ==
    ASSUME Base, PlacesInv, ExceptionResults = {}, NEW t \in Threads, Step(t), deadlocked'
    PROVE  DeadFits(t)'
<1> USE DEF Goto, Fail, ResumeAt, Return, callVars, failVars
<1>0. /\ TypeOK /\ CallFits(t)
      /\ pc \in [Threads -> Locations] /\ DOMAIN op = Threads /\ DOMAIN failure = Threads
  BY DEF Base, LockInv, TypeOK, CoreTypeOK, PlacesInv, PlaceOf
<1>1. CASE ~deadlocked
  BY <1>1, FoundDeadlock DEF DeadFits
<1>2. CASE deadlocked
  <2>1. DeadFits(t)
    BY <1>2 DEF PlacesInv, PlaceOf
  <2>2. CASE CoreStep(t)
    <3>1. \/ BlockedInterrupted(t) \/ CallInterrupted(t)
          \/ RecordFailure(t) \/ RequestAbort(t) \/ FinishThread(t)
      BY <1>2, <2>1, <2>2 DEF CoreStep, WorkerReady, ReadyWake, SwitchStay, SwitchTo, SwitchLivelock,
         SwitchWake, UserReturn, UserThrow, SwallowException, AtSwitchPoint, DeadFits
    <3>2. \/ pc'[t] \in {"finishing", "done"}
          \/ pc'[t] = "failed" /\ failure'[t] = "deadlock"
          \/ pc'[t] = "recorded" /\ pc[t] = "failed" /\ failure'[t] = failure[t]
      BY <1>0, <1>2, <3>1 DEF BlockedInterrupted, CallInterrupted, RecordFailure, RequestAbort,
         FinishThread
    <3>3. QED
      BY <2>1, <3>2 DEF DeadFits
  <2>3. CASE LockStep(t)
    <3>1. pc[t] # "user" /\ (pc[t] = "call" => op[t] = "unlock")
      BY <2>1 DEF DeadFits
    <3>2. (Unlock(t) \/ Misuse(t)) /\ op[t] = "unlock"
      BY <1>0, <1>2, <2>3, <3>1, GuardCalls DEF Begin, LockAcquire, LockBlock, LockWake, Called, WokenIn
    <3>3. op'[t] = "unlock" /\ (pc'[t] = "after" \/ (pc'[t] = "failed" /\ failure'[t] = "misuse"))
      BY <1>0, <3>2 DEF Unlock, Misuse
    <3>4. QED
      BY <3>3 DEF DeadFits
  <2>4. QED
    BY <2>2, <2>3 DEF Step
<1>3. QED
  BY <1>1, <1>2

\* What a step of t makes of its guards
LEMMA OwnGuards ==
    ASSUME GuardTypeOK, NEW t \in Threads, GuardedStep(t)
    PROVE  /\ \A u \in Threads \ {t} : guards'[u] = guards[u]
           /\ Closes(t) => guards'[t] = Front(guards[t]) /\ guards[t] # <<>>
           /\ ~Closes(t) /\ Opens(t) => guards'[t] = Append(guards[t], obj[t])
           /\ ~Closes(t) /\ ~Opens(t) => guards'[t] = guards[t]
<1>1. guards \in [Threads -> Seq(Locks)]
  BY DEF GuardTypeOK
<1>2. guards' = IF Closes(t) THEN [guards EXCEPT ![t] = Front(guards[t])]
                ELSE IF Opens(t) THEN [guards EXCEPT ![t] = Append(guards[t], obj[t])]
                ELSE guards
  BY DEF GuardedStep
<1>3. Closes(t) => guards[t] # <<>>
  BY DEF GuardedStep, Scoped
<1>4. QED
  BY <1>1, <1>2, <1>3

LEMMA StepPlaces ==
    ASSUME GuardTypeOK, Base, PlacesInv, ExceptionResults = {}, ~terminated,
           NEW t \in Threads, GuardedStep(t)
    PROVE  PlacesInv'
<1>0. /\ TypeOK /\ Step(t) /\ PlaceOf(t) /\ pc \in [Threads -> Locations]
  BY DEF GuardTypeOK, PlacesInv, GuardedStep, TypeOK, CoreTypeOK
<1>1. timed' = {} /\ Stopped'
  BY <1>0, StepKeeps, StepStopped
<1>2. ASSUME NEW u \in Threads \ {t} PROVE PlaceOf(u)'
  BY <1>0, OwnGuards, OthersPlaces
<1>3. pc'[t] = "recorded" => guards'[t] = <<>>
  <2> SUFFICES ASSUME pc'[t] = "recorded" PROVE guards'[t] = <<>>
    OBVIOUS
  <2>1. pc[t] = "failed"
    <3>1. CASE CoreStep(t)
      BY <1>0, <3>1 DEF CoreStep, WorkerReady, ReadyWake, SwitchStay, SwitchTo, SwitchLivelock,
         SwitchWake, CallInterrupted, UserReturn, UserThrow, SwallowException, RecordFailure,
         RequestAbort, BlockedInterrupted, FinishThread, Goto, Fail, ResumeAt, AfterSwitch
    <3>2. ~LockStep(t)
      BY <1>0, GuardCalls DEF PlaceOf, Begin, LockAcquire, LockBlock, LockWake, Unlock, Misuse,
         Block, Goto, Fail, Return
    <3>3. QED
      BY <1>0, <3>1, <3>2 DEF Step
  <2>2. guards[t] = <<>> /\ ~Closes(t) /\ ~Opens(t)
    BY <2>1 DEF GuardedStep, Scoped, Leaves, Closes, Opens
  <2>3. QED
    BY <2>2, OwnGuards
<1>4. PlaceOf(t)'
  BY <1>0, <1>3, OwnCall, OwnFailure, OwnDead DEF PlaceOf
<1>5. QED
  BY <1>1, <1>2, <1>4 DEF PlacesInv

LEMMA UnwindPlaces ==
    ASSUME GuardTypeOK, Base, PlacesInv, ~terminated, NEW t \in Threads, Unwind(t) \/ Unwound(t)
    PROVE  PlacesInv'
<1> USE DEF Goto
<1>0. /\ TypeOK /\ guards \in [Threads -> Seq(Locks)]
      /\ pc \in [Threads -> Locations] /\ DOMAIN op = Threads /\ DOMAIN obj = Threads
      /\ PlaceOf(t) /\ Stopped
  BY DEF GuardTypeOK, TypeOK, CoreTypeOK, PlacesInv
<1>1. /\ UNCHANGED <<tokenVars, waitVars, failVars, deadlocked, switchCount, terminated>>
      /\ pc[t] \in {"failed", "user"}
      /\ \A u \in Threads \ {t} : pc'[u] = pc[u] /\ op'[u] = op[u] /\ guards'[u] = guards[u]
      /\ \/ pc[t] = "failed" /\ pc'[t] = "call" /\ op'[t] = "unlock"
         \/ pc[t] = "user" /\ pc'[t] = "failed" /\ op'[t] = op[t]
  BY <1>0 DEF Unwind, Unwound, callVars
<1>2. timed' = {} /\ aborted' = aborted /\ failure' = failure /\ (OverBudget' <=> OverBudget)
  BY <1>1 DEF PlacesInv, waitVars, tokenVars, failVars, OverBudget
<1>3. Stopped'
  <2>1. ~deadlocked => t \notin aborted
    BY <1>0, <1>1 DEF Stopped, Idle
  <2>2. QED
    BY <1>0, <1>1, <1>2, <2>1 DEF Stopped, Idle, TypeOK, CoreTypeOK
<1>4. ASSUME NEW u \in Threads \ {t} PROVE PlaceOf(u)'
  <2>1. PlaceOf(u)
    BY DEF PlacesInv
  <2>2. QED
    BY <1>1, <1>2, <2>1 DEF PlaceOf, CallFits, FailureFits, DeadFits
<1>5. PlaceOf(t)'
  BY <1>0, <1>1, <1>2 DEF PlaceOf, CallFits, FailureFits, DeadFits
<1>6. QED
  BY <1>2, <1>3, <1>4, <1>5 DEF PlacesInv

-----------------------------------------------------------------------------
(* The lock table and the guards.                                          *)

\* A lock that t has and no guard names: it is being acquired, was just
\* handed to t, or its guard is being destroyed
Pending(t, l) ==
    /\ obj[t] = l
    /\ \/ op[t] = "unlock" /\ pc[t] = "call"
       \/ op[t] = "lock" /\ pc[t] \in {"after", "afterWait"}
       \/ op[t] = "lock" /\ pc[t] = "blocked" /\ t \notin blocked

Due(t, l) == IF Pending(t, l) THEN 1 ELSE 0

\* How often t holds l
Owned(t, l) == IF owner[l] = t THEN depth[l] ELSE 0

\* A worker that the scheduler has not stopped holds what its guards name, and
\* what is pending.  (A budget that is spent in a constructor leaves the lock
\* without a guard.)
OwnsOf(t) ==
    pc[t] \notin {"finishing", "done"} /\ failure[t] \in {"none", "exception"} =>
        \A l \in Locks : Owned(t, l) = CountIn(guards[t], l) + Due(t, l)

OwnInv == ~deadlocked => \A t \in Threads : OwnsOf(t)

\* Nobody is timed out where nobody waits with a timeout
LEMMA NoTimeouts ==
    ASSUME NEW t, NEW f, NEW b, NEW q, NEW to, HandOff(t, f, b, q, {}, to)
    PROVE  queue' = q /\ blocked' = b /\ timedOut' = to
<1>1. \A s : ~HasTimed(s, {}, f)
  BY DEF HasTimed
<1>2. Expirable(q, {}, f) = {}
  BY <1>1 DEF Expirable
<1>3. QED
  BY <1>2 DEF HandOff

\* A worker whose locks and place do not change
LEMMA OwnsStays ==
    ASSUME NEW u \in Threads, OwnsOf(u),
           pc'[u] = pc[u], op'[u] = op[u], obj'[u] = obj[u], failure'[u] = failure[u],
           guards'[u] = guards[u],
           u \in blocked' <=> u \in blocked,
           \A l \in Locks : Owned(u, l)' = Owned(u, l)
    PROVE  OwnsOf(u)'
<1>1. \A l \in Locks : Due(u, l)' = Due(u, l)
  BY DEF Due, Pending
<1>2. QED
  BY <1>1 DEF OwnsOf

\* ... and one that goes on without locks being taken or released
LEMMA OwnsMoves ==
    ASSUME NEW t \in Threads, OwnsOf(t),
           pc[t] \notin {"finishing", "done"}, failure[t] \in {"none", "exception"},
           UNCHANGED <<owner, depth>>,
           \A l \in Locks : CountIn(guards'[t], l) + Due(t, l)' = CountIn(guards[t], l) + Due(t, l)
    PROVE  OwnsOf(t)'
BY DEF OwnsOf, Owned

\* How the workers move outside the scheduler's methods
LEMMA CoreMoves ==
    ASSUME Base, PlacesInv, ExceptionResults = {}, NEW t \in Threads, CoreStep(t), ~deadlocked,
           pc'[t] \notin {"finishing", "done"}, failure'[t] \in {"none", "exception"}
    PROVE  /\ pc[t] \notin {"finishing", "done"} /\ failure[t] \in {"none", "exception"}
           /\ \/ /\ pc[t] \in {"spawned", "ready", "user", "before", "beforeWait", "failed"}
                 /\ pc'[t] \in {"ready", "user", "before", "beforeWait", "call", "failed", "recorded"}
                 /\ pc'[t] = "call" => op[t] = "lock"
                 /\ pc[t] = "user" => pc'[t] = "failed"
              \/ pc[t] = "after" /\ pc'[t] = "afterWait"
              \/ pc[t] \in {"after", "afterWait"} /\ pc'[t] = "user"
<1>0. /\ TypeOK /\ CallFits(t) /\ FailureFits(t)
      /\ pc \in [Threads -> Locations] /\ DOMAIN failure = Threads
  BY DEF Base, LockInv, TypeOK, CoreTypeOK, PlacesInv, PlaceOf
<1> USE DEF Goto, Fail, failVars
<1>1. CASE SwitchLivelock(t)
  BY <1>0, <1>1 DEF SwitchLivelock
<1>2. CASE CallInterrupted(t) \/ BlockedInterrupted(t)
  BY <1>0, <1>2 DEF CallInterrupted, BlockedInterrupted, ResumeAt
<1>3. CASE SwitchWake(t)
  <2>1. pc'[t] = AfterSwitch(pc[t]) /\ failure'[t] = failure[t] /\ pc[t] \in {"beforeWait", "afterWait"}
    BY <1>0, <1>3 DEF SwitchWake, ResumeAt
  <2>2. QED
    BY <1>0, <2>1 DEF AfterSwitch, CallFits
<1>4. CASE SwitchStay(t) \/ \E c \in Threads : SwitchTo(t, c)
  <2>1. /\ pc[t] \in {"before", "after"} /\ failure'[t] = failure[t]
        /\ pc'[t] \in {AfterSwitch(pc[t]), IF pc[t] = "before" THEN "beforeWait" ELSE "afterWait"}
    BY <1>0, <1>4 DEF SwitchStay, SwitchTo, AtSwitchPoint
  <2>2. QED
    BY <1>0, <2>1 DEF AfterSwitch, CallFits
<1>5. CASE UserThrow(t)
  BY <1>0, <1>5 DEF UserThrow, FailureFits
<1>6. CASE \/ WorkerReady(t) \/ ReadyWake(t) \/ UserReturn(t) \/ RecordFailure(t)
           \/ RequestAbort(t) \/ FinishThread(t)
  BY <1>0, <1>6 DEF WorkerReady, ReadyWake, UserReturn, RecordFailure, RequestAbort, FinishThread
<1>7. ~SwallowException(t)
  BY DEF SwallowException
<1>8. QED
  BY <1>1, <1>2, <1>3, <1>4, <1>5, <1>6, <1>7 DEF CoreStep

\* The step of a worker that stays out of the scheduler's methods
LEMMA CoreOwns ==
    ASSUME GuardTypeOK, Base, PlacesInv, OwnInv, ExceptionResults = {}, ~deadlocked,
           NEW t \in Threads, GuardedStep(t), CoreStep(t), UNCHANGED lockVars
    PROVE  OwnsOf(t)'
<1> SUFFICES ASSUME pc'[t] \notin {"finishing", "done"}, failure'[t] \in {"none", "exception"}
             PROVE  OwnsOf(t)'
  BY DEF OwnsOf
<1>0. /\ OwnsOf(t) /\ guards[t] \in Seq(Locks) /\ obj[t] = obj'[t] /\ op[t] = op'[t]
      /\ UNCHANGED <<owner, depth>> /\ TypeOK /\ CallFits(t)
  BY CoreStepCore DEF OwnInv, GuardTypeOK, TypeOK, callVars, lockVars, PlacesInv, PlaceOf
<1>1. /\ pc[t] \notin {"finishing", "done"} /\ failure[t] \in {"none", "exception"}
      /\ \/ /\ pc[t] \in {"spawned", "ready", "user", "before", "beforeWait", "failed"}
            /\ pc'[t] \in {"ready", "user", "before", "beforeWait", "call", "failed", "recorded"}
            /\ pc'[t] = "call" => op[t] = "lock"
            /\ pc[t] = "user" => pc'[t] = "failed"
         \/ pc[t] = "after" /\ pc'[t] = "afterWait"
         \/ pc[t] \in {"after", "afterWait"} /\ pc'[t] = "user"
  BY CoreMoves
<1>2. ~Closes(t)
  BY <1>1 DEF Closes
<1>3. CASE Opens(t)
  <2>1. op[t] = "lock" /\ pc[t] \in {"after", "afterWait"} /\ pc'[t] = "user"
    BY <1>3 DEF Opens
  <2>2. obj[t] \in Locks
    BY <1>0, <2>1 DEF TypeOK, CallOK, ConditionOps
  <2>3. guards'[t] = Append(guards[t], obj[t])
    BY <1>2, <1>3, OwnGuards
  <2>4. ASSUME NEW l \in Locks
        PROVE  CountIn(guards'[t], l) + Due(t, l)' = CountIn(guards[t], l) + Due(t, l)
    <3>1. CountIn(guards'[t], l) = CountIn(guards[t], l) + (IF l = obj[t] THEN 1 ELSE 0)
      BY <1>0, <2>2, <2>3, CountAppend
    <3>2. Due(t, l)' = 0
      BY <1>0, <2>1 DEF Due, Pending
    <3>3. Due(t, l) = IF l = obj[t] THEN 1 ELSE 0
      BY <2>1 DEF Due, Pending
    <3>4. CountIn(guards[t], l) \in Nat
      BY <1>0, CountType
    <3>5. QED
      BY <3>1, <3>2, <3>3, <3>4
  <2>5. QED
    BY <1>0, <1>1, <2>4, OwnsMoves
<1>4. CASE ~Opens(t)
  <2>1. guards'[t] = guards[t]
    BY <1>2, <1>4, OwnGuards
  <2>2. ASSUME NEW l \in Locks PROVE Due(t, l)' = Due(t, l)
    <3>1. CASE pc[t] \in {"after", "afterWait"}
      BY <1>0, <1>1, <1>4, <3>1 DEF Due, Pending, Opens
    <3>2. CASE pc[t] \notin {"after", "afterWait"}
      BY <1>0, <1>1, <3>2 DEF Due, Pending
    <3>3. QED
      BY <3>1, <3>2
  <2>3. QED
    BY <1>0, <1>1, <2>1, <2>2, OwnsMoves
<1>5. QED
  BY <1>3, <1>4

\* A worker in a method takes part in the invariant, and so it did before
LEMMA CallerOwns ==
    ASSUME Base, PlacesInv, NEW t \in Threads, ~deadlocked,
           pc[t] = "user" \/ pc[t] = "blocked" \/ (pc[t] = "call" /\ op[t] = "lock"), OwnInv
    PROVE  \A l \in Locks : Owned(t, l) = CountIn(guards[t], l) + Due(t, l)
<1>1. FailureFits(t) /\ OwnsOf(t) /\ failure[t] \in Failures
  BY DEF PlacesInv, PlaceOf, OwnInv, Base, LockInv, TypeOK, CoreTypeOK
<1>2. failure[t] \in {"none", "exception"}
  BY <1>1 DEF FailureFits
<1>3. QED
  BY <1>1, <1>2 DEF OwnsOf

\* lock_guard's constructor and destructor call the scheduler
LEMMA BeginOwns ==
    ASSUME GuardTypeOK, Base, PlacesInv, OwnInv, ~deadlocked, NEW t \in Threads, GuardedStep(t),
           NEW o \in {"lock", "unlock"}, NEW x \in Locks, Begin(t, o, x)
    PROVE  OwnsOf(t)'
<1>0. /\ pc \in [Threads -> Locations] /\ DOMAIN op = Threads /\ DOMAIN obj = Threads
      /\ guards[t] \in Seq(Locks)
  BY DEF GuardTypeOK, TypeOK, CoreTypeOK
<1>1. /\ pc[t] = "user" /\ op'[t] = o /\ obj'[t] = x
      /\ pc'[t] = IF o = "lock" THEN "before" ELSE "call"
      /\ UNCHANGED <<owner, depth>>
  BY <1>0 DEF Begin, Goto, lockVars
<1>2. ~Opens(t)
  BY <1>1 DEF Opens
<1>3. \A l \in Locks : Owned(t, l) = CountIn(guards[t], l) + Due(t, l)
  BY <1>1, CallerOwns
<1>4. ASSUME NEW l \in Locks PROVE CountIn(guards'[t], l) + Due(t, l)' = CountIn(guards[t], l) + Due(t, l)
  <2>1. Due(t, l) = 0
    BY <1>1 DEF Due, Pending
  <2>2. CASE o = "lock"
    <3>1. Due(t, l)' = 0
      BY <1>1, <2>2 DEF Due, Pending
    <3>2. guards'[t] = guards[t]
      BY <1>1, <1>2, <2>2, OwnGuards DEF Closes
    <3>3. QED
      BY <2>1, <3>1, <3>2
  <2>3. CASE o = "unlock"
    <3>1. Closes(t)
      BY <1>1, <2>3 DEF Closes
    <3>2. guards'[t] = Front(guards[t]) /\ guards[t] # <<>> /\ x = Last(guards[t])
      BY <1>1, <3>1, OwnGuards DEF GuardedStep, Scoped
    <3>3. Due(t, l)' = IF l = x THEN 1 ELSE 0
      BY <1>1, <2>3 DEF Due, Pending
    <3>4. CountIn(guards[t], l) = CountIn(guards'[t], l) + (IF l = x THEN 1 ELSE 0)
      BY <1>0, <3>2, CountFront
    <3>5. Front(guards[t]) \in Seq(Locks)
      BY <1>0, <3>2, FrontType
    <3>6. CountIn(guards[t], l) \in Nat /\ CountIn(guards'[t], l) \in Nat
      BY <1>0, <3>2, <3>5, CountType
    <3>7. QED
      BY <2>1, <3>3, <3>4, <3>6
  <2>4. QED
    BY <2>2, <2>3
<1>5. QED
  BY <1>1, <1>3, <1>4 DEF OwnsOf, Owned

\* lock() takes the lock, joins its queue or leaves it
LEMMA LockOwns ==
    ASSUME GuardTypeOK, Base, PlacesInv, OwnInv, ~deadlocked', NEW t \in Threads, GuardedStep(t),
           op[t] = "lock", LockAcquire(t) \/ LockBlock(t) \/ LockWake(t), ~deadlocked
    PROVE  /\ OwnsOf(t)'
           /\ \A u \in Threads \ {t} : /\ u \in blocked' <=> u \in blocked
                                       /\ \A l \in Locks : Owned(u, l)' = Owned(u, l)
<1>0. /\ pc \in [Threads -> Locations] /\ DOMAIN op = Threads /\ DOMAIN obj = Threads
      /\ guards[t] \in Seq(Locks) /\ obj[t] \in Locks /\ timed = {}
      /\ owner \in [Locks -> Threads \cup {NoThread}] /\ depth \in [Locks -> Nat]
      /\ LockExclusion /\ NoThread \notin Threads /\ WaitInv
  <2>1. obj[t] \in Locks
    BY DEF GuardTypeOK, TypeOK, CallOK, ConditionOps
  <2>2. NoThread \notin Threads
    BY NAssumption DEF Threads, NoThread
  <2>3. timed = {} /\ LockExclusion /\ WaitInv
    BY DEF PlacesInv, Base, LockInv
  <2>4. QED
    BY <2>1, <2>2, <2>3 DEF GuardTypeOK, TypeOK, CoreTypeOK
<1>1. pc[t] \in {"call", "blocked"} /\ op'[t] = op[t] /\ obj'[t] = obj[t]
  BY DEF LockAcquire, LockBlock, LockWake, Called, WokenIn, Return, callVars
<1>2. \A l \in Locks : Owned(t, l) = CountIn(guards[t], l) + Due(t, l)
  BY <1>1, CallerOwns
<1>3. guards'[t] = guards[t]
  BY <1>1, OwnGuards DEF Closes, Opens
<1>4. \A l \in Locks : CountIn(guards[t], l) \in Nat
  BY <1>0, CountType
<1>5. CASE LockAcquire(t)
  <2>1. /\ pc[t] = "call" /\ pc'[t] = "after" /\ MayLock(t, obj[t])
        /\ owner' = [owner EXCEPT ![obj[t]] = t]
        /\ depth' = [depth EXCEPT ![obj[t]] = depth[obj[t]] + 1]
        /\ blocked' = blocked
    BY <1>0, <1>5 DEF LockAcquire, Called, Return, Goto, waitVars
  <2>2. owner[obj[t]] \in {t, NoThread}
    BY <2>1 DEF MayLock
  <2>3. \A u \in Threads \ {t} : \A l \in Locks : Owned(u, l)' = Owned(u, l)
    BY <1>0, <2>1, <2>2 DEF Owned
  <2>4. ASSUME NEW l \in Locks PROVE Owned(t, l)' = CountIn(guards'[t], l) + Due(t, l)'
    <3>1. Due(t, l) = 0 /\ Due(t, l)' = IF l = obj[t] THEN 1 ELSE 0
      BY <1>1, <2>1 DEF Due, Pending
    <3>2. Owned(t, l)' = Owned(t, l) + (IF l = obj[t] THEN 1 ELSE 0)
      <4>1. owner[l] = NoThread => depth[l] = 0
        BY <1>0 DEF LockExclusion
      <4>2. depth[l] \in Nat
        BY <1>0
      <4>3. CASE l = obj[t]
        BY <1>0, <2>1, <2>2, <4>1, <4>2, <4>3 DEF Owned
      <4>4. CASE l # obj[t]
        BY <1>0, <2>1, <4>2, <4>4 DEF Owned
      <4>5. QED
        BY <4>3, <4>4
    <3>3. Owned(t, l) = CountIn(guards[t], l) + Due(t, l)
      BY <1>2
    <3>4. QED
      BY <1>3, <1>4, <3>1, <3>2, <3>3
  <2>5. QED
    BY <2>1, <2>3, <2>4 DEF OwnsOf
<1>6. CASE LockBlock(t)
  <2>1. /\ Block(t, <<"lock", obj[t]>>, queue, blocked, timedOut, FALSE)
        /\ pc[t] = "call" /\ t \notin aborted /\ UNCHANGED lockVars
    BY <1>6 DEF LockBlock, Called
  <2>2. \E q : HandOff(t, finished, blocked \cup {t}, q, {}, timedOut) /\ Goto(t, "blocked")
    <3>1. deadlocked' = TRUE \/ \E q : HandOff(t, finished, blocked \cup {t}, q, timed, timedOut) /\ Goto(t, "blocked")
      BY <2>1 DEF Block
    <3>2. QED
      BY <1>0, <3>1
  <2>3. blocked' = blocked \cup {t} /\ pc'[t] = "blocked"
    BY <1>0, <2>2, NoTimeouts DEF Goto
  <2>4. UNCHANGED <<owner, depth>>
    BY <2>1 DEF lockVars
  <2>5. \A l \in Locks : Due(t, l) = 0 /\ Due(t, l)' = 0
    BY <1>1, <2>1, <2>3 DEF Due, Pending
  <2>6. \A u \in Threads : \A l \in Locks : Owned(u, l)' = Owned(u, l)
    BY <2>4 DEF Owned
  <2>7. QED
    BY <1>2, <1>3, <2>3, <2>5, <2>6 DEF OwnsOf
<1>7. CASE LockWake(t)
  <2>1. /\ pc[t] = "blocked" /\ Awake(t) /\ t \notin aborted /\ UNCHANGED <<owner, depth, blocked>>
        /\ pc'[t] = IF Holds(t, obj[t]) THEN "after" ELSE "call"
    BY <1>0, <1>7 DEF LockWake, WokenIn, Goto, lockVars, waitVars
  <2>2. t \notin blocked
    BY <1>0, <2>1, AwakeNotBlocked
  <2>3. Due(t, obj[t]) = 1
    BY <2>1, <2>2 DEF Due, Pending
  <2>4. Owned(t, obj[t]) = CountIn(guards[t], obj[t]) + 1
    BY <1>0, <1>2, <2>3
  <2>5. Holds(t, obj[t])
    BY <1>0, <1>4, <2>4 DEF Owned, Holds
  <2>6. \A l \in Locks : Due(t, l)' = Due(t, l)
    BY <1>1, <2>1, <2>2, <2>5 DEF Due, Pending
  <2>7. \A u \in Threads : \A l \in Locks : Owned(u, l)' = Owned(u, l)
    BY <2>1 DEF Owned
  <2>8. QED
    BY <1>2, <1>3, <2>1, <2>6, <2>7 DEF OwnsOf
<1>8. QED
  BY <1>5, <1>6, <1>7

\* A full release hands the lock to the first that waits for it
LEMMA UnlockOwns ==
    ASSUME GuardTypeOK, Base, PlacesInv, OwnInv, ~deadlocked, NEW t \in Threads, GuardedStep(t),
           op[t] = "unlock", Unlock(t), NEW u \in Threads
    PROVE  OwnsOf(u)'
<1> SUFFICES ASSUME pc'[u] \notin {"finishing", "done"}, failure'[u] \in {"none", "exception"}
             PROVE  \A l \in Locks : Owned(u, l)' = CountIn(guards'[u], l) + Due(u, l)'
  BY DEF OwnsOf
<1> DEFINE m == obj[t]
<1>0. /\ pc \in [Threads -> Locations] /\ DOMAIN op = Threads /\ DOMAIN obj = Threads
      /\ guards \in [Threads -> Seq(Locks)] /\ m \in Locks
      /\ owner \in [Locks -> Threads \cup {NoThread}] /\ depth \in [Locks -> Nat]
      /\ NoThread \notin Threads /\ WaitInv /\ HeldInv
      /\ queue \in [Queues -> Seq(Threads)]
  <2>1. m \in Locks
    BY DEF GuardTypeOK, TypeOK, CallOK, ConditionOps, LockOps
  <2>2. NoThread \notin Threads
    BY NAssumption DEF Threads, NoThread
  <2>3. WaitInv /\ HeldInv
    BY DEF Base
  <2>4. QED
    BY <2>1, <2>2, <2>3 DEF GuardTypeOK, TypeOK, CoreTypeOK
<1>1. /\ pc[t] = "call" /\ pc'[t] = "after" /\ t \notin aborted /\ owner[m] = t
      /\ UNCHANGED <<op, obj, failure>>
      /\ \A v \in Threads \ {t} : pc'[v] = pc[v]
  BY <1>0 DEF Unlock, Called, Return, Goto, failVars
<1>2. t \notin blocked /\ ~abortRequested
  BY <1>0, <1>1, CallerNotBlocked DEF InControl, Running
<1>3. guards'[u] = guards[u] /\ \A l \in Locks : CountIn(guards[u], l) \in Nat
  <2>1. ~Closes(t) /\ ~Opens(t)
    BY <1>1 DEF Closes, Opens
  <2>2. QED
    BY <1>0, <2>1, OwnGuards, CountType
<1>4. \A l \in Locks : Owned(u, l) = CountIn(guards[u], l) + Due(u, l)
  BY <1>1 DEF OwnInv, OwnsOf
<1>5. \A l \in Locks : Due(t, l) = (IF l = m THEN 1 ELSE 0) /\ Due(t, l)' = 0
  BY <1>1 DEF Due, Pending
<1>6. CASE depth[m] > 1
  <2>1. depth' = [depth EXCEPT ![m] = depth[m] - 1] /\ UNCHANGED <<owner, blocked>>
    BY <1>6 DEF Unlock
  <2>2. CASE u = t
    <3>1. \A l \in Locks : Owned(t, l)' = IF l = m THEN depth[m] - 1 ELSE Owned(t, l)
      BY <1>0, <1>1, <2>1 DEF Owned
    <3>2. Owned(t, m) = depth[m] /\ depth[m] \in Nat
      BY <1>0, <1>1 DEF Owned
    <3>3. QED
      BY <1>3, <1>4, <1>5, <2>2, <3>1, <3>2
  <2>3. CASE u # t
    <3>1. \A l \in Locks : Owned(u, l)' = Owned(u, l) /\ Due(u, l)' = Due(u, l)
      BY <1>0, <1>1, <2>1, <2>3 DEF Owned, Due, Pending
    <3>2. QED
      BY <1>3, <1>4, <3>1
  <2>4. QED
    BY <2>2, <2>3
<1>7. CASE depth[m] = 1
  <2>1. /\ Release(m, shared[m]) /\ blocked' = blocked \ Woken(m)
    BY <1>7 DEF Unlock
  <2>2. /\ owner' = [owner EXCEPT ![m] = NextOwner(m)]
        /\ depth' = [depth EXCEPT ![m] = IF HandsToWriter(m) THEN 1 ELSE 0]
    BY <2>1 DEF Release
  <2>3. ASSUME NEW k \in Queues, NEW w \in ToSet(queue[k])
        PROVE  /\ w \in Threads /\ w \in blocked /\ pc[w] = "blocked"
               /\ op[w] = "lock" /\ k = <<"lock", obj[w]>>
    <3>1. w \in Threads
      BY <1>0, ToSetType
    <3>2. w \in blocked
      <4>1. \E i \in DOMAIN queue[k] : queue[k][i] = w
        BY DEF ToSet
      <4>2. QED
        BY <1>0, <3>1, <4>1 DEF WaitInv, QueuedOnce
    <3>3. pc[w] = "blocked"
      BY <1>0, <1>2, <3>2 DEF WaitInv, BlockedWait
    <3>4. op[w] = "lock"
      BY <3>1, <3>3 DEF PlacesInv, PlaceOf, CallFits
    <3>5. k = QueueOf(w)
      BY <1>0 DEF HeldInv
    <3>6. QED
      BY <3>1, <3>2, <3>3, <3>4, <3>5 DEF QueueOf
  <2>4. CASE HandsToWriter(m)
    <3>1. <<"lock", m>> \in Queues /\ LockQueue(m) \in Seq(Threads) /\ LockQueue(m) # <<>>
      BY <1>0, <2>4, QueueNames DEF LockQueue, HandsToWriter
    <3>2. PICK w : w = Head(LockQueue(m))
      OBVIOUS
    <3>3. w \in ToSet(queue[<<"lock", m>>])
      <4>1. 1 \in DOMAIN LockQueue(m) /\ w = LockQueue(m)[1]
        BY <3>1, <3>2
      <4>2. QED
        BY <4>1 DEF ToSet, LockQueue
    <3>4. /\ w \in Threads /\ w \in blocked /\ pc[w] = "blocked" /\ op[w] = "lock" /\ obj[w] = m
      BY <2>3, <3>1, <3>3
    <3>5. /\ owner' = [owner EXCEPT ![m] = w] /\ depth' = [depth EXCEPT ![m] = 1]
          /\ blocked' = blocked \ {w} /\ w # t
      BY <1>2, <2>1, <2>2, <2>4, <3>2, <3>4 DEF NextOwner, Woken
    <3>6. CASE u = t
      <4>1. \A l \in Locks : Owned(t, l)' = IF l = m THEN 0 ELSE Owned(t, l)
        BY <1>0, <1>1, <3>5 DEF Owned
      <4>2. Owned(t, m) = 1
        BY <1>0, <1>1, <1>7 DEF Owned
      <4>3. QED
        BY <1>3, <1>4, <1>5, <3>6, <4>1, <4>2
    <3>7. CASE u = w
      <4>1. \A l \in Locks : Due(w, l) = 0 /\ Due(w, l)' = IF l = m THEN 1 ELSE 0
        BY <1>1, <3>4, <3>5 DEF Due, Pending
      <4>2. \A l \in Locks : Owned(w, l)' = IF l = m THEN 1 ELSE Owned(w, l)
        BY <1>0, <3>4, <3>5 DEF Owned
      <4>3. Owned(w, m) = 0
        BY <1>0, <1>1, <3>4, <3>5 DEF Owned
      <4>4. QED
        BY <1>3, <1>4, <3>7, <4>1, <4>2, <4>3
    <3>8. CASE u # t /\ u # w
      <4>1. \A l \in Locks : Owned(u, l)' = Owned(u, l) /\ Due(u, l)' = Due(u, l)
        BY <1>0, <1>1, <3>5, <3>8 DEF Owned, Due, Pending
      <4>2. QED
        BY <1>3, <1>4, <4>1
    <3>9. QED
      BY <3>6, <3>7, <3>8
  <2>5. CASE ~HandsToWriter(m)
    <3>1. Woken(m) = {}
      <4>1. <<"shared", m>> \in Queues
        BY <1>0, QueueNames
      <4>2. \A w \in ToSet(queue[<<"shared", m>>]) : FALSE
        BY <2>3, <4>1
      <4>3. QED
        BY <2>5, <4>2 DEF Woken, SharedQueue
    <3>2. /\ owner' = [owner EXCEPT ![m] = NoThread] /\ depth' = [depth EXCEPT ![m] = 0]
          /\ blocked' = blocked
      BY <2>1, <2>2, <2>5, <3>1 DEF NextOwner
    <3>3. CASE u = t
      <4>1. \A l \in Locks : Owned(t, l)' = IF l = m THEN 0 ELSE Owned(t, l)
        BY <1>0, <1>1, <3>2 DEF Owned
      <4>2. Owned(t, m) = 1
        BY <1>0, <1>1, <1>7 DEF Owned
      <4>3. QED
        BY <1>3, <1>4, <1>5, <3>3, <4>1, <4>2
    <3>4. CASE u # t
      <4>1. \A l \in Locks : Owned(u, l)' = Owned(u, l) /\ Due(u, l)' = Due(u, l)
        BY <1>0, <1>1, <3>2, <3>4 DEF Owned, Due, Pending
      <4>2. QED
        BY <1>3, <1>4, <4>1
    <3>5. QED
      BY <3>3, <3>4
  <2>6. QED
    BY <2>4, <2>5
<1>8. QED
  BY <1>6, <1>7 DEF Unlock

LEMMA StepOwns ==
    ASSUME GuardTypeOK, Base, PlacesInv, OwnInv, ExceptionResults = {},
           NEW t \in Threads, GuardedStep(t)
    PROVE  OwnInv'
<1> SUFFICES ASSUME ~deadlocked' PROVE \A u \in Threads : OwnsOf(u)'
  BY DEF OwnInv
<1>0. TypeOK /\ Step(t) /\ CallFits(t) /\ ~deadlocked
  BY StepKeeps DEF GuardTypeOK, GuardedStep, PlacesInv, PlaceOf
<1>1. ASSUME OwnsOf(t)',
             \A u \in Threads \ {t} : /\ u \in blocked' <=> u \in blocked
                                      /\ \A l \in Locks : Owned(u, l)' = Owned(u, l)
      PROVE  \A u \in Threads : OwnsOf(u)'
  <2> SUFFICES ASSUME NEW u \in Threads \ {t} PROVE OwnsOf(u)'
    BY <1>1
  <2>1. OwnsOf(u)
    BY <1>0 DEF OwnInv
  <2>2. pc'[u] = pc[u] /\ op'[u] = op[u] /\ obj'[u] = obj[u] /\ failure'[u] = failure[u]
    BY <1>0, StepFrame
  <2>3. guards'[u] = guards[u]
    BY OwnGuards
  <2>4. QED
    BY <1>1, <2>1, <2>2, <2>3, OwnsStays
<1>2. CASE CoreStep(t) /\ UNCHANGED lockVars
  <2>1. blocked' = blocked
    <3>1. CASE FinishThread(t)
      <4>1. blocked' = blocked \/ HandOff(t, finished', blocked, queue, {}, timedOut)
        BY <3>1 DEF FinishThread, PlacesInv
      <4>2. QED
        BY <4>1, NoTimeouts
    <3>2. CASE ~FinishThread(t)
      BY <1>2, <3>2 DEF CoreStep, WorkerReady, ReadyWake, SwitchStay, SwitchTo, SwitchLivelock,
         SwitchWake, CallInterrupted, UserReturn, UserThrow, SwallowException, RecordFailure,
         RequestAbort, BlockedInterrupted, waitVars
    <3>3. QED
      BY <3>1, <3>2
  <2>2. \A u \in Threads : \A l \in Locks : Owned(u, l)' = Owned(u, l)
    BY <1>2 DEF Owned, lockVars
  <2>3. OwnsOf(t)'
    BY <1>0, <1>2, CoreOwns
  <2>4. QED
    BY <1>1, <2>1, <2>2, <2>3
<1>3. CASE \E o \in {"lock", "unlock"} : \E x \in Locks : Begin(t, o, x)
  <2>1. OwnsOf(t)'
    BY <1>0, <1>3, BeginOwns
  <2>2. UNCHANGED <<owner, depth, blocked>>
    BY <1>3 DEF Begin, lockVars, waitVars
  <2>3. \A u \in Threads : \A l \in Locks : Owned(u, l)' = Owned(u, l)
    BY <2>2 DEF Owned
  <2>4. QED
    BY <1>1, <2>1, <2>2, <2>3
<1>4. CASE (LockAcquire(t) \/ LockBlock(t) \/ LockWake(t)) /\ op[t] = "lock"
  BY <1>0, <1>1, <1>4, LockOwns
<1>5. CASE Unlock(t) /\ op[t] = "unlock"
  BY <1>0, <1>5, UnlockOwns
<1>6. CASE Misuse(t) /\ op[t] = "unlock"
  <2>1. failure'[t] = "misuse" /\ UNCHANGED <<owner, depth, blocked>>
    BY <1>0, <1>6 DEF Misuse, Fail, TypeOK, CoreTypeOK, lockVars, waitVars
  <2>2. OwnsOf(t)'
    BY <2>1 DEF OwnsOf
  <2>3. \A u \in Threads : \A l \in Locks : Owned(u, l)' = Owned(u, l)
    BY <2>1 DEF Owned
  <2>4. QED
    BY <1>1, <2>1, <2>2, <2>3
<1>7. QED
  BY <1>0, <1>2, <1>3, <1>4, <1>5, <1>6, GuardCalls DEF Step

LEMMA UnwindOwns ==
    ASSUME GuardTypeOK, PlacesInv, OwnInv, NEW t \in Threads, Unwind(t) \/ Unwound(t)
    PROVE  OwnInv'
<1> SUFFICES ASSUME ~deadlocked', NEW u \in Threads PROVE OwnsOf(u)'
  BY DEF OwnInv
<1>0. /\ pc \in [Threads -> Locations] /\ DOMAIN op = Threads /\ DOMAIN obj = Threads
      /\ guards \in [Threads -> Seq(Locks)]
  BY DEF GuardTypeOK, TypeOK, CoreTypeOK
<1>1. /\ UNCHANGED <<owner, depth, blocked, failure, deadlocked>>
      /\ \A v \in Threads \ {t} :
            pc'[v] = pc[v] /\ op'[v] = op[v] /\ obj'[v] = obj[v] /\ guards'[v] = guards[v]
  BY <1>0 DEF Unwind, Unwound, Goto, callVars, waitVars, lockVars, failVars
<1>2. OwnsOf(u) /\ \A l \in Locks : Owned(u, l)' = Owned(u, l)
  BY <1>1 DEF OwnInv, Owned
<1>3. CASE u # t
  BY <1>1, <1>2, <1>3, OwnsStays
<1>4. CASE u = t /\ Unwind(t)
  <2>1. /\ pc[t] = "failed" /\ pc'[t] = "call" /\ op'[t] = "unlock" /\ guards[t] # <<>>
        /\ obj'[t] = Last(guards[t]) /\ guards'[t] = Front(guards[t])
    BY <1>0, <1>4 DEF Unwind, Goto
  <2>2. ASSUME NEW l \in Locks
        PROVE  CountIn(guards'[t], l) + Due(t, l)' = CountIn(guards[t], l) + Due(t, l)
    <3>1. Due(t, l) = 0 /\ Due(t, l)' = IF l = Last(guards[t]) THEN 1 ELSE 0
      BY <2>1 DEF Due, Pending
    <3>2. CountIn(guards[t], l) = CountIn(guards'[t], l) + (IF l = Last(guards[t]) THEN 1 ELSE 0)
      BY <1>0, <2>1, CountFront
    <3>3. CountIn(guards[t], l) \in Nat /\ CountIn(guards'[t], l) \in Nat
      BY <1>0, <2>1, FrontType, CountType
    <3>4. QED
      BY <3>1, <3>2, <3>3
  <2>3. QED
    BY <1>1, <1>2, <1>4, <2>1, <2>2 DEF OwnsOf
<1>5. CASE u = t /\ Unwound(t)
  <2>1. pc[t] = "user" /\ pc'[t] = "failed" /\ UNCHANGED <<op, obj, guards>>
    BY <1>0, <1>5 DEF Unwound, Goto, callVars
  <2>2. \A l \in Locks : Due(t, l) = 0 /\ Due(t, l)' = 0
    BY <2>1 DEF Due, Pending
  <2>3. QED
    BY <1>1, <1>2, <1>5, <2>1, <2>2 DEF OwnsOf
<1>6. QED
  BY <1>3, <1>4, <1>5

-----------------------------------------------------------------------------
(* The theorems.                                                           *)

GuardInv == GuardTypeOK /\ Base /\ PlacesInv /\ OwnInv

LEMMA GuardInitInv == GuardInit => GuardInv
<1> SUFFICES ASSUME GuardInit PROVE GuardInv
  OBVIOUS
<1>1. Init /\ guards = [t \in Threads |-> <<>>] /\ unwinding = {} /\ terminated = FALSE
  BY DEF GuardInit
<1>2. TypeOK /\ WaitInv
  BY <1>1, InitType, WaitInit DEF Init
<1>3. LockExclusion /\ NoLostWakeup
  <2>1. \A k \in Queues : queue[k] = <<>>
    BY <1>1 DEF Init, CoreInit
  <2>2. \A l \in Locks : LockQueue(l) = <<>> /\ SharedQueue(l) = <<>>
    BY <2>1, QueueNames DEF LockQueue, SharedQueue
  <2>3. QED
    BY <1>1, <2>2 DEF LockExclusion, NoLostWakeup, Init, Readers
<1>4. HeldInv
  <2>1. \A k \in Queues : ToSet(queue[k]) = {}
    BY <1>1 DEF Init, CoreInit, ToSet
  <2>2. QED
    BY <1>1, <2>1 DEF Init, CoreInit, HeldInv, GrantedMeansHeld
<1>5. GuardTypeOK
  <2>1. guards \in [Threads -> Seq(Locks)]
    BY <1>1
  <2>2. QED
    BY <1>1, <1>2, <2>1 DEF GuardTypeOK
<1>6. PlacesInv
  BY <1>1 DEF Init, CoreInit, PlacesInv, Stopped, PlaceOf, CallFits, FailureFits
<1>7. OwnInv
  <2> SUFFICES ASSUME NEW t \in Threads, NEW l \in Locks
               PROVE  Owned(t, l) = CountIn(guards[t], l) + Due(t, l)
    BY DEF OwnInv, OwnsOf
  <2>1. t # NoThread
    BY NAssumption DEF Threads, NoThread
  <2>2. Owned(t, l) = 0 /\ Due(t, l) = 0
    BY <1>1, <2>1 DEF Init, CoreInit, Owned, Due, Pending
  <2>3. CountIn(guards[t], l) = 0
    <3>1. guards[t] = <<>> /\ <<>> \in Seq(Locks)
      BY <1>1
    <3>2. ToSet(<<>>) = {}
      BY DEF ToSet
    <3>3. QED
      BY <3>1, <3>2, CountType
  <2>4. QED
    BY <2>2, <2>3
<1>8. QED
  BY <1>2, <1>3, <1>4, <1>5, <1>6, <1>7 DEF GuardInv, Base, LockInv

LEMMA GuardInvStays ==
    ASSUME GuardInv, GuardTypeOK', ExceptionResults = {}, [GuardNext]_<<vars, guardVars>>
    PROVE  GuardInv'
<1>0. GuardTypeOK /\ Base /\ PlacesInv /\ OwnInv
  BY DEF GuardInv
<1>1. ASSUME UNCHANGED <<deadlocked, aborted, pc, op, obj, granted, queue, blocked, timed, timedOut,
                         failure, guards>>,
             UNCHANGED lockVars, OverBudget' <=> OverBudget, terminated => terminated'
      PROVE  HeldInv' /\ PlacesInv' /\ OwnInv'
  <2>1. HeldInv'
    BY <1>0, <1>1 DEF Base, HeldInv, GrantedMeansHeld, TimedWait, QueueOf, Holds, HoldsShared, lockVars
  <2>2. PlacesInv'
    BY <1>0, <1>1 DEF PlacesInv, Stopped, Idle, PlaceOf, CallFits, FailureFits, DeadFits
  <2>3. OwnInv'
    BY <1>0, <1>1 DEF OwnInv, OwnsOf, Owned, Due, Pending, lockVars
  <2>4. QED
    BY <2>1, <2>2, <2>3
<1>2. CASE WaitUntilReady /\ UNCHANGED <<lockVars, guardVars>>
  <2>1. LockExclusion' /\ NoLostWakeup'
    <3>1. UNCHANGED queue /\ UNCHANGED lockVars
      BY <1>2 DEF WaitUntilReady, waitVars
    <3>2. QED
      BY <1>0, <3>1, QuietStep DEF Base, LockInv, LockQueue, SharedQueue
  <2>2. WaitInv'
    BY <1>0, <1>2, WaitUntilReadyWait DEF Base
  <2>3. /\ UNCHANGED <<deadlocked, aborted, pc, op, obj, granted, queue, blocked, timed, timedOut,
                       failure, guards, terminated, switchCount>>
        /\ UNCHANGED lockVars
    BY <1>2 DEF WaitUntilReady, waitVars, callVars, failVars, guardVars
  <2>4. HeldInv' /\ PlacesInv' /\ OwnInv'
    BY <1>1, <2>3 DEF OverBudget
  <2>5. QED
    BY <2>1, <2>2, <2>4 DEF GuardInv, Base, LockInv, GuardTypeOK
<1>3. CASE ~terminated /\ \E t \in Threads : GuardedStep(t)
  BY <1>0, <1>3, StepBase, StepPlaces, StepOwns DEF GuardInv, GuardedStep
<1>4. CASE ~terminated /\ \E t \in Threads : Unwind(t) \/ Unwound(t)
  BY <1>0, <1>4, UnwindBase, UnwindPlaces, UnwindOwns DEF GuardInv, PlacesInv
<1>5. CASE (\E t \in Threads : UnwindAborted(t)) \/ UNCHANGED <<vars, guardVars>>
  <2>1. UNCHANGED vars /\ UNCHANGED guards /\ (terminated => terminated')
    BY <1>5 DEF UnwindAborted, guardVars
  <2>2. LockExclusion' /\ NoLostWakeup' /\ WaitInv'
    <3>1. UNCHANGED coreVars /\ UNCHANGED lockVars /\ UNCHANGED queue
      BY <2>1 DEF vars, coreVars, waitVars
    <3>2. WaitInv'
      BY <1>0, <3>1, WaitUnchanged DEF Base
    <3>3. QED
      BY <1>0, <3>1, <3>2, QuietStep DEF Base, LockInv, LockQueue, SharedQueue
  <2>3. /\ UNCHANGED <<deadlocked, aborted, pc, op, obj, granted, queue, blocked, timed, timedOut,
                       failure, switchCount>>
        /\ UNCHANGED lockVars
    BY <2>1 DEF vars, coreVars, tokenVars, waitVars, callVars, failVars
  <2>4. HeldInv' /\ PlacesInv' /\ OwnInv'
    BY <1>1, <2>1, <2>3 DEF OverBudget
  <2>5. QED
    BY <2>2, <2>4 DEF GuardInv, Base, LockInv, GuardTypeOK
<1>6. QED
  BY <1>2, <1>3, <1>4, <1>5 DEF GuardNext, GuardTerminated

LEMMA GuardInvHolds ==
    ASSUME ExceptionResults = {}
    PROVE  GuardSpec => []GuardInv
<1>1. GuardInv /\ GuardTypeOK' /\ [GuardNext]_<<vars, guardVars>> => GuardInv'
  BY GuardInvStays
<1>2. QED
  BY <1>1, GuardInitInv, GuardTypesHold, PTL DEF GuardSpec

\* Between two calls a worker owns exactly the locks that its guards name: no
\* hand-over, time of waking or unwinding makes the scheduler's lock table and
\* the object's own view of it differ, where no operation turns its exceptions
\* into results (a swallowed deadlock leaves a worker that runs on in a queue)
THEOREM GuardsOwnTheirLocks ==
    ASSUME ExceptionResults = {}
    PROVE  GuardSpec => []GuardsMatchOwner
<1>1. ASSUME GuardInv PROVE GuardsMatchOwner
  <2> SUFFICES ASSUME NEW t \in Threads, pc[t] = "user", NEW l \in Locks
               PROVE  Holds(t, l) <=> l \in ToSet(guards[t])
    BY DEF GuardsMatchOwner
  <2>1. ~deadlocked /\ failure[t] \in {"none", "exception"}
    <3>1. PlaceOf(t) /\ failure[t] \in Failures
      BY <1>1 DEF GuardInv, PlacesInv, GuardTypeOK, TypeOK, CoreTypeOK
    <3>2. QED
      BY <3>1 DEF PlaceOf, FailureFits, DeadFits
  <2>2. Owned(t, l) = CountIn(guards[t], l) + Due(t, l) /\ Due(t, l) = 0
    BY <1>1, <2>1 DEF GuardInv, OwnInv, OwnsOf, Due, Pending
  <2>3. CountIn(guards[t], l) \in Nat /\ (CountIn(guards[t], l) = 0 <=> l \notin ToSet(guards[t]))
    BY <1>1, CountType DEF GuardInv, GuardTypeOK
  <2>4. /\ owner[l] # NoThread <=> depth[l] > 0
        /\ depth[l] \in Nat
    BY <1>1 DEF GuardInv, Base, LockInv, LockExclusion, TypeOK
  <2>5. t # NoThread
    BY NAssumption DEF Threads, NoThread
  <2>6. Holds(t, l) <=> Owned(t, l) # 0
    BY <2>4, <2>5 DEF Holds, Owned
  <2>7. QED
    BY <2>2, <2>3, <2>6
<1>2. QED
  BY <1>1, GuardInvHolds, PTL

\* When the failure of an operation that threw by itself is recorded, its
\* unwinding has released all its locks, whatever ran in between
THEOREM UnwindingReleases ==
    ASSUME ExceptionResults = {}
    PROVE  GuardSpec => []ReleasedBeforeCatch
<1>1. ASSUME GuardInv PROVE ReleasedBeforeCatch
  <2> SUFFICES ASSUME NEW t \in Threads, pc[t] = "recorded", failure[t] = "exception", NEW l \in Locks
               PROVE  ~Holds(t, l)
    BY DEF ReleasedBeforeCatch
  <2>1. ~deadlocked /\ guards[t] = <<>>
    BY <1>1 DEF GuardInv, PlacesInv, PlaceOf, DeadFits
  <2>2. Owned(t, l) = CountIn(guards[t], l) + Due(t, l) /\ Due(t, l) = 0
    BY <1>1, <2>1 DEF GuardInv, OwnInv, OwnsOf, Due, Pending
  <2>3. CountIn(guards[t], l) = 0
    <3>1. <<>> \in Seq(Locks) /\ ToSet(<<>>) = {}
      BY DEF ToSet
    <3>2. QED
      BY <2>1, <3>1, CountType
  <2>4. Owned(t, l) = 0
    BY <2>2, <2>3
  <2>5. /\ owner[l] # NoThread <=> depth[l] > 0
        /\ t # NoThread
    BY <1>1, NAssumption DEF GuardInv, Base, LockInv, LockExclusion, Threads, NoThread
  <2>6. QED
    BY <2>4, <2>5 DEF Holds, Owned
<1>2. QED
  BY <1>1, GuardInvHolds, PTL

=============================================================================
