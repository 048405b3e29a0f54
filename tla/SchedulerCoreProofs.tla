------------------------- MODULE SchedulerCoreProofs -------------------------
(***************************************************************************)
(* Lemmas about SchedulerCore: what its steps do to the types, the token,  *)
(* the wait queues and the sleepers, for every module that adds operations *)
(* to it.                                                                  *)
(***************************************************************************)
EXTENDS SchedulerCore, FiniteSetTheorems, TLAPS

-----------------------------------------------------------------------------
(* Queues and sequences.                                                   *)

LEMMA QueueNames ==
    /\ \A l \in Locks : <<"lock", l>> \in Queues /\ <<"shared", l>> \in Queues
    /\ \A c \in Conditions : <<"condition", c>> \in Queues
    /\ \A x \in Semaphores : <<"semaphore", x>> \in Queues
    /\ OtherQueues \subseteq Queues
BY DEF Queues, LockQueues, SharedQueues, ConditionQueues, SemaphoreQueues

LEMMA RemoveAtType ==
    ASSUME NEW S, NEW s \in Seq(S), NEW i \in DOMAIN s
    PROVE  RemoveAt(s, i) \in Seq(S)
BY DEF RemoveAt

LEMMA EnqueueType ==
    ASSUME NEW S, NEW s \in Seq(S), NEW t \in S
    PROVE  Enqueue(s, t) \in Seq(S)
BY DEF Enqueue

LEMMA ToSetType ==
    ASSUME NEW S, NEW s \in Seq(S)
    PROVE  ToSet(s) \subseteq S
BY DEF ToSet

LEMMA ExpirableQueues ==
    ASSUME NEW q, NEW tm, NEW f
    PROVE  Expirable(q, tm, f) \subseteq Queues
BY DEF Expirable, Queues

-----------------------------------------------------------------------------
(* Giving the token away.                                                  *)

LEMMA HandOffFacts ==
    ASSUME ready \subseteq Threads,
           NEW t \in Threads, NEW f, NEW b \in SUBSET Threads,
           NEW q \in [Queues -> Seq(Threads)], NEW tm,
           NEW to \in SUBSET Threads,
           HandOff(t, f, b, q, tm, to)
    PROVE  /\ scheduled' \in Threads
           /\ queue' \in [Queues -> Seq(Threads)]
           /\ blocked' \subseteq Threads
           /\ timedOut' \subseteq Threads
           /\ \A k \in Queues : queue'[k] # <<>> => q[k] # <<>>
<1>1. CASE /\ scheduled' \in RoundRobin(t, Active(f, b))
           /\ queue' = q /\ blocked' = b /\ timedOut' = to
  BY <1>1 DEF RoundRobin, Active
<1>2. CASE \E k \in Expirable(q, tm, f) : \E i \in FirstTimed(q[k], tm, f) :
            /\ scheduled' = q[k][i]
            /\ queue' = [q EXCEPT ![k] = RemoveAt(q[k], i)]
            /\ blocked' = b \ {q[k][i]}
            /\ timedOut' = to \cup {q[k][i]}
  <2>1. PICK k \in Expirable(q, tm, f) : \E i \in FirstTimed(q[k], tm, f) :
            /\ scheduled' = q[k][i]
            /\ queue' = [q EXCEPT ![k] = RemoveAt(q[k], i)]
            /\ blocked' = b \ {q[k][i]}
            /\ timedOut' = to \cup {q[k][i]}
    BY <1>2
  <2>2. PICK i \in FirstTimed(q[k], tm, f) :
            /\ scheduled' = q[k][i]
            /\ queue' = [q EXCEPT ![k] = RemoveAt(q[k], i)]
            /\ blocked' = b \ {q[k][i]}
            /\ timedOut' = to \cup {q[k][i]}
    BY <2>1
  <2>3. k \in Queues
    BY ExpirableQueues
  <2>4. i \in DOMAIN q[k] /\ q[k] \in Seq(Threads)
    BY <2>3 DEF FirstTimed
  <2>5. q[k][i] \in Threads /\ q[k] # <<>>
    BY <2>4
  <2>6. RemoveAt(q[k], i) \in Seq(Threads)
    BY <2>4, RemoveAtType
  <2>7. QED
    BY <2>2, <2>3, <2>5, <2>6
<1>3. QED
  BY <1>1, <1>2 DEF HandOff

\* What a thread that blocks, in queue k, may change
LEMMA BlockFacts ==
    ASSUME CoreTypeOK,
           NEW t \in Threads, NEW k \in Queues,
           NEW q \in [Queues -> Seq(Threads)], NEW b \in SUBSET Threads,
           NEW to \in SUBSET Threads, NEW isTimed \in BOOLEAN,
           Block(t, k, q, b, to, isTimed), UNCHANGED granted
    PROVE  /\ CoreTypeOK'
           /\ \A j \in Queues \ {k} : queue'[j] # <<>> => q[j] # <<>>
<1> DEFINE q1 == [q EXCEPT ![k] = Enqueue(q[k], t)]
           b1 == b \cup {t}
           tm1 == IF isTimed THEN timed \cup {t} ELSE timed
           to1 == IF isTimed THEN to \ {t} ELSE to
<1>1. /\ q1 \in [Queues -> Seq(Threads)]
      /\ \A j \in Queues \ {k} : q1[j] = q[j]
  BY EnqueueType
<1>2. b1 \in SUBSET Threads /\ tm1 \in SUBSET Threads /\ to1 \in SUBSET Threads
  BY DEF CoreTypeOK
<1>3. /\ timed' = tm1
      /\ \/ /\ HandOff(t, finished, b1, q1, tm1, to1)
            /\ Goto(t, "blocked")
            /\ UNCHANGED <<failVars, deadlocked>>
         \/ /\ deadlocked' = TRUE
            /\ Fail(t, "deadlock")
            /\ queue' = q1 /\ blocked' = b1 /\ timedOut' = to1
            /\ UNCHANGED scheduled
      /\ UNCHANGED <<tokenVars, switchCount>>
      /\ asleep' = Sleepers'
  BY DEF Block, NotifyAll
<1>4. Sleepers' \subseteq Threads \cup {Main}
  BY DEF Sleepers
<1>5. /\ scheduled' \in Threads \cup {NoThread}
      /\ queue' \in [Queues -> Seq(Threads)]
      /\ blocked' \subseteq Threads
      /\ timedOut' \subseteq Threads
      /\ \A j \in Queues : queue'[j] # <<>> => q1[j] # <<>>
  <2>1. CASE HandOff(t, finished, b1, q1, tm1, to1)
    <3> HIDE DEF q1, b1, tm1, to1
    <3>1. QED
      BY <2>1, <1>1, <1>2, HandOffFacts DEF CoreTypeOK
  <2>2. CASE queue' = q1 /\ blocked' = b1 /\ timedOut' = to1 /\ UNCHANGED scheduled
    BY <2>2, <1>1, <1>2 DEF CoreTypeOK
  <2>3. QED
    BY <1>3, <2>1, <2>2
<1>6. pc' \in [Threads -> Locations] /\ failure' \in [Threads -> Failures]
      /\ exception' \in Failures /\ deadlocked' \in BOOLEAN
  BY <1>3 DEF Goto, Fail, failVars, CoreTypeOK, Locations, Failures
<1>7. CoreTypeOK'
  BY <1>2, <1>3, <1>4, <1>5, <1>6 DEF CoreTypeOK, tokenVars
<1>8. QED
  BY <1>1, <1>5, <1>7

-----------------------------------------------------------------------------
(* Type correctness.                                                       *)

LEMMA CoreInitType == CoreInit => CoreTypeOK
<1> SUFFICES ASSUME CoreInit PROVE CoreTypeOK
  OBVIOUS
<1>1. queue \in [Queues -> Seq(Threads)]
  BY DEF CoreInit
<1>2. switchCount \in 0 .. Budget + 1
  BY BudgetAssumption DEF CoreInit
<1>3. QED
  BY <1>1, <1>2 DEF CoreInit, CoreTypeOK, Locations, Failures

LEMMA WaitUntilReadyCore ==
    ASSUME CoreTypeOK, WaitUntilReady
    PROVE  CoreTypeOK'
<1>1. Sleepers' \subseteq Threads \cup {Main}
  BY DEF Sleepers
<1>2. QED
  BY <1>1 DEF WaitUntilReady, CoreTypeOK, Active, NotifyAll, waitVars, callVars, failVars

LEMMA CoreUnchanged ==
    ASSUME CoreTypeOK, UNCHANGED coreVars
    PROVE  CoreTypeOK'
BY DEF coreVars, tokenVars, handVars, waitVars, callVars, failVars, CoreTypeOK

LEMMA CoreStepCore ==
    ASSUME CoreTypeOK, NEW t \in Threads, CoreStep(t)
    PROVE  CoreTypeOK' /\ UNCHANGED callVars
<1> USE DEF CoreTypeOK, Goto, NotifyAll, tokenVars, handVars,
            waitVars, callVars, failVars, Locations, Failures
<1>0. Sleepers' \subseteq Threads \cup {Main}
  BY DEF Sleepers
<1>1. CASE WorkerReady(t)
  BY <1>1, <1>0 DEF WorkerReady
<1>2. CASE ReadyWake(t)
  BY <1>2 DEF ReadyWake
<1>3. CASE SwitchStay(t)
  BY <1>3, BudgetAssumption DEF SwitchStay, AfterSwitch
<1>4. CASE \E c \in Threads : SwitchTo(t, c)
  BY <1>4, <1>0, BudgetAssumption DEF SwitchTo, Active
<1>5. CASE SwitchLivelock(t)
  BY <1>5, <1>0, BudgetAssumption DEF SwitchLivelock, Fail
<1>6. CASE SwitchWake(t)
  BY <1>6 DEF SwitchWake, ResumeAt, Fail, AfterSwitch
<1>7. CASE CallInterrupted(t)
  BY <1>7 DEF CallInterrupted, ResumeAt, Fail
<1>8. CASE UserReturn(t)
  BY <1>8 DEF UserReturn
<1>9. CASE UserThrow(t)
  BY <1>9 DEF UserThrow, Fail
<1>10. CASE SwallowException(t)
  BY <1>10 DEF SwallowException
<1>11. CASE RecordFailure(t)
  BY <1>11 DEF RecordFailure
<1>12. CASE RequestAbort(t)
  BY <1>12, <1>0 DEF RequestAbort, Peers
<1>13. CASE FinishThread(t)
  <2>1. finished' \subseteq Threads /\ pc' \in [Threads -> Locations]
    BY <1>13 DEF FinishThread
  <2>2. /\ scheduled' \in Threads \cup {NoThread}
        /\ queue' \in [Queues -> Seq(Threads)]
        /\ blocked' \subseteq Threads
        /\ timedOut' \subseteq Threads
    <3>1. CASE HandOff(t, finished', blocked, queue, timed, timedOut)
      BY <3>1, HandOffFacts
    <3>2. CASE UNCHANGED <<queue, blocked, timedOut>> /\ scheduled' \in {scheduled, NoThread}
      BY <3>2
    <3>3. QED
      BY <1>13, <3>1, <3>2 DEF FinishThread
  <2>3. deadlocked' \in BOOLEAN
    BY <1>13 DEF FinishThread
  <2>4. QED
    BY <1>13, <1>0, <2>1, <2>2, <2>3 DEF FinishThread
<1>14. CASE BlockedInterrupted(t)
  BY <1>14 DEF BlockedInterrupted, ResumeAt, Fail
<1>15. QED
  BY <1>1, <1>2, <1>3, <1>4, <1>5, <1>6, <1>7, <1>8, <1>9, <1>10, <1>11,
     <1>12, <1>13, <1>14 DEF CoreStep

-----------------------------------------------------------------------------
(* Who may run.                                                            *)

\* TokenExclusive alone is not inductive: a worker that wakes because of an
\* abort is out of the object's code only because the abort reached it
TokenInv ==
    /\ CoreTypeOK
    /\ TokenExclusive
    /\ AbortReachesPeers
    /\ \A t \in Threads : t \in finished <=> pc[t] = "done"
    /\ ~started => scheduled = NoThread

\* What a step of thread t must respect when it is not an abort
LEMMA TokenStep ==
    ASSUME TokenInv, CoreTypeOK', NEW t \in Threads,
           \A u \in Threads \ {t} : pc'[u] = pc[u],
           aborted' = aborted, abortRequested' = abortRequested,
           started' = started,
           deadlocked => deadlocked',
           \/ scheduled' = scheduled
           \/ scheduled = t /\ scheduled' \in Threads \cup {NoThread},
           ~deadlocked' /\ InControl(t)' => scheduled' = t,
           pc[t] \in {"finishing", "done"} => pc'[t] \in {"finishing", "done"},
           t \in finished' <=> pc'[t] = "done",
           \A u \in Threads \ {t} : u \in finished' <=> u \in finished
    PROVE  TokenInv'
<1>1. TokenExclusive'
  <2> SUFFICES ASSUME ~deadlocked', NEW u \in Threads, InControl(u)' PROVE scheduled' = u
    BY DEF TokenExclusive
  <2>1. CASE u = t
    BY <2>1
  <2>2. CASE u # t
    <3>1. InControl(u)
      BY <2>2 DEF InControl, Running
    <3>2. scheduled = u
      BY <3>1 DEF TokenInv, TokenExclusive
    <3>3. QED
      BY <2>2, <3>2
  <2>3. QED
    BY <2>1, <2>2
<1>2. AbortReachesPeers'
  BY DEF TokenInv, AbortReachesPeers
<1>3. \A u \in Threads : u \in finished' <=> pc'[u] = "done"
  BY DEF TokenInv
<1>4. ~started' => scheduled' = NoThread
  <2>1. t # NoThread
    BY NAssumption DEF Threads, NoThread
  <2>2. QED
    BY <2>1 DEF TokenInv
<1>5. QED
  BY <1>1, <1>2, <1>3, <1>4 DEF TokenInv

\* A thread that wakes on cv_ was given the token, unless the run is failing
LEMMA AwakeHasToken ==
    ASSUME TokenInv, NEW t \in Threads, Awake(t), t \notin aborted, ~deadlocked
    PROVE  scheduled = t
<1>1. ~abortRequested
  BY DEF TokenInv, AbortReachesPeers, Awake, Waiting
<1>2. QED
  BY <1>1 DEF Awake, Waiting, Resumable

\* ... and so was a thread that runs
LEMMA InControlHasToken ==
    ASSUME TokenInv, NEW t \in Threads, InControl(t), ~deadlocked
    PROVE  scheduled = t
BY DEF TokenInv, TokenExclusive

LEMMA CoreStepToken ==
    ASSUME TokenInv, CoreTypeOK', NEW t \in Threads, CoreStep(t)
    PROVE  TokenInv'
<1> USE DEF Goto, tokenVars, handVars, failVars
<1>0. pc \in [Threads -> Locations] /\ (t \in finished <=> pc[t] = "done")
  BY DEF TokenInv, CoreTypeOK
<1>1. CASE WorkerReady(t)
  BY <1>0, <1>1, TokenStep DEF WorkerReady, InControl, Running
<1>2. CASE ReadyWake(t)
  <2>1. pc'[t] = "user" => t \notin aborted
    BY <1>0, <1>2 DEF ReadyWake
  <2>2. ~deadlocked' /\ InControl(t)' => scheduled' = t
    BY <1>0, <1>2, <2>1, AwakeHasToken DEF ReadyWake, InControl, Running
  <2>3. QED
    BY <1>0, <1>2, <2>2, TokenStep DEF ReadyWake
<1>3. CASE SwitchStay(t)
  <2>1. ~deadlocked => scheduled = t
    BY <1>3, InControlHasToken DEF SwitchStay, AtSwitchPoint, InControl, Running
  <2>2. QED
    BY <1>0, <1>3, <2>1, TokenStep DEF SwitchStay, AtSwitchPoint, AfterSwitch
<1>4. CASE \E c \in Threads : SwitchTo(t, c)
  <2>1. scheduled = t
    BY <1>4, InControlHasToken DEF SwitchTo, AtSwitchPoint, InControl, Running
  <2>2. QED
    BY <1>0, <1>4, <2>1, TokenStep DEF SwitchTo, AtSwitchPoint, InControl, Running
<1>5. CASE SwitchLivelock(t)
  <2>1. ~deadlocked => scheduled = t
    BY <1>5, InControlHasToken DEF SwitchLivelock, AtSwitchPoint, InControl, Running
  <2>2. QED
    BY <1>0, <1>5, <2>1, TokenStep DEF SwitchLivelock, AtSwitchPoint, Fail
<1>6. CASE SwitchWake(t)
  <2>1. ~deadlocked' /\ InControl(t)' => scheduled' = t
    BY <1>0, <1>6, AwakeHasToken DEF SwitchWake, ResumeAt, InControl, Running
  <2>2. QED
    BY <1>0, <1>6, <2>1, TokenStep DEF SwitchWake, ResumeAt, Fail, AfterSwitch
<1>7. CASE CallInterrupted(t)
  <2>1. ~deadlocked' => pc'[t] = "finishing"
    BY <1>0, <1>7 DEF CallInterrupted, ResumeAt
  <2>2. QED
    BY <1>0, <1>7, <2>1, TokenStep DEF CallInterrupted, ResumeAt, Fail, InControl, Running
<1>8. CASE UserReturn(t)
  BY <1>0, <1>8, TokenStep DEF UserReturn, InControl, Running
<1>9. CASE UserThrow(t)
  <2>1. ~deadlocked => scheduled = t
    BY <1>9, InControlHasToken DEF UserThrow, InControl, Running
  <2>2. QED
    BY <1>0, <1>9, <2>1, TokenStep DEF UserThrow, Fail
<1>10. CASE SwallowException(t)
  <2>1. ~deadlocked /\ t \notin aborted => scheduled = t
    BY <1>10, InControlHasToken DEF SwallowException, InControl
  <2>2. QED
    BY <1>0, <1>10, <2>1, TokenStep DEF SwallowException, InControl, Running
<1>11. CASE RecordFailure(t)
  <2>1. ~deadlocked /\ t \notin aborted => scheduled = t
    BY <1>11, InControlHasToken DEF RecordFailure, InControl
  <2>2. QED
    BY <1>0, <1>11, <2>1, TokenStep DEF RecordFailure, InControl, Running
<1>12. CASE RequestAbort(t)
  <2>1. /\ pc'[t] = "finishing" /\ \A u \in Threads \ {t} : pc'[u] = pc[u]
        /\ aborted' = aborted \cup (Threads \ (finished \cup {t}))
        /\ UNCHANGED <<finished, started, scheduled, deadlocked>>
    BY <1>0, <1>12 DEF RequestAbort, Peers
  <2>2. TokenExclusive'
    BY <2>1 DEF TokenInv, TokenExclusive, InControl, Running
  <2>3. AbortReachesPeers'
    BY <2>1 DEF TokenInv, AbortReachesPeers
  <2>4. \A u \in Threads : u \in finished' <=> pc'[u] = "done"
    BY <1>12, <2>1 DEF TokenInv, RequestAbort
  <2>5. QED
    BY <2>1, <2>2, <2>3, <2>4 DEF TokenInv
<1>13. CASE FinishThread(t)
  <2>1. /\ pc[t] = "finishing" /\ pc'[t] = "done"
        /\ \A u \in Threads \ {t} : pc'[u] = pc[u]
        /\ finished' = finished \cup {t}
        /\ UNCHANGED <<aborted, started, abortRequested>>
    BY <1>0, <1>13 DEF FinishThread
  <2>5. deadlocked => deadlocked'
    BY <1>13, Zenon DEF FinishThread
  <2>2. \/ scheduled' = scheduled
        \/ scheduled = t /\ scheduled' \in Threads \cup {NoThread}
    BY <1>13 DEF FinishThread, CoreTypeOK
  <2>3. ~InControl(t)'
    BY <2>1 DEF InControl, Running
  <2>4. QED
    BY <2>1, <2>2, <2>3, <2>5, TokenStep
<1>14. CASE BlockedInterrupted(t)
  <2>1. ~deadlocked' => pc'[t] = "finishing"
    BY <1>0, <1>14 DEF BlockedInterrupted, ResumeAt
  <2>2. QED
    BY <1>0, <1>14, <2>1, TokenStep DEF BlockedInterrupted, ResumeAt, Fail, InControl, Running
<1>15. QED
  BY <1>1, <1>2, <1>3, <1>4, <1>5, <1>6, <1>7, <1>8, <1>9, <1>10, <1>11,
     <1>12, <1>13, <1>14 DEF CoreStep

\* A method that returns, fails or goes on keeps the token
LEMMA KeepsToken ==
    ASSUME TokenInv, CoreTypeOK', NEW t \in Threads,
           pc[t] \in {"user", "before", "call", "after", "blocked"},
           pc[t] = "blocked" => Awake(t) /\ t \notin aborted,
           UNCHANGED <<tokenVars, scheduled, deadlocked>>,
           NEW l \in Locations \ {"finishing", "done"}, Goto(t, l)
    PROVE  TokenInv'
<1>1. pc \in [Threads -> Locations] /\ (t \in finished <=> pc[t] = "done")
  BY DEF TokenInv, CoreTypeOK
<1>4. ~deadlocked => scheduled = t
  BY AwakeHasToken, InControlHasToken DEF InControl, Running
<1>5. pc'[t] = l /\ \A u \in Threads \ {t} : pc'[u] = pc[u]
  BY <1>1 DEF Goto
<1>6. QED
  BY <1>1, <1>4, <1>5, TokenStep DEF tokenVars

\* A thread that blocks gives the token away or ends the run
LEMMA BlockToken ==
    ASSUME TokenInv, CoreTypeOK', NEW t \in Threads, pc[t] = "call", ~deadlocked,
           NEW k \in Queues, NEW q, NEW b, NEW to, NEW isTimed,
           Block(t, k, q, b, to, isTimed)
    PROVE  TokenInv'
<1>1. pc \in [Threads -> Locations] /\ (t \in finished <=> pc[t] = "done")
  BY DEF TokenInv, CoreTypeOK
<1>2. scheduled = t
  BY InControlHasToken DEF InControl, Running
<1>3. scheduled' \in Threads \cup {NoThread}
  BY DEF CoreTypeOK
<1>4. /\ \/ Goto(t, "blocked") /\ UNCHANGED deadlocked
         \/ Goto(t, "failed") /\ deadlocked'
      /\ UNCHANGED tokenVars
  BY DEF Block, Fail
<1>5. /\ pc'[t] = "blocked" \/ deadlocked'
      /\ pc'[t] \in {"blocked", "failed"}
      /\ \A u \in Threads \ {t} : pc'[u] = pc[u]
  BY <1>1, <1>4 DEF Goto
<1>6. QED
  BY <1>1, <1>2, <1>3, <1>4, <1>5, TokenStep DEF tokenVars, InControl, Running

LEMMA TokenInit == CoreInit => TokenInv
<1> SUFFICES ASSUME CoreInit
    PROVE /\ TokenExclusive /\ AbortReachesPeers
          /\ \A t \in Threads : t \in finished <=> pc[t] = "done"
          /\ ~started => scheduled = NoThread
  BY CoreInitType DEF TokenInv
<1>1. QED
  BY DEF CoreInit, TokenExclusive, AbortReachesPeers, InControl, Running

LEMMA WaitUntilReadyToken ==
    ASSUME TokenInv, WaitUntilReady
    PROVE  TokenInv'
<1>1. CoreTypeOK'
  BY WaitUntilReadyCore DEF TokenInv
<1>2. /\ ~started /\ scheduled = NoThread /\ started'
      /\ UNCHANGED <<pc, finished, aborted, abortRequested, deadlocked>>
  BY DEF WaitUntilReady, TokenInv
<1>3. deadlocked \/ \A t \in Threads : ~InControl(t)
  BY <1>2, NAssumption DEF TokenInv, TokenExclusive, Threads, NoThread
<1>4. TokenExclusive' /\ AbortReachesPeers'
  BY <1>2, <1>3 DEF TokenInv, TokenExclusive, AbortReachesPeers, InControl, Running
<1>5. QED
  BY <1>1, <1>2, <1>4 DEF TokenInv

LEMMA TokenUnchanged ==
    ASSUME TokenInv, UNCHANGED coreVars
    PROVE  TokenInv'
<1>1. UNCHANGED <<finished, aborted, started, abortRequested, scheduled, pc, deadlocked>>
  BY DEF coreVars, tokenVars, handVars
<1>2. CoreTypeOK'
  BY CoreUnchanged DEF TokenInv
<1>3. QED
  BY <1>1, <1>2 DEF TokenInv, TokenExclusive, AbortReachesPeers, InControl, Running

-----------------------------------------------------------------------------
(* The token is not lost.                                                  *)

AliveInv ==
    /\ TokenInv
    /\ TokenNotLost
    /\ started => ready = Threads
    /\ ~abortRequested => aborted = {}

\* A run that is neither failing nor over
Alive == started /\ ~abortRequested /\ ~deadlocked /\ finished # Threads

\* Whoever the token is handed to can run
LEMMA HandOffAlive ==
    ASSUME ready = Threads, aborted = {},
           NEW t \in Threads, NEW f, NEW b \in SUBSET Threads,
           NEW q \in [Queues -> Seq(Threads)], NEW tm, NEW to \in SUBSET Threads,
           HandOff(t, f, b, q, tm, to)
    PROVE  scheduled' \in Threads \ (f \cup blocked')
<1>1. scheduled' \in Threads
  BY HandOffFacts
<1>2. CASE scheduled' \in RoundRobin(t, Active(f, b)) /\ blocked' = b
  BY <1>2 DEF RoundRobin, Active
<1>3. CASE \E k \in Expirable(q, tm, f) : \E i \in FirstTimed(q[k], tm, f) :
              scheduled' = q[k][i] /\ blocked' = b \ {q[k][i]}
  BY <1>1, <1>3 DEF FirstTimed
<1>4. QED
  BY <1>2, <1>3 DEF HandOff

\* A step that leaves the token where it is and blocks nobody
LEMMA AliveStays ==
    ASSUME AliveInv, TokenInv', UNCHANGED <<finished, aborted, started, abortRequested, scheduled>>,
           ready \subseteq ready', blocked' \subseteq blocked, deadlocked => deadlocked'
    PROVE  AliveInv'
<1>1. started => ready' = Threads
  BY DEF AliveInv, TokenInv, CoreTypeOK
<1>2. TokenNotLost'
  BY DEF AliveInv, TokenNotLost, Active
<1>3. QED
  BY <1>1, <1>2 DEF AliveInv

\* A step that ends the run or hands the token to a thread that can run
LEMMA AliveMoves ==
    ASSUME AliveInv, TokenInv', UNCHANGED <<ready, aborted, started, abortRequested>>,
           Alive' => scheduled' \in Threads \ (finished' \cup blocked')
    PROVE  AliveInv'
BY DEF AliveInv, TokenNotLost, Active, Alive

\* A thread that blocks
LEMMA AliveBlocks ==
    ASSUME AliveInv, TokenInv', NEW t \in Threads, NEW k \in Queues,
           NEW q \in [Queues -> Seq(Threads)], NEW b \in SUBSET Threads,
           NEW to \in SUBSET Threads, NEW isTimed \in BOOLEAN,
           Block(t, k, q, b, to, isTimed)
    PROVE  AliveInv'
<1> DEFINE q1 == [q EXCEPT ![k] = Enqueue(q[k], t)]
           b1 == b \cup {t}
           tm1 == IF isTimed THEN timed \cup {t} ELSE timed
           to1 == IF isTimed THEN to \ {t} ELSE to
<1>1. q1 \in [Queues -> Seq(Threads)] /\ b1 \in SUBSET Threads /\ to1 \in SUBSET Threads
  BY EnqueueType
<1>2. HandOff(t, finished, b1, q1, tm1, to1) \/ deadlocked'
  BY DEF Block
<1>3. UNCHANGED <<ready, finished, aborted, started, abortRequested>>
  BY DEF Block, tokenVars
<1> HIDE DEF q1, b1, tm1, to1
<1>4. ASSUME Alive' PROVE scheduled' \in Threads \ (finished' \cup blocked')
  <2>1. ready = Threads /\ aborted = {}
    BY <1>3, <1>4 DEF Alive, AliveInv
  <2>2. HandOff(t, finished, b1, q1, tm1, to1)
    BY <1>2, <1>4 DEF Alive
  <2>3. QED
    BY <1>1, <1>3, <2>1, <2>2, HandOffAlive
<1>5. QED
  BY <1>3, <1>4, AliveMoves

LEMMA CoreStepAlive ==
    ASSUME AliveInv, TokenInv', NEW t \in Threads, CoreStep(t)
    PROVE  AliveInv'
<1>1. CASE \E c \in Threads : SwitchTo(t, c)
  BY <1>1, AliveMoves DEF SwitchTo, Active, tokenVars, waitVars
<1>2. CASE RequestAbort(t)
  BY <1>2 DEF RequestAbort, AliveInv, TokenNotLost
<1>3. CASE FinishThread(t)
  <2>1. /\ finished' = finished \cup {t} /\ t \notin finished
        /\ UNCHANGED <<ready, aborted, started, abortRequested>>
    BY <1>3 DEF FinishThread, AliveInv, TokenInv
  <2>2. ASSUME Alive' PROVE scheduled' \in Threads \ (finished' \cup blocked')
    <3>1. ready = Threads /\ aborted = {}
      BY <2>1, <2>2 DEF Alive, AliveInv
    <3>2. CASE scheduled # t /\ UNCHANGED <<scheduled, queue, blocked, timedOut, deadlocked>>
      BY <2>1, <2>2, <3>2 DEF Alive, AliveInv, TokenNotLost, Active, TokenInv, CoreTypeOK
    <3>3. CASE HandOff(t, finished', blocked, queue, timed, timedOut)
      BY <3>1, <3>3, HandOffAlive DEF AliveInv, TokenInv, CoreTypeOK
    <3>4. CASE deadlocked' = (deadlocked \/ (~abortRequested /\ ready \ finished' # {}))
      <4>1. ~(~abortRequested /\ ready \ finished' # {})
        BY <2>2, <3>4, Zenon DEF Alive
      <4>2. finished' # Threads /\ finished' \subseteq Threads
        BY <2>2 DEF Alive, TokenInv, CoreTypeOK
      <4>3. QED
        BY <2>1, <2>2, <3>1, <4>1, <4>2 DEF Alive
    <3>5. QED
      BY <1>3, <3>2, <3>3, <3>4 DEF FinishThread
  <2>3. QED
    BY <2>1, <2>2, AliveMoves
<1>4. CASE ~(\E c \in Threads : SwitchTo(t, c)) /\ ~RequestAbort(t) /\ ~FinishThread(t)
  <2>1. /\ UNCHANGED <<finished, aborted, started, abortRequested, scheduled, blocked, deadlocked>>
        /\ ready \subseteq ready'
    BY <1>4 DEF CoreStep, WorkerReady, ReadyWake, SwitchStay, SwitchLivelock,
                SwitchWake, CallInterrupted, UserReturn, UserThrow, SwallowException,
                RecordFailure, BlockedInterrupted, waitVars, tokenVars, handVars
  <2>2. QED
    BY <2>1, AliveStays
<1>5. QED
  BY <1>1, <1>2, <1>3, <1>4

LEMMA AliveInit == CoreInit => AliveInv
<1>1. CoreInit => ~started /\ aborted = {}
  BY DEF CoreInit
<1>2. QED
  BY <1>1, TokenInit DEF AliveInv, TokenNotLost

LEMMA WaitUntilReadyAlive ==
    ASSUME AliveInv, WaitUntilReady
    PROVE  AliveInv'
<1>1. /\ ready = Threads /\ scheduled' \in Active(finished, blocked)
      /\ UNCHANGED <<ready, finished, blocked, aborted, abortRequested>>
  BY DEF WaitUntilReady, waitVars
<1>2. QED
  BY <1>1, WaitUntilReadyToken DEF AliveInv, TokenNotLost, Active

LEMMA AliveUnchanged ==
    ASSUME AliveInv, UNCHANGED coreVars
    PROVE  AliveInv'
BY TokenUnchanged, AliveStays DEF AliveInv, coreVars, tokenVars, handVars, waitVars

-----------------------------------------------------------------------------
(* Every blocked thread is in one wait queue, once.                        *)

\* No thread has two places in the queues q, and b are the threads that have one
QueuedOnce(q, b) ==
    /\ \A j, k \in Queues : \A i \in DOMAIN q[j], m \in DOMAIN q[k] :
            q[j][i] = q[k][m] => j = k /\ i = m
    /\ \A t \in Threads : t \in b <=> \E k \in Queues : \E i \in DOMAIN q[k] : q[k][i] = t

\* Queue k loses the threads W and keeps the others, p telling where each was
LEMMA DropQueued ==
    ASSUME NEW q \in [Queues -> Seq(Threads)], NEW b, QueuedOnce(q, b),
           NEW k \in Queues, NEW s \in Seq(Threads), NEW W,
           NEW p \in [DOMAIN s -> DOMAIN q[k]],
           \A i, j \in DOMAIN s : p[i] = p[j] => i = j,
           \A i \in DOMAIN s : s[i] = q[k][p[i]],
           \A i \in DOMAIN q[k] : q[k][i] \in W <=> \A j \in DOMAIN s : p[j] # i,
           \A t \in W : \E i \in DOMAIN q[k] : q[k][i] = t
    PROVE  QueuedOnce([q EXCEPT ![k] = s], b \ W)
<1> DEFINE r == [q EXCEPT ![k] = s]
<1>1. /\ r[k] = s /\ \A j \in Queues \ {k} : r[j] = q[j]
      /\ \A j \in Queues : q[j] \in Seq(Threads)
  OBVIOUS
<1> HIDE DEF r
<1>2. \A j \in Queues : \A i \in DOMAIN r[j] :
         \E m \in DOMAIN q[j] : /\ q[j][m] = r[j][i]
                                /\ j = k => m = p[i]
                                /\ j # k => m = i
  <2> SUFFICES ASSUME NEW j \in Queues, NEW i \in DOMAIN r[j]
               PROVE  \E m \in DOMAIN q[j] : /\ q[j][m] = r[j][i]
                                             /\ j = k => m = p[i]
                                             /\ j # k => m = i
    OBVIOUS
  <2>1. CASE j = k
    <3>1. i \in DOMAIN s /\ p[i] \in DOMAIN q[k] /\ q[k][p[i]] = r[k][i]
      BY <1>1, <2>1
    <3>2. QED
      BY <2>1, <3>1
  <2>2. CASE j # k
    BY <1>1, <2>2
  <2>3. QED
    BY <2>1, <2>2
<1>3. ASSUME NEW j \in Queues, NEW l \in Queues, NEW i \in DOMAIN r[j], NEW m \in DOMAIN r[l],
             r[j][i] = r[l][m]
      PROVE  j = l /\ i = m
  <2>1. PICK i2 \in DOMAIN q[j] : /\ q[j][i2] = r[j][i]
                                  /\ j = k => i2 = p[i]
                                  /\ j # k => i2 = i
    BY <1>2
  <2>2. PICK m2 \in DOMAIN q[l] : /\ q[l][m2] = r[l][m]
                                  /\ l = k => m2 = p[m]
                                  /\ l # k => m2 = m
    BY <1>2
  <2>3. j = l /\ i2 = m2
    BY <1>3, <2>1, <2>2 DEF QueuedOnce
  <2>4. CASE j = k
    BY <1>1, <2>1, <2>2, <2>3, <2>4
  <2>5. CASE j # k
    BY <2>1, <2>2, <2>3, <2>5
  <2>6. QED
    BY <2>4, <2>5
<1>4. ASSUME NEW t \in Threads, t \in b \ W
      PROVE  \E j \in Queues : \E i \in DOMAIN r[j] : r[j][i] = t
  <2>1. PICK j \in Queues : \E i \in DOMAIN q[j] : q[j][i] = t
    BY <1>4 DEF QueuedOnce
  <2>2. PICK i \in DOMAIN q[j] : q[j][i] = t
    BY <2>1
  <2>3. CASE j # k
    BY <1>1, <2>2, <2>3
  <2>4. CASE j = k
    <3>1. \E m \in DOMAIN s : p[m] = i
      BY <1>4, <2>2, <2>4
    <3>2. QED
      BY <1>1, <2>2, <2>4, <3>1
  <2>5. QED
    BY <2>3, <2>4
<1>5. ASSUME NEW t \in Threads, NEW j \in Queues, NEW i \in DOMAIN r[j], r[j][i] = t
      PROVE  t \in b \ W
  <2>1. PICK m \in DOMAIN q[j] : q[j][m] = t /\ (j = k => m = p[i])
    BY <1>2, <1>5
  <2>2. t \in b
    BY <2>1 DEF QueuedOnce
  <2>3. ASSUME t \in W PROVE FALSE
    <3>1. PICK n \in DOMAIN q[k] : q[k][n] = t
      BY <2>3
    <3>2. j = k /\ n = m
      BY <2>1, <3>1 DEF QueuedOnce
    <3>3. QED
      BY <1>1, <2>1, <2>3, <3>1, <3>2
  <2>4. QED
    BY <2>2, <2>3
<1>6. QED
  BY <1>3, <1>4, <1>5 DEF QueuedOnce, r

LEMMA TailQueued ==
    ASSUME NEW q \in [Queues -> Seq(Threads)], NEW b, QueuedOnce(q, b),
           NEW k \in Queues, q[k] # <<>>
    PROVE  QueuedOnce([q EXCEPT ![k] = Tail(q[k])], b \ {Head(q[k])})
<1> DEFINE s == Tail(q[k])
           p == [i \in DOMAIN s |-> i + 1]
<1>1. q[k] \in Seq(Threads) /\ s \in Seq(Threads) /\ Len(s) = Len(q[k]) - 1
      /\ Len(q[k]) \in Nat \ {0} /\ DOMAIN q[k] = 1 .. Len(q[k]) /\ DOMAIN s = 1 .. Len(s)
      /\ Head(q[k]) = q[k][1]
      /\ \A i \in DOMAIN s : s[i] = q[k][i + 1]
  OBVIOUS
<1> HIDE DEF s
<1>2. p \in [DOMAIN s -> DOMAIN q[k]]
  BY <1>1
<1>3. /\ \A i, j \in DOMAIN s : p[i] = p[j] => i = j
      /\ \A i \in DOMAIN s : s[i] = q[k][p[i]]
  BY <1>1
<1>4. ASSUME NEW i \in DOMAIN q[k]
      PROVE  q[k][i] \in {Head(q[k])} <=> \A j \in DOMAIN s : p[j] # i
  <2>1. q[k][i] = q[k][1] => i = 1
    BY <1>1 DEF QueuedOnce
  <2>2. i # 1 => i - 1 \in DOMAIN s /\ p[i - 1] = i
    BY <1>1
  <2>3. QED
    BY <1>1, <2>1, <2>2
<1>5. \A t \in {Head(q[k])} : \E i \in DOMAIN q[k] : q[k][i] = t
  BY <1>1
<1> HIDE DEF p
<1>6. s \in Seq(Threads)
  BY <1>1
<1>7. QueuedOnce([q EXCEPT ![k] = s], b \ {Head(q[k])})
  BY <1>2, <1>3, <1>4, <1>5, <1>6, DropQueued
<1>8. QED
  BY <1>7 DEF s

LEMMA EmptyQueued ==
    ASSUME NEW q \in [Queues -> Seq(Threads)], NEW b, QueuedOnce(q, b), NEW k \in Queues
    PROVE  QueuedOnce([q EXCEPT ![k] = <<>>], b \ ToSet(q[k]))
<1> DEFINE p == [i \in DOMAIN <<>> |-> 1]
<1>1. /\ DOMAIN <<>> = {} /\ <<>> \in Seq(Threads)
      /\ p \in [DOMAIN <<>> -> DOMAIN q[k]]
  OBVIOUS
<1>2. /\ \A i \in DOMAIN q[k] : q[k][i] \in ToSet(q[k])
      /\ \A t \in ToSet(q[k]) : \E i \in DOMAIN q[k] : q[k][i] = t
  BY DEF ToSet
<1> HIDE DEF p
<1>3. QED
  BY <1>1, <1>2, DropQueued

LEMMA RemoveQueued ==
    ASSUME NEW q \in [Queues -> Seq(Threads)], NEW b, QueuedOnce(q, b),
           NEW k \in Queues, NEW n \in DOMAIN q[k]
    PROVE  /\ QueuedOnce([q EXCEPT ![k] = RemoveAt(q[k], n)], b \ {q[k][n]})
           /\ ToSet(RemoveAt(q[k], n)) \subseteq ToSet(q[k])
<1> DEFINE s == RemoveAt(q[k], n)
           p == [i \in DOMAIN s |-> IF i < n THEN i ELSE i + 1]
<1>1. /\ q[k] \in Seq(Threads) /\ Len(q[k]) \in Nat /\ DOMAIN q[k] = 1 .. Len(q[k])
      /\ n \in 1 .. Len(q[k])
  OBVIOUS
<1>2. /\ s \in Seq(Threads) /\ Len(s) = Len(q[k]) - 1 /\ DOMAIN s = 1 .. Len(s)
      /\ \A i \in DOMAIN s : s[i] = q[k][IF i < n THEN i ELSE i + 1]
  <2> DEFINE before == SubSeq(q[k], 1, n - 1)
             after == SubSeq(q[k], n + 1, Len(q[k]))
  <2>1. /\ before \in Seq(Threads) /\ Len(before) = n - 1
        /\ \A i \in 1 .. n - 1 : before[i] = q[k][i]
    BY <1>1
  <2>2. /\ after \in Seq(Threads) /\ Len(after) = Len(q[k]) - n
        /\ \A i \in 1 .. Len(q[k]) - n : after[i] = q[k][i + n]
    BY <1>1, SMTT(30)
  <2>3. s = before \o after
    BY DEF RemoveAt
  <2> HIDE DEF before, after, s
  <2>4. s \in Seq(Threads) /\ Len(s) = Len(q[k]) - 1 /\ DOMAIN s = 1 .. Len(s)
    <3>1. s \in Seq(Threads) /\ Len(s) = Len(before) + Len(after)
      BY <2>1, <2>2, <2>3
    <3>2. DOMAIN s = 1 .. Len(s)
      BY <3>1
    <3>3. QED
      BY <1>1, <2>1, <2>2, <3>1, <3>2
  <2>5. ASSUME NEW i \in DOMAIN s PROVE s[i] = q[k][IF i < n THEN i ELSE i + 1]
    <3>1. i \in 1 .. Len(before) + Len(after)
      BY <1>1, <2>1, <2>2, <2>4
    <3>2. s[i] = IF i <= Len(before) THEN before[i] ELSE after[i - Len(before)]
      BY <2>1, <2>2, <2>3, <3>1
    <3>3. CASE i < n
      BY <1>1, <2>1, <3>1, <3>2, <3>3
    <3>4. CASE i >= n
      <4>1. s[i] = after[i - (n - 1)] /\ i - (n - 1) \in 1 .. Len(q[k]) - n
        BY <1>1, <2>1, <2>2, <3>1, <3>2, <3>4
      <4>2. (i - (n - 1)) + n = i + 1 /\ ~(i < n)
        BY <1>1, <3>1, <3>4
      <4>3. after[i - (n - 1)] = q[k][(i - (n - 1)) + n]
        BY <2>2, <4>1
      <4>4. QED
        BY <4>1, <4>2, <4>3
    <3>5. QED
      BY <1>1, <3>1, <3>3, <3>4
  <2>6. QED
    BY <2>4, <2>5
<1> HIDE DEF s
<1>3. p \in [DOMAIN s -> DOMAIN q[k]]
  BY <1>1, <1>2
<1>4. /\ \A i, j \in DOMAIN s : p[i] = p[j] => i = j
      /\ \A i \in DOMAIN s : s[i] = q[k][p[i]]
  BY <1>1, <1>2
<1>5. ASSUME NEW i \in DOMAIN q[k]
      PROVE  q[k][i] \in {q[k][n]} <=> \A j \in DOMAIN s : p[j] # i
  <2>1. q[k][i] = q[k][n] => i = n
    BY DEF QueuedOnce
  <2>2. i < n => i \in DOMAIN s /\ p[i] = i
    BY <1>1, <1>2
  <2>3. i > n => i - 1 \in DOMAIN s /\ p[i - 1] = i
    BY <1>1, <1>2
  <2>4. \A j \in DOMAIN s : p[j] # n
    BY <1>1, <1>2
  <2>5. QED
    BY <1>1, <2>1, <2>2, <2>3, <2>4
<1>6. ToSet(s) \subseteq ToSet(q[k])
  BY <1>3, <1>4 DEF ToSet
<1> HIDE DEF p
<1>7. \A t \in {q[k][n]} : \E i \in DOMAIN q[k] : q[k][i] = t
  OBVIOUS
<1>8. QueuedOnce([q EXCEPT ![k] = s], b \ {q[k][n]})
  BY <1>2, <1>3, <1>4, <1>5, <1>7, DropQueued
<1>9. QED
  BY <1>6, <1>8 DEF s

LEMMA EnqueueQueued ==
    ASSUME NEW q \in [Queues -> Seq(Threads)], NEW b, QueuedOnce(q, b),
           NEW k \in Queues, NEW t \in Threads, t \notin b
    PROVE  QueuedOnce([q EXCEPT ![k] = Enqueue(q[k], t)], b \cup {t})
<1> DEFINE r == [q EXCEPT ![k] = Enqueue(q[k], t)]
           n == Len(q[k]) + 1
<1>1. \A j \in Queues : \A i \in DOMAIN q[j] : q[j][i] # t
  BY DEF QueuedOnce
<1>2. r[k] = Append(q[k], t) /\ \A j \in Queues \ {k} : r[j] = q[j]
  BY <1>1 DEF Enqueue, ToSet
<1>3. /\ n \in DOMAIN r[k] /\ r[k][n] = t
      /\ \A i \in DOMAIN r[k] \ {n} : i \in DOMAIN q[k] /\ r[k][i] = q[k][i]
      /\ \A i \in DOMAIN q[k] : i \in DOMAIN r[k] /\ r[k][i] = q[k][i]
  <2>1. q[k] \in Seq(Threads)
    OBVIOUS
  <2>2. DOMAIN Append(q[k], t) = 1 .. n /\ DOMAIN q[k] = 1 .. n - 1 /\ n \in Nat \ {0}
    BY <2>1
  <2>3. Append(q[k], t)[n] = t /\ \A i \in 1 .. n - 1 : Append(q[k], t)[i] = q[k][i]
    BY <2>1
  <2> HIDE DEF r, n
  <2>4. QED
    BY <1>2, <2>2, <2>3
<1> HIDE DEF r, n
<1>4. \A j \in Queues : \A i \in DOMAIN r[j] :
         \/ j = k /\ i = n /\ r[j][i] = t
         \/ i \in DOMAIN q[j] /\ r[j][i] = q[j][i]
  BY <1>2, <1>3
<1>5. ASSUME NEW j \in Queues, NEW l \in Queues, NEW i \in DOMAIN r[j], NEW m \in DOMAIN r[l],
             r[j][i] = r[l][m]
      PROVE  j = l /\ i = m
  <2>1. CASE j = k /\ i = n /\ r[j][i] = t
    BY <1>1, <1>4, <1>5, <2>1
  <2>2. CASE i \in DOMAIN q[j] /\ r[j][i] = q[j][i]
    <3>1. m \in DOMAIN q[l] /\ r[l][m] = q[l][m]
      BY <1>1, <1>4, <1>5, <2>2
    <3>2. q[j][i] = q[l][m]
      BY <1>5, <2>2, <3>1
    <3>3. QED
      BY <2>2, <3>1, <3>2 DEF QueuedOnce
  <2>3. QED
    BY <1>4, <2>1, <2>2
<1>6. ASSUME NEW u \in Threads
      PROVE  u \in b \cup {t} <=> \E j \in Queues : \E i \in DOMAIN r[j] : r[j][i] = u
  <2>1. ASSUME NEW j \in Queues, NEW i \in DOMAIN q[j], q[j][i] = u
        PROVE  i \in DOMAIN r[j] /\ r[j][i] = u
    BY <1>2, <1>3, <2>1
  <2>2. QED
    BY <1>3, <1>4, <2>1 DEF QueuedOnce
<1>7. QED
  BY <1>5, <1>6 DEF QueuedOnce, r

\* u leaves its queue, if it does, because it is timed out
TimedOutOf(u, b, to) ==
    \/ (u \in blocked' <=> u \in b) /\ (u \in timedOut' <=> u \in to)
    \/ u \in b /\ u \notin blocked' /\ u \in timedOut'

LEMMA HandOffQueued ==
    ASSUME NEW t \in Threads, NEW f, NEW b \in SUBSET Threads,
           NEW q \in [Queues -> Seq(Threads)], NEW tm, NEW to \in SUBSET Threads,
           QueuedOnce(q, b), HandOff(t, f, b, q, tm, to)
    PROVE  /\ QueuedOnce(queue', blocked')
           /\ \A j \in Queues : ToSet(queue'[j]) \subseteq ToSet(q[j])
           /\ \A u \in Threads : TimedOutOf(u, b, to)
           /\ blocked' \subseteq b
<1>1. CASE queue' = q /\ blocked' = b /\ timedOut' = to
  BY <1>1 DEF TimedOutOf
<1>2. CASE \E k \in Expirable(q, tm, f) : \E i \in FirstTimed(q[k], tm, f) :
            /\ queue' = [q EXCEPT ![k] = RemoveAt(q[k], i)]
            /\ blocked' = b \ {q[k][i]}
            /\ timedOut' = to \cup {q[k][i]}
  <2>0. PICK k \in Queues : \E i \in DOMAIN q[k] :
            /\ queue' = [q EXCEPT ![k] = RemoveAt(q[k], i)]
            /\ blocked' = b \ {q[k][i]}
            /\ timedOut' = to \cup {q[k][i]}
    BY <1>2, ExpirableQueues DEF FirstTimed
  <2>1. PICK i \in DOMAIN q[k] :
            /\ queue' = [q EXCEPT ![k] = RemoveAt(q[k], i)]
            /\ blocked' = b \ {q[k][i]}
            /\ timedOut' = to \cup {q[k][i]}
    BY <2>0
  <2>2. /\ QueuedOnce(queue', blocked')
        /\ ToSet(RemoveAt(q[k], i)) \subseteq ToSet(q[k])
    BY <2>1, RemoveQueued
  <2>3. q[k][i] \in Threads /\ q[k][i] \in b
    BY DEF QueuedOnce
  <2>4. \A j \in Queues : queue'[j] = q[j] \/ (j = k /\ queue'[j] = RemoveAt(q[k], i))
    BY <2>1
  <2>5. \A u \in Threads : TimedOutOf(u, b, to)
    BY <2>1, <2>3 DEF TimedOutOf
  <2>6. QED
    BY <2>1, <2>2, <2>4, <2>5
<1>3. QED
  BY <1>1, <1>2 DEF HandOff

\* Whoever leaves a queue by a hand-over is a timed waiter that is timed out
LEMMA HandOffTimed ==
    ASSUME NEW t \in Threads, NEW f, NEW b \in SUBSET Threads,
           NEW q \in [Queues -> Seq(Threads)], NEW tm, NEW to \in SUBSET Threads,
           QueuedOnce(q, b), HandOff(t, f, b, q, tm, to)
    PROVE  /\ \A u \in Threads :
                 /\ u \in b /\ u \notin blocked' => u \in tm /\ u \in timedOut'
                 /\ u \in timedOut' /\ u \notin to => u \in b /\ u \in tm
                 /\ u \in to => u \in timedOut'
           /\ \A j \in Queues :
                 j \notin UNION {ConditionQueues, LockQueues, SharedQueues, SemaphoreQueues}
                    => queue'[j] = q[j]
<1>1. CASE queue' = q /\ blocked' = b /\ timedOut' = to
  BY <1>1
<1>2. ASSUME NEW k \in Expirable(q, tm, f), NEW i \in FirstTimed(q[k], tm, f),
             /\ queue' = [q EXCEPT ![k] = RemoveAt(q[k], i)]
             /\ blocked' = b \ {q[k][i]}
             /\ timedOut' = to \cup {q[k][i]}
      PROVE  /\ \A u \in Threads :
                 /\ u \in b /\ u \notin blocked' => u \in tm /\ u \in timedOut'
                 /\ u \in timedOut' /\ u \notin to => u \in b /\ u \in tm
                 /\ u \in to => u \in timedOut'
             /\ \A j \in Queues :
                 j \notin UNION {ConditionQueues, LockQueues, SharedQueues, SemaphoreQueues}
                    => queue'[j] = q[j]
  <2>1. k \in Queues /\ i \in DOMAIN q[k] /\ q[k][i] \in tm
    BY <1>2, ExpirableQueues DEF FirstTimed
  <2>2. q[k][i] \in Threads /\ q[k][i] \in b
    BY <2>1 DEF QueuedOnce
  <2>3. k \in UNION {ConditionQueues, LockQueues, SharedQueues, SemaphoreQueues}
    BY <1>2 DEF Expirable
  <2>4. QED
    BY <1>2, <2>1, <2>2, <2>3
<1>3. QED
  BY <1>1, <1>2 DEF HandOff

\* t joins queue k, those of b staying in theirs or timed out; t itself may be
\* the one that is timed out
Joins(t, k, q, b, to) ==
    /\ \A j \in Queues : \A u \in ToSet(queue'[j]) : u \in ToSet(q[j]) \/ (j = k /\ u = t)
    /\ \A u \in Threads \ {t} : TimedOutOf(u, b, to)
    /\ t \in blocked' \/ t \in timedOut'
    /\ blocked' \subseteq b \cup {t}

LEMMA BlockQueued ==
    ASSUME CoreTypeOK, NEW t \in Threads, NEW k \in Queues,
           NEW q \in [Queues -> Seq(Threads)], NEW b \in SUBSET Threads,
           NEW to \in SUBSET Threads, NEW isTimed \in BOOLEAN,
           QueuedOnce(q, b), t \notin b,
           Block(t, k, q, b, to, isTimed)
    PROVE  QueuedOnce(queue', blocked') /\ Joins(t, k, q, b, to)
<1> DEFINE q1 == [q EXCEPT ![k] = Enqueue(q[k], t)]
           b1 == b \cup {t}
           tm1 == IF isTimed THEN timed \cup {t} ELSE timed
           to1 == IF isTimed THEN to \ {t} ELSE to
<1>1. /\ q1 \in [Queues -> Seq(Threads)] /\ b1 \in SUBSET Threads /\ to1 \in SUBSET Threads
      /\ \A u \in Threads \ {t} : (u \in b1 <=> u \in b) /\ (u \in to1 <=> u \in to)
      /\ t \in b1
  BY EnqueueType
<1>2. QueuedOnce(q1, b1)
  BY EnqueueQueued
<1>3. \A j \in Queues : \A u \in ToSet(q1[j]) : u \in ToSet(q[j]) \/ (j = k /\ u = t)
  <2>1. \A j \in Queues \ {k} : q1[j] = q[j]
    OBVIOUS
  <2>2. q1[k] = q[k] \/ q1[k] = Append(q[k], t)
    BY DEF Enqueue
  <2>3. ToSet(Append(q[k], t)) \subseteq ToSet(q[k]) \cup {t}
    <3>1. q[k] \in Seq(Threads)
      OBVIOUS
    <3>2. \A i \in DOMAIN Append(q[k], t) : Append(q[k], t)[i] = t \/
              (i \in DOMAIN q[k] /\ Append(q[k], t)[i] = q[k][i])
      BY <3>1
    <3>3. QED
      BY <3>2 DEF ToSet
  <2>4. QED
    BY <2>1, <2>2, <2>3
<1>4. \/ HandOff(t, finished, b1, q1, tm1, to1)
      \/ queue' = q1 /\ blocked' = b1 /\ timedOut' = to1
  BY DEF Block
<1> HIDE DEF q1, b1, tm1, to1
<1>5. CASE HandOff(t, finished, b1, q1, tm1, to1)
  <2>1. /\ QueuedOnce(queue', blocked')
        /\ \A j \in Queues : ToSet(queue'[j]) \subseteq ToSet(q1[j])
        /\ \A u \in Threads : TimedOutOf(u, b1, to1)
        /\ blocked' \subseteq b1
    BY <1>1, <1>2, <1>5, HandOffQueued
  <2>2. \A u \in Threads \ {t} : TimedOutOf(u, b, to)
    BY <1>1, <2>1 DEF TimedOutOf
  <2>3. t \in blocked' \/ t \in timedOut'
    BY <1>1, <2>1 DEF TimedOutOf
  <2>4. QED
    BY <1>3, <2>1, <2>2, <2>3 DEF b1, Joins
<1>6. CASE queue' = q1 /\ blocked' = b1 /\ timedOut' = to1
  BY <1>1, <1>2, <1>3, <1>6 DEF TimedOutOf, b1, Joins
<1>7. QED
  BY <1>4, <1>5, <1>6

-----------------------------------------------------------------------------
(* Waiting: the wait queues and the sleepers.                              *)

\* A blocked thread is where it waits, until a deadlock is found; an abort may
\* end it while it is still queued
BlockedWait ==
    ~deadlocked => \A t \in blocked :
        pc[t] = "blocked" \/ (abortRequested /\ pc[t] \in {"finishing", "done"})

WaitInv ==
    /\ AliveInv
    /\ QueuedOnce(queue, blocked)
    /\ BlockedWait
    /\ NoMissedNotify

LEMMA QueuedOnceCounts ==
    ASSUME queue \in [Queues -> Seq(Threads)], QueuedOnce(queue, blocked)
    PROVE  QueuedOnceIffBlocked
<1> SUFFICES ASSUME NEW t \in Threads
             PROVE  /\ t \in blocked <=> Slots(t) # {}
                    /\ Cardinality(Slots(t)) <= 1
  BY DEF QueuedOnceIffBlocked
<1>1. \A s : s \in Slots(t) <=> \E k \in Queues : \E i \in DOMAIN queue[k] :
                                   s = <<k, i>> /\ queue[k][i] = t
  BY DEF Slots
<1>2. t \in blocked <=> Slots(t) # {}
  <2>1. t \in blocked <=> \E k \in Queues : \E i \in DOMAIN queue[k] : queue[k][i] = t
    BY DEF QueuedOnce
  <2>2. (\E k \in Queues : \E i \in DOMAIN queue[k] : queue[k][i] = t) <=> Slots(t) # {}
    <3>1. ASSUME NEW k \in Queues, NEW i \in DOMAIN queue[k], queue[k][i] = t
          PROVE  <<k, i>> \in Slots(t)
      BY <1>1, <3>1
    <3>2. QED
      BY <1>1, <3>1
  <2>3. QED
    BY <2>1, <2>2
<1>3. \A r, s \in Slots(t) : r = s
  BY <1>1 DEF QueuedOnce
<1>4. CASE Slots(t) = {}
  BY <1>2, <1>4, FS_EmptySet
<1>5. CASE Slots(t) # {}
  <2>1. PICK s : Slots(t) = {s}
    BY <1>3, <1>5
  <2>2. Cardinality({s}) = 1
    BY FS_Singleton
  <2>3. QED
    BY <1>2, <2>1, <2>2
<1>6. QED
  BY <1>4, <1>5

\* A thread inside a call, in a run that is not failing, is in no queue
LEMMA CallerNotBlocked ==
    ASSUME WaitInv, NEW t \in Threads, InControl(t), ~deadlocked, t \notin aborted
    PROVE  /\ t \notin blocked /\ scheduled = t /\ ~abortRequested
           /\ started /\ ready = Threads /\ aborted = {}
<1>1. scheduled = t /\ ~abortRequested
  BY InControlHasToken DEF WaitInv, AliveInv, TokenInv, AbortReachesPeers, InControl, Running
<1>2. started /\ t \notin finished
  BY <1>1, NAssumption DEF WaitInv, AliveInv, TokenInv, InControl, Running, Threads, NoThread
<1>3. QED
  BY <1>1, <1>2 DEF WaitInv, AliveInv, TokenNotLost, Active

\* ... and neither is one that goes on after its wait
LEMMA AwakeNotBlocked ==
    ASSUME WaitInv, NEW t \in Threads, pc[t] = "blocked", Awake(t), t \notin aborted, ~deadlocked
    PROVE  t \notin blocked /\ scheduled = t /\ ~abortRequested
<1>1. ~abortRequested
  BY DEF WaitInv, AliveInv, TokenInv, AbortReachesPeers
<1>2. QED
  BY <1>1 DEF Awake, Resumable

\* A step of t that notifies nobody, because it can make no predicate true
LEMMA QuietSleepers ==
    ASSUME CoreTypeOK, NoMissedNotify, NEW t \in Threads,
           Waiting(t) => Awake(t), NEW l, Goto(t, l),
           l \notin {"ready", "beforeWait", "afterWait", "blocked"},
           UNCHANGED <<handVars, ready, started, abortRequested, deadlocked, blocked>>
    PROVE  NoMissedNotify'
<1>1. pc'[t] = l /\ \A u \in Threads \ {t} : pc'[u] = pc[u]
  BY DEF Goto, CoreTypeOK
<1>2. ~Waiting(t)' /\ (Waiting(t) => Resumable(t))
  BY <1>1 DEF Waiting, Awake
<1>3. \A u \in Threads \ {t} : (Waiting(u)' <=> Waiting(u)) /\ (Resumable(u)' <=> Resumable(u))
  BY <1>1 DEF Waiting, Resumable, handVars
<1>4. Sleepers' = Sleepers
  BY <1>2, <1>3 DEF Sleepers
<1>5. QED
  BY <1>4 DEF NoMissedNotify, handVars

\* A method that goes on: it may wake others, never block
LEMMA MethodWait ==
    ASSUME WaitInv, AliveInv', NEW t \in Threads,
           pc[t] \in {"user", "before", "call", "after", "blocked"},
           pc[t] = "blocked" => Awake(t) /\ t \notin aborted,
           NEW l, Goto(t, l), l \notin {"ready", "beforeWait", "afterWait", "blocked"},
           blocked' \subseteq blocked, QueuedOnce(queue', blocked'),
           UNCHANGED <<ready, started, abortRequested, deadlocked>>,
           NotifyAll \/ UNCHANGED <<handVars, blocked>>
    PROVE  WaitInv'
<1>1. CoreTypeOK
  BY DEF WaitInv, AliveInv, TokenInv
<1>2. pc'[t] = l /\ \A u \in Threads \ {t} : pc'[u] = pc[u]
  BY <1>1 DEF Goto, CoreTypeOK
<1>3. ~deadlocked => t \notin blocked
  BY AwakeNotBlocked DEF WaitInv, BlockedWait
<1>4. BlockedWait'
  BY <1>1, <1>2, <1>3 DEF WaitInv, BlockedWait, CoreTypeOK
<1>5. NoMissedNotify'
  <2>1. CASE NotifyAll
    BY <2>1 DEF NotifyAll, NoMissedNotify
  <2>2. CASE UNCHANGED <<handVars, blocked>>
    BY <1>1, <2>2, QuietSleepers DEF WaitInv, Waiting
  <2>3. QED
    BY <2>1, <2>2
<1>6. QED
  BY <1>4, <1>5 DEF WaitInv

\* A method that blocks; the queues q and the blocked threads b are what it
\* leaves of them before it queues t
LEMMA BlockWait ==
    ASSUME WaitInv, AliveInv', NEW t \in Threads, pc[t] = "call", ~deadlocked, t \notin aborted,
           NEW k \in Queues, NEW q \in [Queues -> Seq(Threads)], NEW b \in SUBSET Threads,
           NEW to \in SUBSET Threads, NEW isTimed \in BOOLEAN,
           QueuedOnce(q, b), b \subseteq blocked,
           Block(t, k, q, b, to, isTimed)
    PROVE  WaitInv'
<1>1. CoreTypeOK
  BY DEF WaitInv, AliveInv, TokenInv
<1>2. t \notin blocked /\ t \notin b
  BY CallerNotBlocked DEF InControl, Running
<1>3. QueuedOnce(queue', blocked') /\ blocked' \subseteq blocked \cup {t}
  <2>1. QueuedOnce(queue', blocked') /\ Joins(t, k, q, b, to)
    BY <1>1, <1>2, BlockQueued
  <2>2. QED
    BY <2>1 DEF Joins
<1>4. /\ deadlocked' \/ pc'[t] = "blocked"
      /\ \A u \in Threads \ {t} : pc'[u] = pc[u]
      /\ UNCHANGED abortRequested
  BY <1>1 DEF Block, Goto, Fail, tokenVars, CoreTypeOK
<1>5. BlockedWait'
  BY <1>1, <1>3, <1>4 DEF WaitInv, BlockedWait, CoreTypeOK
<1>6. NoMissedNotify'
  BY DEF Block, NotifyAll, NoMissedNotify
<1>7. QED
  BY <1>3, <1>5, <1>6 DEF WaitInv

LEMMA CoreStepWait ==
    ASSUME WaitInv, AliveInv', NEW t \in Threads, CoreStep(t)
    PROVE  WaitInv'
<1>1. /\ CoreTypeOK /\ CoreTypeOK' /\ pc \in [Threads -> Locations]
      /\ blocked \in SUBSET Threads /\ timedOut \in SUBSET Threads
      /\ queue \in [Queues -> Seq(Threads)] /\ QueuedOnce(queue, blocked)
  BY DEF WaitInv, AliveInv, TokenInv, CoreTypeOK
<1>2. \A u \in Threads \ {t} : pc'[u] = pc[u]
  BY <1>1 DEF CoreStep, WorkerReady, ReadyWake, SwitchStay, SwitchTo, SwitchLivelock, SwitchWake,
              CallInterrupted, UserReturn, UserThrow, SwallowException, RecordFailure,
              RequestAbort, FinishThread, BlockedInterrupted, ResumeAt, Fail, Goto
<1>3. QueuedOnce(queue', blocked') /\ blocked' \subseteq blocked
  <2>1. CASE UNCHANGED <<queue, blocked>>
    BY <1>1, <2>1
  <2>2. CASE \E f : HandOff(t, f, blocked, queue, timed, timedOut)
    BY <1>1, <2>2, HandOffQueued
  <2>3. QED
    BY <2>1, <2>2 DEF CoreStep, WorkerReady, ReadyWake, SwitchStay, SwitchTo, SwitchLivelock,
              SwitchWake, CallInterrupted, UserReturn, UserThrow, SwallowException, RecordFailure,
              RequestAbort, FinishThread, BlockedInterrupted, waitVars
<1>4. /\ deadlocked => deadlocked'
      /\ abortRequested => abortRequested'
  <2>1. CASE FinishThread(t)
    <3>1. UNCHANGED abortRequested
      BY <2>1 DEF FinishThread
    <3>2. deadlocked => deadlocked'
      BY <2>1, Zenon DEF FinishThread
    <3>3. QED
      BY <3>1, <3>2
  <2>2. CASE ~FinishThread(t)
    BY <2>2 DEF CoreStep, WorkerReady, ReadyWake, SwitchStay, SwitchTo, SwitchLivelock, SwitchWake,
              CallInterrupted, UserReturn, UserThrow, SwallowException, RecordFailure,
              RequestAbort, BlockedInterrupted, tokenVars
  <2>3. QED
    BY <2>1, <2>2
<1>5. ASSUME ~deadlocked, t \in blocked
      PROVE  pc'[t] = "blocked" \/ (abortRequested' /\ pc'[t] \in {"finishing", "done"})
  <2>1. pc[t] = "blocked" \/ (abortRequested /\ pc[t] \in {"finishing", "done"})
    BY <1>5 DEF WaitInv, BlockedWait
  <2>2. CASE BlockedInterrupted(t)
    <3>1. t \in aborted /\ pc'[t] = "finishing"
      BY <1>1, <1>5, <2>2 DEF BlockedInterrupted, ResumeAt, Goto
    <3>2. abortRequested'
      BY <1>4, <3>1 DEF WaitInv, AliveInv
    <3>3. QED
      BY <3>1, <3>2
  <2>3. CASE FinishThread(t)
    BY <1>1, <1>4, <2>1, <2>3 DEF FinishThread, Goto
  <2>4. CASE ~BlockedInterrupted(t) /\ ~FinishThread(t)
    BY <2>1, <2>4 DEF CoreStep, WorkerReady, ReadyWake, SwitchStay, SwitchTo, SwitchLivelock,
              SwitchWake, CallInterrupted, UserReturn, UserThrow, SwallowException, RecordFailure,
              RequestAbort, AtSwitchPoint
  <2>5. QED
    BY <2>2, <2>3, <2>4
<1>6. BlockedWait'
  BY <1>1, <1>2, <1>3, <1>4, <1>5 DEF WaitInv, BlockedWait
<1>7. NoMissedNotify'
  <2>1. CASE NotifyAll
    BY <2>1 DEF NotifyAll, NoMissedNotify
  <2>2. CASE ~NotifyAll
    <3>1. /\ Waiting(t) => Awake(t)
          /\ \E l : /\ l \notin {"ready", "beforeWait", "afterWait", "blocked"}
                    /\ Goto(t, l)
          /\ UNCHANGED <<handVars, ready, started, abortRequested, deadlocked, blocked>>
      <4>1. CASE ReadyWake(t) \/ SwitchStay(t) \/ UserReturn(t) \/ UserThrow(t)
        BY <4>1 DEF ReadyWake, SwitchStay, AtSwitchPoint, AfterSwitch, UserReturn, UserThrow, Fail,
                    Waiting, tokenVars, waitVars
      <4>2. CASE SwitchWake(t) \/ CallInterrupted(t) \/ BlockedInterrupted(t)
        BY <4>2 DEF SwitchWake, CallInterrupted, BlockedInterrupted, ResumeAt, Fail, AfterSwitch,
                    Waiting, tokenVars, waitVars
      <4>3. CASE SwallowException(t) \/ RecordFailure(t)
        BY <4>3 DEF SwallowException, RecordFailure, Waiting, tokenVars, waitVars
      <4>4. QED
        BY <2>2, <4>1, <4>2, <4>3 DEF CoreStep, WorkerReady, SwitchTo, SwitchLivelock,
              RequestAbort, FinishThread
    <3>2. QED
      BY <1>1, <3>1, QuietSleepers DEF WaitInv
  <2>3. QED
    BY <2>1, <2>2
<1>8. QED
  BY <1>3, <1>6, <1>7 DEF WaitInv

LEMMA WaitInit == CoreInit => WaitInv
<1> SUFFICES ASSUME CoreInit PROVE QueuedOnce(queue, blocked) /\ BlockedWait /\ NoMissedNotify
  BY AliveInit DEF WaitInv
<1>1. QueuedOnce(queue, blocked)
  BY DEF CoreInit, QueuedOnce
<1>2. BlockedWait
  BY DEF CoreInit, BlockedWait
<1>3. Sleepers = {Main}
  BY NAssumption DEF CoreInit, Sleepers, Waiting, Threads
<1>4. QED
  BY <1>1, <1>2, <1>3 DEF CoreInit, NoMissedNotify

LEMMA WaitUntilReadyWait ==
    ASSUME WaitInv, WaitUntilReady
    PROVE  WaitInv'
<1>1. AliveInv'
  BY WaitUntilReadyAlive DEF WaitInv
<1>2. UNCHANGED <<queue, blocked, pc, deadlocked, abortRequested>> /\ NotifyAll
  BY DEF WaitUntilReady, waitVars
<1>3. QED
  BY <1>1, <1>2 DEF WaitInv, BlockedWait, NotifyAll, NoMissedNotify

LEMMA WaitUnchanged ==
    ASSUME WaitInv, UNCHANGED coreVars
    PROVE  WaitInv'
<1>1. AliveInv'
  BY AliveUnchanged DEF WaitInv
<1>2. UNCHANGED <<ready, started, scheduled, blocked, abortRequested, deadlocked, pc, queue, asleep>>
  BY DEF coreVars, tokenVars, handVars, waitVars
<1>3. Sleepers' = Sleepers
  BY <1>2 DEF Sleepers, Waiting, Resumable
<1>4. QED
  BY <1>1, <1>2, <1>3 DEF WaitInv, BlockedWait, NoMissedNotify

-----------------------------------------------------------------------------
(* Deadlocks.                                                              *)

\* Nobody can run and no timeout is pending
Stuck == Active(finished, blocked) = {} /\ Expirable(queue, timed, finished) = {}

LEMMA CoreStepStuck ==
    ASSUME NEW t \in Threads, CoreStep(t), ~deadlocked, deadlocked'
    PROVE  Stuck'
<1>1. FinishThread(t)
  BY DEF CoreStep, WorkerReady, ReadyWake, SwitchStay, SwitchTo, SwitchLivelock, SwitchWake,
         CallInterrupted, UserReturn, UserThrow, SwallowException, RecordFailure,
         RequestAbort, BlockedInterrupted
<1>2. /\ ~CanHandOff(finished', blocked, queue, timed)
      /\ deadlocked' = (deadlocked \/ (~abortRequested /\ ready \ finished' # {}))
      /\ UNCHANGED <<queue, blocked, timed, ready, aborted>>
  BY <1>1 DEF FinishThread
<1>3. ~abortRequested
  BY <1>2, Zenon
<1>4. QED
  BY <1>2, <1>3 DEF CanHandOff, Stuck, Active, Expirable, HasTimed

LEMMA BlockStuck ==
    ASSUME ~abortRequested, NEW t, NEW k, NEW q, NEW b, NEW to, NEW isTimed,
           Block(t, k, q, b, to, isTimed), ~deadlocked, deadlocked'
    PROVE  Stuck'
<1>1. /\ ~CanHandOff(finished, blocked', queue', timed')
      /\ UNCHANGED <<ready, finished, aborted>>
  BY DEF Block, tokenVars
<1>2. QED
  BY <1>1 DEF CanHandOff, Stuck, Active, Expirable, HasTimed

-----------------------------------------------------------------------------
(* Failure reports, when no operation turns exceptions into results.       *)

Idle(t) == pc[t] \in {"spawned", "ready", "beforeWait", "afterWait", "blocked",
                      "finishing", "done"}

Failing(t) == pc[t] \in {"failed", "recorded"}

OverBudget == switchCount > Budget

\* Until the abort or a deadlock whatever went wrong is in the hands of one
\* worker, which has not stopped the others yet
RunReport ==
    /\ exception # "none" => \E t \in Threads : pc[t] = "recorded"
    /\ OverBudget => \E t \in Threads : Failing(t)
    /\ \A t \in Threads :
          /\ pc[t] = "failed" =>
                failure[t] # "none" /\ (OverBudget => failure[t] = "livelock")
          /\ pc[t] = "recorded" =>
                exception # "none" /\ (OverBudget => exception = "livelock")

\* After the abort the failure is kept and nobody can fail any more
AbortReport ==
    /\ exception # "none"
    /\ OverBudget => exception = "livelock"
    /\ \A t \in Threads : Idle(t)

\* A deadlock leaves nobody anything else to report
DeadlockReport ==
    /\ ~OverBudget
    /\ \A t \in Threads :
          /\ pc[t] \in {"blocked", "failed", "recorded", "finishing", "done"}
          /\ pc[t] = "failed" => failure[t] = "deadlock"
          /\ pc[t] = "recorded" => exception = "deadlock"
    /\ exception \in {"none", "deadlock"}
    /\ exception = "none" =>
            ~abortRequested /\ \E t \in Threads : pc[t] \in {"blocked", "failed"}

FailInv ==
    /\ ~deadlocked /\ ~abortRequested => RunReport
    /\ ~deadlocked /\ abortRequested => AbortReport
    /\ deadlocked => DeadlockReport

\* The worker that holds the token is the only one that can have failed
LEMMA OthersIdle ==
    ASSUME WaitInv, ~deadlocked, ~abortRequested, NEW t \in Threads, scheduled = t
    PROVE  \A u \in Threads \ {t} : Idle(u)
BY DEF WaitInv, AliveInv, TokenInv, TokenExclusive, InControl, Running, Idle, CoreTypeOK, Locations

\* A thread that goes from one place to another, failing in neither
LEMMA QuietFail ==
    ASSUME WaitInv, FailInv, NEW t \in Threads, NEW l, Goto(t, l), ~Failing(t),
           l \notin {"failed", "recorded"}, ~deadlocked,
           abortRequested => l \in {"ready", "finishing", "done"},
           UNCHANGED <<failVars, deadlocked, abortRequested>>,
           switchCount' = switchCount \/ switchCount' \in 0 .. Budget
    PROVE  FailInv'
<1>1. pc'[t] = l /\ \A u \in Threads \ {t} : pc'[u] = pc[u]
  BY DEF Goto, WaitInv, AliveInv, TokenInv, CoreTypeOK
<1>2. exception' = exception /\ failure' = failure
  BY DEF failVars
<1>3. OverBudget' => OverBudget
  BY BudgetAssumption DEF OverBudget, WaitInv, AliveInv, TokenInv, CoreTypeOK
<1>4. CASE abortRequested
  BY <1>1, <1>2, <1>3, <1>4 DEF FailInv, AbortReport, Idle
<1>5. CASE ~abortRequested
  <2>1. \A u \in Threads : pc'[u] # pc[u] => ~Failing(u) /\ ~Failing(u)' /\ u = t
    BY <1>1 DEF Failing
  <2>2. RunReport
    BY <1>5 DEF FailInv
  <2>3. RunReport'
    BY <1>2, <1>3, <2>1, <2>2 DEF RunReport, Failing
  <2>4. QED
    BY <1>5, <2>3 DEF FailInv
<1>6. QED
  BY <1>4, <1>5

\* A method of a worker in control, or one that goes on after its wait
LEMMA MethodFail ==
    ASSUME WaitInv, FailInv, NEW t \in Threads,
           pc[t] \in {"user", "before", "call", "after", "blocked"},
           pc[t] = "blocked" => Awake(t) /\ t \notin aborted /\ ~deadlocked,
           NEW l, Goto(t, l), l \notin {"failed", "recorded"},
           UNCHANGED <<failVars, deadlocked, abortRequested, switchCount>>
    PROVE  FailInv'
<1>1. ~deadlocked
  BY DEF FailInv, DeadlockReport
<1>2. ~abortRequested
  BY <1>1, AwakeNotBlocked DEF FailInv, AbortReport, Idle
<1>3. QED
  BY <1>1, <1>2, QuietFail DEF Failing

\* A worker in control fails, or one that goes on after its wait
LEMMA ThrowFail ==
    ASSUME WaitInv, FailInv, NEW t \in Threads, ~deadlocked,
           \/ Running(t)
           \/ pc[t] = "blocked" /\ Awake(t) /\ t \notin aborted,
           NEW kind, kind # "none", Fail(t, kind), UNCHANGED <<deadlocked, abortRequested>>,
           switchCount' = switchCount \/ kind = "livelock"
    PROVE  FailInv'
<1>1. ~abortRequested /\ scheduled = t
  <2>1. CASE Running(t)
    <3>1. ~abortRequested
      BY <2>1 DEF FailInv, AbortReport, Idle, Running
    <3>2. QED
      BY <2>1, <3>1 DEF WaitInv, AliveInv, TokenInv, TokenExclusive, InControl
  <2>2. CASE pc[t] = "blocked" /\ Awake(t) /\ t \notin aborted
    BY <2>2, AwakeNotBlocked
  <2>3. QED
    BY <2>1, <2>2
<1>2. ~Failing(t)
  BY DEF Failing, Running
<1>3. \A u \in Threads : ~Failing(u)
  BY <1>1, <1>2, OthersIdle DEF Failing, Idle
<1>4. exception = "none" /\ ~OverBudget
  BY <1>1, <1>3 DEF FailInv, RunReport, Failing
<1>5. /\ pc'[t] = "failed" /\ \A u \in Threads \ {t} : pc'[u] = pc[u]
      /\ failure'[t] = kind /\ exception' = "none"
  BY <1>4 DEF Fail, Goto, WaitInv, AliveInv, TokenInv, CoreTypeOK
<1>6. OverBudget' => kind = "livelock"
  BY <1>4 DEF OverBudget
<1>7. RunReport'
  BY <1>3, <1>5, <1>6 DEF RunReport, Failing
<1>8. QED
  BY <1>1, <1>7 DEF FailInv

\* Everybody is blocked or done when a deadlock is found
LEMMA DeadlockFound ==
    ASSUME WaitInv, ~deadlocked, ~abortRequested, NEW t \in Threads, scheduled = t,
           NEW f, f \subseteq finished \cup {t}, NEW b, b \subseteq blocked \cup {t},
           Active(f, b) = {}
    PROVE  /\ ready = Threads /\ aborted = {}
           /\ \A u \in Threads \ {t} : pc[u] \in {"blocked", "done"}
           /\ \A u \in Threads : u \in f \/ u \in b
<1>1. started /\ ready = Threads /\ aborted = {}
  BY NAssumption DEF WaitInv, AliveInv, TokenInv, Threads, NoThread
<1>2. \A u \in Threads : u \in f \/ u \in b
  BY <1>1 DEF Active
<1>3. QED
  BY <1>1, <1>2 DEF WaitInv, BlockedWait, AliveInv, TokenInv

LEMMA BlockFail ==
    ASSUME WaitInv, FailInv, NEW t \in Threads, pc[t] = "call", ~deadlocked, t \notin aborted,
           NEW k, NEW q, NEW b \in SUBSET Threads, NEW to, NEW isTimed,
           b \subseteq blocked, Block(t, k, q, b, to, isTimed)
    PROVE  FailInv'
<1>1. scheduled = t /\ ~abortRequested
  BY CallerNotBlocked DEF InControl, Running
<1>2. UNCHANGED <<abortRequested, switchCount, finished, ready, aborted>>
  BY DEF Block, tokenVars
<1>3. CASE Goto(t, "blocked") /\ UNCHANGED <<failVars, deadlocked>>
  BY <1>1, <1>2, <1>3, QuietFail DEF Failing
<1>4. CASE deadlocked' /\ Fail(t, "deadlock") /\ Active(finished, b \cup {t}) = {}
  <2>1. \A u \in Threads \ {t} : pc[u] \in {"blocked", "done"}
    BY <1>1, <1>4, DeadlockFound
  <2>2. \A u \in Threads : ~Failing(u)
    BY <2>1 DEF Failing
  <2>3. exception = "none" /\ ~OverBudget
    BY <1>1, <2>2 DEF FailInv, RunReport, Failing
  <2>4. /\ pc'[t] = "failed" /\ \A u \in Threads \ {t} : pc'[u] = pc[u]
        /\ failure'[t] = "deadlock" /\ exception' = "none"
    BY <1>4, <2>3 DEF Fail, Goto, WaitInv, AliveInv, TokenInv, CoreTypeOK
  <2>5. DeadlockReport'
    BY <1>1, <1>2, <2>1, <2>3, <2>4 DEF DeadlockReport, OverBudget
  <2>6. QED
    BY <1>4, <2>5 DEF FailInv
<1>5. QED
  BY <1>1, <1>3, <1>4 DEF Block, CanHandOff

LEMMA CoreStepFail ==
    ASSUME WaitInv, FailInv, CoreTypeOK', ExceptionResults = {}, NEW t \in Threads, CoreStep(t)
    PROVE  FailInv'
<1> USE DEF tokenVars, handVars
<1>1. /\ pc \in [Threads -> Locations] /\ DOMAIN failure = Threads
      /\ switchCount \in 0 .. Budget + 1 /\ Budget \in Nat
      /\ deadlocked \in BOOLEAN /\ abortRequested \in BOOLEAN
  BY BudgetAssumption DEF WaitInv, AliveInv, TokenInv, CoreTypeOK
<1>2. /\ abortRequested => t \in aborted \/ pc[t] \in {"finishing", "done"}
      /\ ~abortRequested => aborted = {}
  BY DEF WaitInv, AliveInv, TokenInv, AbortReachesPeers
<1>3. CASE WorkerReady(t)
  <2>1. pc[t] = "spawned" /\ Goto(t, "ready")
        /\ UNCHANGED <<failVars, deadlocked, abortRequested, switchCount>>
    BY <1>3 DEF WorkerReady
  <2>2. ~deadlocked
    BY <2>1 DEF FailInv, DeadlockReport
  <2>3. QED
    BY <2>1, <2>2, QuietFail DEF Failing
<1>4. CASE ReadyWake(t)
  <2>1. /\ pc[t] = "ready" /\ Goto(t, IF t \in aborted THEN "finishing" ELSE "user")
        /\ UNCHANGED <<failVars, deadlocked, abortRequested, switchCount>>
    BY <1>4 DEF ReadyWake
  <2>2. ~deadlocked
    BY <2>1 DEF FailInv, DeadlockReport
  <2>3. QED
    BY <1>2, <2>1, <2>2, QuietFail DEF Failing
<1>5. CASE SwitchStay(t) \/ \E c \in Threads : SwitchTo(t, c)
  <2>1. /\ pc[t] \in {"before", "after"} /\ ~deadlocked
        /\ UNCHANGED <<failVars, deadlocked, abortRequested>>
        /\ switchCount' \in 0 .. Budget
    BY <1>1, <1>5 DEF SwitchStay, SwitchTo, AtSwitchPoint
  <2>2. \E l : l \notin {"failed", "recorded"} /\ Goto(t, l)
    BY <1>5 DEF SwitchStay, SwitchTo, AfterSwitch
  <2>3. ~abortRequested
    BY <2>1 DEF FailInv, AbortReport, Idle
  <2>4. QED
    BY <2>1, <2>2, <2>3, QuietFail DEF Failing
<1>6. CASE SwitchLivelock(t)
  BY <1>6, ThrowFail DEF SwitchLivelock, AtSwitchPoint, Running
<1>7. CASE SwitchWake(t)
  <2>1. /\ pc[t] \in {"beforeWait", "afterWait"} /\ ResumeAt(t, AfterSwitch(pc[t]))
        /\ UNCHANGED <<deadlocked, abortRequested, switchCount>>
    BY <1>7 DEF SwitchWake
  <2>2. ~deadlocked
    BY <2>1 DEF FailInv, DeadlockReport
  <2>3. UNCHANGED failVars /\ \E l \in {"finishing", "call", "user"} :
            Goto(t, l) /\ (t \in aborted => l = "finishing")
    BY <2>1, <2>2 DEF ResumeAt, AfterSwitch
  <2>4. QED
    BY <1>2, <2>1, <2>2, <2>3, QuietFail DEF Failing
<1>8. CASE CallInterrupted(t)
  BY <1>2, <1>8 DEF CallInterrupted, FailInv, AbortReport, DeadlockReport, Idle
<1>9. CASE UserReturn(t)
  BY <1>9, MethodFail DEF UserReturn
<1>10. CASE UserThrow(t)
  <2>1. ~deadlocked
    BY <1>10 DEF UserThrow, FailInv, DeadlockReport
  <2>2. QED
    BY <1>10, <2>1, ThrowFail DEF UserThrow, Running
<1>11. CASE SwallowException(t)
  BY <1>11 DEF SwallowException
<1>12. CASE RecordFailure(t)
  <2>1. /\ pc[t] = "failed" /\ pc'[t] = "recorded" /\ \A u \in Threads \ {t} : pc'[u] = pc[u]
        /\ exception' = IF exception = "none" THEN failure[t] ELSE exception
        /\ failure' = failure
        /\ UNCHANGED <<deadlocked, abortRequested, switchCount>>
    BY <1>1, <1>12 DEF RecordFailure, Goto
  <2>2. CASE deadlocked
    <3>1. DeadlockReport'
      BY <2>1, <2>2 DEF FailInv, DeadlockReport, OverBudget
    <3>2. QED
      BY <2>1, <2>2, <3>1 DEF FailInv
  <2>3. CASE ~deadlocked
    <3>1. ~abortRequested /\ RunReport
      BY <2>1, <2>3 DEF FailInv, AbortReport, Idle
    <3>2. scheduled = t
      BY <1>2, <2>1, <2>3, <3>1 DEF WaitInv, AliveInv, TokenInv, TokenExclusive, InControl
    <3>3. \A u \in Threads \ {t} : ~Failing(u)
      BY <2>3, <3>1, <3>2, OthersIdle DEF Failing, Idle
    <3>4. exception = "none" /\ exception' = failure[t]
      BY <2>1, <3>1, <3>3 DEF RunReport, Failing
    <3>5. RunReport'
      BY <2>1, <3>1, <3>3, <3>4 DEF RunReport, Failing, OverBudget
    <3>6. QED
      BY <2>1, <2>3, <3>1, <3>5 DEF FailInv
  <2>4. QED
    BY <2>2, <2>3
<1>13. CASE RequestAbort(t)
  <2>1. /\ pc[t] = "recorded" /\ pc'[t] = "finishing" /\ \A u \in Threads \ {t} : pc'[u] = pc[u]
        /\ abortRequested' = TRUE
        /\ UNCHANGED <<exception, failure, deadlocked, switchCount>>
    BY <1>1, <1>13 DEF RequestAbort, Goto, failVars
  <2>2. CASE deadlocked
    <3>1. DeadlockReport'
      BY <2>1, <2>2 DEF FailInv, DeadlockReport, OverBudget
    <3>2. QED
      BY <2>1, <2>2, <3>1 DEF FailInv
  <2>3. CASE ~deadlocked
    <3>1. ~abortRequested /\ RunReport
      BY <2>1, <2>3 DEF FailInv, AbortReport, Idle
    <3>2. scheduled = t
      BY <1>2, <2>1, <2>3, <3>1 DEF WaitInv, AliveInv, TokenInv, TokenExclusive, InControl
    <3>3. \A u \in Threads : Idle(u)'
      BY <2>1, <2>3, <3>1, <3>2, OthersIdle DEF Idle
    <3>4. AbortReport'
      BY <2>1, <3>1, <3>3 DEF AbortReport, RunReport, OverBudget
    <3>5. QED
      BY <2>1, <2>3, <3>4 DEF FailInv
  <2>4. QED
    BY <2>2, <2>3
<1>14. CASE FinishThread(t)
  <2>1. /\ pc[t] = "finishing" /\ pc'[t] = "done" /\ \A u \in Threads \ {t} : pc'[u] = pc[u]
        /\ Goto(t, "done")
        /\ UNCHANGED <<exception, failure, abortRequested, switchCount>>
        /\ UNCHANGED failVars
    BY <1>1, <1>14 DEF FinishThread, Goto, failVars
  <2>2. CASE deadlocked
    <3>1. deadlocked'
      BY <1>14, <2>2, Zenon DEF FinishThread
    <3>2. DeadlockReport'
      BY <2>1, <2>2 DEF FailInv, DeadlockReport, OverBudget
    <3>3. QED
      BY <2>1, <3>1, <3>2 DEF FailInv
  <2>3. CASE ~deadlocked /\ ~deadlocked'
    <3>1. deadlocked' = deadlocked
      BY <1>1, <2>3 DEF CoreTypeOK
    <3>2. QED
      BY <2>1, <2>3, <3>1, QuietFail DEF Failing
  <2>4. CASE ~deadlocked /\ deadlocked'
    <3>1. /\ scheduled = t /\ ~CanHandOff(finished', blocked, queue, timed)
          /\ finished' = finished \cup {t}
          /\ deadlocked' = (deadlocked \/ (~abortRequested /\ ready \ finished' # {}))
      BY <1>14, <2>4 DEF FinishThread
    <3>2. ~abortRequested /\ ready \ finished' # {}
      BY <2>4, <3>1, Zenon
    <3>3. Active(finished', blocked) = {}
      BY <3>1, <3>2 DEF CanHandOff
    <3>4. /\ \A u \in Threads \ {t} : pc[u] \in {"blocked", "done"}
          /\ ready = Threads /\ \A u \in Threads : u \in finished' \/ u \in blocked
      <4>1. PICK f : f = finished'
        OBVIOUS
      <4>2. /\ f \subseteq finished \cup {t} /\ Active(f, blocked) = {}
            /\ blocked \subseteq blocked \cup {t}
        BY <3>1, <3>3, <4>1
      <4>3. scheduled = t /\ ~abortRequested /\ ~deadlocked
        BY <2>4, <3>1, <3>2
      <4>4. /\ ready = Threads
            /\ \A u \in Threads \ {t} : pc[u] \in {"blocked", "done"}
            /\ \A u \in Threads : u \in f \/ u \in blocked
        BY <4>2, <4>3, DeadlockFound
      <4>5. QED
        BY <4>1, <4>4
    <3>5. PICK u \in Threads : u \notin finished'
      BY <3>2, <3>4
    <3>6. u # t /\ pc[u] = "blocked"
      BY <3>1, <3>4, <3>5 DEF WaitInv, AliveInv, TokenInv
    <3>7. exception = "none" /\ ~OverBudget
      <4>1. RunReport
        BY <2>4, <3>2 DEF FailInv
      <4>2. \A v \in Threads : ~Failing(v)
        BY <2>1, <3>4 DEF Failing
      <4>3. QED
        BY <4>1, <4>2 DEF RunReport, Failing
    <3>8. DeadlockReport'
      BY <2>1, <3>2, <3>4, <3>6, <3>7 DEF DeadlockReport, OverBudget
    <3>9. QED
      BY <2>4, <3>8 DEF FailInv
  <2>5. QED
    BY <2>2, <2>3, <2>4
<1>15. CASE BlockedInterrupted(t)
  <2>1. /\ pc[t] = "blocked" /\ (t \in aborted \/ deadlocked) /\ ResumeAt(t, "call")
        /\ UNCHANGED <<deadlocked, abortRequested, switchCount>>
    BY <1>15 DEF BlockedInterrupted
  <2>2. CASE t \in aborted
    <3>1. /\ Goto(t, "finishing") /\ UNCHANGED failVars /\ abortRequested
          /\ pc'[t] = "finishing" /\ \A u \in Threads \ {t} : pc'[u] = pc[u]
          /\ UNCHANGED exception /\ UNCHANGED failure
      BY <1>1, <1>2, <2>1, <2>2 DEF ResumeAt, Goto, failVars
    <3>2. CASE ~deadlocked
      BY <2>1, <3>1, <3>2, QuietFail DEF Failing
    <3>3. CASE deadlocked
      <4>1. DeadlockReport'
        BY <2>1, <3>1, <3>3 DEF FailInv, DeadlockReport, OverBudget
      <4>2. QED
        BY <2>1, <3>3, <4>1 DEF FailInv
    <3>4. QED
      BY <3>2, <3>3
  <2>3. CASE t \notin aborted /\ deadlocked
    <3>1. /\ failure'[t] = "deadlock" /\ UNCHANGED exception
          /\ pc'[t] = "failed"
          /\ \A u \in Threads \ {t} : pc'[u] = pc[u] /\ failure'[u] = failure[u]
      BY <1>1, <2>1, <2>3 DEF ResumeAt, Fail, Goto
    <3>2. DeadlockReport'
      BY <2>1, <2>3, <3>1 DEF FailInv, DeadlockReport, OverBudget
    <3>3. QED
      BY <2>1, <2>3, <3>2 DEF FailInv
  <2>4. QED
    BY <2>1, <2>2, <2>3
<1>16. QED
  BY <1>3, <1>4, <1>5, <1>6, <1>7, <1>8, <1>9, <1>10, <1>11, <1>12, <1>13, <1>14, <1>15
     DEF CoreStep

LEMMA FailInit == CoreInit => FailInv
BY BudgetAssumption DEF CoreInit, FailInv, RunReport, OverBudget

\* Whatever happened is known when the workers have been joined
LEMMA FailReported ==
    ASSUME WaitInv, FailInv
    PROVE  FailureReported
<1> SUFFICES ASSUME AllDone
             PROVE  /\ deadlocked => exception = "deadlock"
                    /\ OverBudget => exception = "livelock"
                    /\ exception = "none" => ~abortRequested /\ blocked = {}
  BY DEF FailureReported, DeadlockReported, OverBudget
<1>1. \A t \in Threads : pc[t] = "done"
  BY DEF AllDone
<1>2. CASE deadlocked
  BY <1>1, <1>2 DEF FailInv, DeadlockReport
<1>3. CASE ~deadlocked /\ abortRequested
  BY <1>3 DEF FailInv, AbortReport
<1>4. CASE ~deadlocked /\ ~abortRequested
  BY <1>1, <1>4 DEF FailInv, RunReport, Failing, WaitInv, BlockedWait, AliveInv, TokenInv, CoreTypeOK
<1>5. QED
  BY <1>2, <1>3, <1>4

=============================================================================
