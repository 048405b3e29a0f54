------------------------- MODULE SchedulerSyncProofs -------------------------
(***************************************************************************)
(* Theorems about SchedulerSync: the managed state of semaphores, latches, *)
(* barriers and parkers agrees with the native one, and nobody waits for   *)
(* what is there or passes what is closed.                                 *)
(***************************************************************************)
EXTENDS SchedulerSync, SchedulerCoreProofs, WellFoundedInduction

-----------------------------------------------------------------------------
(* Without.                                                                *)

\* Every set of natural numbers has a least element: what stands in for
\* induction below
LEMMA Least ==
    ASSUME NEW T \in SUBSET Nat, T # {}
    PROVE  \E m \in T : \A n \in T : m <= n
<1> DEFINE R == {ss \in Nat \X Nat : ss[1] < ss[2]}
<1>1. IsWellFoundedOn(R, Nat)
  BY NatLessThanWellFounded DEF OpToRel
<1>2. PICK m \in T : \A n \in T : ~(<<n, m>> \in R)
  BY <1>1, WFMin
<1>3. ASSUME NEW n \in T, n < m PROVE FALSE
  <2>1. n \in Nat /\ m \in Nat
    OBVIOUS
  <2>2. <<n, m>> \in R
    BY <1>3, <2>1
  <2>3. QED
    BY <1>2, <2>2
<1>4. QED
  BY <1>2, <1>3

\* One step of the loop over s, kept being what is kept of the threads before
Keep(s, W, kept, i) ==
    IF i = 0 THEN <<>> ELSE IF s[i] \in W THEN kept[i - 1] ELSE Append(kept[i - 1], s[i])

LEMMA WithoutLoop ==
    ASSUME NEW s \in Seq(Threads), NEW W
    PROVE  \E f : /\ f = [i \in 0 .. Len(s) |-> Keep(s, W, f, i)]
                  /\ Without(s, W) = f[Len(s)]
<1> DEFINE Loop(f, n) == f = [i \in 0 .. n |-> Keep(s, W, f, i)]
           T == {n \in 0 .. Len(s) : ~ \E f : Loop(f, n)}
<1>0. Len(s) \in Nat
  OBVIOUS
<1>1. T = {}
  <2> SUFFICES ASSUME T # {} PROVE FALSE
    OBVIOUS
  <2>1. T \in SUBSET Nat
    BY <1>0
  <2>2. PICK m \in T : \A n \in T : m <= n
    BY <2>1, Least
  <2>3. m # 0
    <3>1. Loop([i \in 0 .. 0 |-> <<>>], 0)
      BY DEF Keep
    <3>2. 0 \notin T
      BY <3>1
    <3>3. QED
      BY <3>2
  <2>4. m - 1 \in 0 .. Len(s) /\ m - 1 \notin T
    BY <1>0, <2>2, <2>3
  <2>5. PICK f : Loop(f, m - 1)
    BY <2>4
  <2> DEFINE g == [i \in 0 .. m |-> IF i = m THEN Keep(s, W, f, m) ELSE f[i]]
  <2>6. Loop(g, m)
    <3>1. m \in Nat /\ \A i \in 0 .. m : i = m \/ i \in 0 .. m - 1
      BY <1>0, <2>2
    <3>2. \A i \in 0 .. m - 1 : g[i] = f[i] /\ f[i] = Keep(s, W, f, i)
      <4>1. \A i \in 0 .. m - 1 : f[i] = Keep(s, W, f, i)
        BY <2>5
      <4>2. \A i \in 0 .. m - 1 : i \in 0 .. m /\ i # m
        BY <3>1
      <4>3. QED
        BY <4>1, <4>2
    <3>3. \A i \in 0 .. m : Keep(s, W, g, i) = Keep(s, W, f, i)
      <4> SUFFICES ASSUME NEW i \in 0 .. m PROVE Keep(s, W, g, i) = Keep(s, W, f, i)
        OBVIOUS
      <4> HIDE DEF g
      <4>1. CASE i = 0
        BY <4>1 DEF Keep
      <4>2. CASE i # 0
        <5>1. i - 1 \in 0 .. m - 1
          BY <3>1, <4>2
        <5>2. g[i - 1] = f[i - 1]
          BY <3>2, <5>1
        <5>3. QED
          BY <4>2, <5>2 DEF Keep
      <4>3. QED
        BY <4>1, <4>2
    <3>4. \A i \in 0 .. m : g[i] = Keep(s, W, g, i)
      BY <3>1, <3>2, <3>3
    <3>5. QED
      BY <3>4
  <2>7. QED
    BY <2>6
<1>2. PICK g : Loop(g, Len(s))
  BY <1>0, <1>1
<1> DEFINE f == CHOOSE f : Loop(f, Len(s))
<1>3. Loop(f, Len(s))
  BY <1>2
<1>4. Without(s, W) = f[Len(s)]
  BY DEF Without, Keep
<1>5. QED
  BY <1>3, <1>4


\* What Without keeps: the threads of s that are not in W, each once
LEMMA WithoutFacts ==
    ASSUME NEW s \in Seq(Threads), NEW W,
           \A i, j \in DOMAIN s : s[i] = s[j] => i = j
    PROVE  /\ Without(s, W) \in Seq(Threads)
           /\ \A i, j \in DOMAIN Without(s, W) : Without(s, W)[i] = Without(s, W)[j] => i = j
           /\ ToSet(Without(s, W)) = ToSet(s) \ W
<1>0. /\ Len(s) \in Nat /\ DOMAIN s = 1 .. Len(s) /\ \A i \in 1 .. Len(s) : s[i] \in Threads
  OBVIOUS
<1>1. PICK f : f = [i \in 0 .. Len(s) |-> Keep(s, W, f, i)] /\ Without(s, W) = f[Len(s)]
  BY WithoutLoop
<1>2. \A i \in 0 .. Len(s) : f[i] = Keep(s, W, f, i)
  BY <1>1
<1> DEFINE Good(n) ==
              /\ f[n] \in Seq(Threads)
              /\ \A i, j \in DOMAIN f[n] : f[n][i] = f[n][j] => i = j
              /\ \A j \in DOMAIN f[n] : f[n][j] \notin W /\ \E i \in 1 .. n : s[i] = f[n][j]
              /\ \A i \in 1 .. n : s[i] \notin W => \E j \in DOMAIN f[n] : f[n][j] = s[i]
           T == {n \in 0 .. Len(s) : ~Good(n)}
<1>3. T = {}
  <2> SUFFICES ASSUME T # {} PROVE FALSE
    OBVIOUS
  <2>1. T \in SUBSET Nat
    BY <1>0
  <2>2. PICK m \in T : \A n \in T : m <= n
    BY <2>1, Least
  <2>3. m # 0
    <3>1. f[0] = <<>>
      BY <1>0, <1>2 DEF Keep
    <3>2. Good(0)
      BY <3>1
    <3>3. 0 \notin T
      BY <3>2
    <3>4. QED
      BY <2>2, <3>3
  <2>4. m \in 1 .. Len(s) /\ m - 1 \in 0 .. Len(s) /\ m - 1 \notin T
    BY <1>0, <2>2, <2>3, SMTT(30)
  <2>5. Good(m - 1)
    BY <2>4
  <2>6. f[m] = IF s[m] \in W THEN f[m - 1] ELSE Append(f[m - 1], s[m])
    BY <1>2, <2>4 DEF Keep
  <2>7. \A i \in 1 .. m : i = m \/ i \in 1 .. m - 1
    BY <2>4
  <2>8. \A i \in 1 .. m - 1 : i \in 1 .. m /\ i # m
    BY <2>4
  <2> HIDE DEF T
  <2>9. CASE s[m] \in W
    <3>1. f[m] = f[m - 1]
      BY <2>6, <2>9
    <3>2. Good(m)
      BY <2>5, <2>7, <2>8, <2>9, <3>1
    <3>3. QED
      BY <2>2, <3>2 DEF T
  <2>10. CASE s[m] \notin W
    <3> DEFINE g == f[m - 1]
               l == Len(g)
    <3>1. /\ g \in Seq(Threads) /\ s[m] \in Threads /\ l \in Nat /\ DOMAIN g = 1 .. l
          /\ f[m] = Append(g, s[m])
      BY <1>0, <2>4, <2>5, <2>6, <2>10
    <3> HIDE DEF g
    <3>2. /\ f[m] \in Seq(Threads) /\ DOMAIN f[m] = 1 .. l + 1 /\ f[m][l + 1] = s[m]
          /\ \A i \in 1 .. l : f[m][i] = g[i]
      BY <3>1
    <3>3. \A i \in DOMAIN f[m] : i = l + 1 \/ i \in DOMAIN g
      BY <3>1, <3>2
    <3>4. \A i \in DOMAIN g : g[i] # s[m]
      <4> SUFFICES ASSUME NEW i \in DOMAIN g, g[i] = s[m] PROVE FALSE
        OBVIOUS
      <4>1. PICK n \in 1 .. m - 1 : s[n] = g[i]
        BY <2>5 DEF g
      <4>2. n \in DOMAIN s /\ m \in DOMAIN s /\ n # m
        BY <1>0, <2>4
      <4>3. QED
        BY <4>1, <4>2
    <3>5. /\ \A i, j \in DOMAIN g : g[i] = g[j] => i = j
          /\ \A j \in DOMAIN g : g[j] \notin W /\ \E i \in 1 .. m - 1 : s[i] = g[j]
          /\ \A i \in 1 .. m - 1 : s[i] \notin W => \E j \in DOMAIN g : g[j] = s[i]
      BY <2>5 DEF g
    <3>6. \A i, j \in DOMAIN f[m] : f[m][i] = f[m][j] => i = j
      BY <3>1, <3>2, <3>3, <3>4, <3>5
    <3>7. \A j \in DOMAIN f[m] : f[m][j] \notin W /\ \E i \in 1 .. m : s[i] = f[m][j]
      <4> SUFFICES ASSUME NEW j \in DOMAIN f[m]
                   PROVE  f[m][j] \notin W /\ \E i \in 1 .. m : s[i] = f[m][j]
        OBVIOUS
      <4>1. CASE j = l + 1
        BY <2>4, <2>10, <3>2, <4>1
      <4>2. CASE j \in DOMAIN g
        BY <2>8, <3>1, <3>2, <3>5, <4>2
      <4>3. QED
        BY <3>3, <4>1, <4>2
    <3>8. \A i \in 1 .. m : s[i] \notin W => \E j \in DOMAIN f[m] : f[m][j] = s[i]
      <4> SUFFICES ASSUME NEW i \in 1 .. m, s[i] \notin W
                   PROVE  \E j \in DOMAIN f[m] : f[m][j] = s[i]
        OBVIOUS
      <4>1. CASE i = m
        BY <3>1, <3>2, <4>1
      <4>2. CASE i \in 1 .. m - 1
        <5>1. PICK j \in DOMAIN g : g[j] = s[i]
          BY <3>5, <4>2
        <5>2. j \in DOMAIN f[m] /\ f[m][j] = s[i]
          BY <3>1, <3>2, <5>1
        <5>3. QED
          BY <5>2
      <4>3. QED
        BY <2>7, <4>1, <4>2
    <3>9. Good(m)
      BY <3>2, <3>6, <3>7, <3>8
    <3>10. QED
      BY <2>2, <3>9 DEF T
  <2>11. QED
    BY <2>9, <2>10
<1>4. Good(Len(s))
  BY <1>0, <1>3
<1> DEFINE g == f[Len(s)]
<1>5. /\ \A j \in DOMAIN g : g[j] \notin W /\ \E i \in DOMAIN s : s[i] = g[j]
      /\ \A i \in DOMAIN s : s[i] \notin W => \E j \in DOMAIN g : g[j] = s[i]
  BY <1>0, <1>4
<1>6. ToSet(g) = ToSet(s) \ W
  <2> HIDE DEF g
  <2>1. QED
    BY <1>5 DEF ToSet
<1>7. QED
  BY <1>1, <1>4, <1>6


-----------------------------------------------------------------------------
(* Threads that leave a queue.                                             *)

\* The threads W leave the queue s, in which r stays
Takes(s, W, r) ==
    /\ r \in Seq(Threads)
    /\ \A i, j \in DOMAIN r : r[i] = r[j] => i = j
    /\ W \subseteq ToSet(s)
    /\ ToSet(r) = ToSet(s) \ W

LEMMA TakenQueued ==
    ASSUME NEW q \in [Queues -> Seq(Threads)], NEW b, QueuedOnce(q, b),
           NEW k \in Queues, NEW W, NEW r, Takes(q[k], W, r)
    PROVE  QueuedOnce([q EXCEPT ![k] = r], b \ W)
<1> DEFINE q1 == [q EXCEPT ![k] = r]
<1>1. q1[k] = r /\ \A j \in Queues \ {k} : q1[j] = q[j]
  OBVIOUS
<1> HIDE DEF q1
<1>2. /\ \A i \in DOMAIN r : r[i] \notin W /\ \E m \in DOMAIN q[k] : q[k][m] = r[i]
      /\ \A m \in DOMAIN q[k] : q[k][m] \notin W => \E i \in DOMAIN r : r[i] = q[k][m]
      /\ \A u \in W : \E m \in DOMAIN q[k] : q[k][m] = u
      /\ \A i, j \in DOMAIN r : r[i] = r[j] => i = j
  BY DEF Takes, ToSet
<1>3. \A j \in Queues : \A i \in DOMAIN q1[j] : \E m \in DOMAIN q[j] : q[j][m] = q1[j][i]
  BY <1>1, <1>2
<1>4. ASSUME NEW j \in Queues, NEW l \in Queues, NEW i \in DOMAIN q1[j], NEW m \in DOMAIN q1[l],
             q1[j][i] = q1[l][m]
      PROVE  j = l /\ i = m
  <2>1. j = l
    BY <1>3, <1>4 DEF QueuedOnce
  <2>2. CASE j = k
    <3>1. i \in DOMAIN r /\ m \in DOMAIN r /\ r[i] = r[m]
      BY <1>1, <1>4, <2>1, <2>2
    <3>2. QED
      BY <1>2, <2>1, <3>1
  <2>3. CASE j # k
    <3>1. i \in DOMAIN q[j] /\ m \in DOMAIN q[j] /\ q[j][i] = q[j][m]
      BY <1>1, <1>4, <2>1, <2>3
    <3>2. QED
      BY <2>1, <3>1 DEF QueuedOnce
  <2>4. QED
    BY <2>1, <2>2, <2>3
<1>5. ASSUME NEW u \in Threads, u \in b \ W
      PROVE  \E j \in Queues : \E i \in DOMAIN q1[j] : q1[j][i] = u
  <2>1. PICK j \in Queues : \E i \in DOMAIN q[j] : q[j][i] = u
    BY <1>5 DEF QueuedOnce
  <2>2. QED
    BY <1>1, <1>2, <1>5, <2>1
<1>6. ASSUME NEW u \in Threads, NEW j \in Queues, NEW i \in DOMAIN q1[j], q1[j][i] = u
      PROVE  u \in b \ W
  <2>1. PICK m \in DOMAIN q[j] : q[j][m] = u
    BY <1>3, <1>6
  <2>2. u \in b
    BY <2>1 DEF QueuedOnce
  <2>3. ASSUME u \in W PROVE FALSE
    <3>1. j = k
      BY <1>2, <2>1, <2>3 DEF QueuedOnce
    <3>2. QED
      BY <1>1, <1>2, <1>6, <2>3, <3>1
  <2>4. QED
    BY <2>2, <2>3
<1>7. QED
  BY <1>4, <1>5, <1>6 DEF QueuedOnce, q1

\* Nobody leaves, everybody does, the first does
LEMMA TakesSimple ==
    ASSUME NEW s \in Seq(Threads), \A i, j \in DOMAIN s : s[i] = s[j] => i = j
    PROVE  /\ Takes(s, {}, s)
           /\ Takes(s, ToSet(s), <<>>)
           /\ s # <<>> => Takes(s, {Head(s)}, Tail(s))
<1>1. Takes(s, {}, s)
  BY DEF Takes
<1>2. Takes(s, ToSet(s), <<>>)
  <2>1. DOMAIN <<>> = {} /\ ToSet(<<>>) = {} /\ <<>> \in Seq(Threads)
    BY DEF ToSet
  <2>2. QED
    BY <2>1 DEF Takes
<1>3. ASSUME s # <<>> PROVE Takes(s, {Head(s)}, Tail(s))
  <2>1. /\ Len(s) \in Nat \ {0} /\ DOMAIN s = 1 .. Len(s) /\ Head(s) = s[1]
        /\ Tail(s) \in Seq(Threads) /\ DOMAIN Tail(s) = 1 .. Len(s) - 1
        /\ \A i \in 1 .. Len(s) - 1 : Tail(s)[i] = s[i + 1]
    BY <1>3
  <2> DEFINE r == Tail(s)
  <2> HIDE DEF r
  <2>2. \A i \in DOMAIN r : i + 1 \in DOMAIN s /\ r[i] = s[i + 1] /\ i + 1 # 1 /\ i \in Nat
    BY <2>1 DEF r
  <2>3. \A i, j \in DOMAIN r : r[i] = r[j] => i = j
    BY <2>2
  <2>4. ASSUME NEW i \in DOMAIN s PROVE i = 1 \/ (i - 1 \in DOMAIN r /\ r[i - 1] = s[i])
    <3>1. CASE i # 1
      <4>1. i - 1 \in 1 .. Len(s) - 1 /\ (i - 1) + 1 = i
        BY <2>1, <3>1
      <4>2. QED
        BY <2>1, <4>1 DEF r
    <3>2. QED
      BY <3>1
  <2>5. \A u : u \in ToSet(r) <=> u \in ToSet(s) /\ u # s[1]
    <3>1. ASSUME NEW i \in DOMAIN r PROVE r[i] \in ToSet(s) /\ r[i] # s[1]
      <4>1. i + 1 \in DOMAIN s /\ r[i] = s[i + 1] /\ i + 1 # 1
        BY <2>2
      <4>2. PICK m \in DOMAIN s : r[i] = s[m] /\ m # 1
        BY <4>1
      <4>3. 1 \in DOMAIN s
        BY <2>1
      <4>4. s[m] # s[1]
        BY <4>2, <4>3
      <4>5. QED
        BY <4>2, <4>4 DEF ToSet
    <3>2. \A i \in DOMAIN s : s[i] # s[1] => s[i] \in ToSet(r)
      BY <2>4 DEF ToSet
    <3>3. QED
      BY <3>1, <3>2 DEF ToSet
  <2>6. s[1] \in ToSet(s)
    BY <2>1 DEF ToSet
  <2>7. ToSet(r) = ToSet(s) \ {s[1]}
    BY <2>5
  <2>8. Takes(s, {s[1]}, r)
    BY <2>1, <2>3, <2>6, <2>7 DEF Takes, r
  <2>9. QED
    BY <2>1, <2>8 DEF r
<1>4. QED
  BY <1>1, <1>2, <1>3

\* The first k do, the way a release serves them
LEMMA TakesFirst ==
    ASSUME NEW s \in Seq(Threads), \A i, j \in DOMAIN s : s[i] = s[j] => i = j,
           NEW k \in 0 .. Len(s)
    PROVE  /\ Takes(s, {s[i] : i \in 1 .. k}, SubSeq(s, k + 1, Len(s)))
           /\ IsFiniteSet({s[i] : i \in 1 .. k}) /\ Cardinality({s[i] : i \in 1 .. k}) = k
<1> DEFINE r == SubSeq(s, k + 1, Len(s))
           W == {s[i] : i \in 1 .. k}
<1>1. /\ Len(s) \in Nat /\ DOMAIN s = 1 .. Len(s) /\ k \in Nat
      /\ r \in Seq(Threads) /\ DOMAIN r = 1 .. Len(s) - k
      /\ \A i \in 1 .. Len(s) - k : r[i] = s[i + k]
  OBVIOUS
<1> HIDE DEF r
<1>2. \A i \in DOMAIN r : i + k \in DOMAIN s /\ r[i] = s[i + k] /\ i + k > k /\ i \in Nat
  BY <1>1
<1>3. \A i, j \in DOMAIN r : r[i] = r[j] => i = j
  BY <1>1, <1>2
<1>4. ASSUME NEW i \in DOMAIN s PROVE i \in 1 .. k \/ (i - k \in DOMAIN r /\ r[i - k] = s[i])
  <2>1. CASE i > k
    <3>1. i - k \in 1 .. Len(s) - k /\ (i - k) + k = i
      BY <1>1, <2>1
    <3>2. QED
      BY <1>1, <3>1
  <2>2. QED
    BY <1>1, <2>1
<1>5. \A i \in 1 .. k : i \in DOMAIN s
  BY <1>1
<1>6. \A u : u \in ToSet(r) <=> u \in ToSet(s) /\ u \notin W
  <2>1. \A i \in DOMAIN r : r[i] \in ToSet(s) /\ r[i] \notin W
    <3>1. \A i \in DOMAIN r : r[i] \in ToSet(s)
      BY <1>2 DEF ToSet
    <3>2. ASSUME NEW i \in DOMAIN r, r[i] \in W PROVE FALSE
      <4>1. PICK j \in 1 .. k : r[i] = s[j]
        BY <3>2
      <4>2. i + k \in DOMAIN s /\ j \in DOMAIN s /\ s[i + k] = s[j]
        BY <1>2, <1>5, <4>1
      <4>3. i + k = j
        BY <4>2
      <4>4. QED
        BY <1>1, <1>2, <4>3
    <3>3. QED
      BY <3>1, <3>2
  <2>2. \A i \in DOMAIN s : s[i] \notin W => s[i] \in ToSet(r)
    BY <1>4 DEF ToSet
  <2>3. QED
    BY <2>1, <2>2 DEF ToSet
<1>7. W \subseteq ToSet(s)
  BY <1>5 DEF ToSet
<1>8. Takes(s, W, r)
  BY <1>1, <1>3, <1>6, <1>7 DEF Takes
<1>9. IsFiniteSet(W) /\ Cardinality(W) = k
  <2> DEFINE f == [i \in 1 .. k |-> s[i]]
  <2>1. f \in Bijection(1 .. k, W)
    <3>1. f \in [1 .. k -> W] /\ \A u \in W : \E i \in 1 .. k : f[i] = u
      OBVIOUS
    <3>2. \A i, j \in 1 .. k : f[i] = f[j] => i = j
      BY <1>5
    <3> HIDE DEF f, W
    <3>3. QED
      BY <3>1, <3>2 DEF Bijection, Injection, Surjection, IsInjective
  <2>2. IsFiniteSet(1 .. k) /\ Cardinality(1 .. k) = k
    BY <1>1, FS_Interval
  <2>3. QED
    BY <2>1, <2>2, FS_Bijection DEF ExistsBijection
<1>10. QED
  BY <1>8, <1>9 DEF r

-----------------------------------------------------------------------------
(* The invariant.  Its parts speak of all objects, whether they have a     *)
(* managed entry yet or not.                                               *)

\* The queue that the operation of thread t works on
QueueOf(t) ==
    IF op[t] \in SemaphoreCalls THEN Semaphore(obj[t])
    ELSE IF op[t] \in LatchCalls THEN Latch(obj[t])
    ELSE IF op[t] \in BarrierCalls THEN Barrier(obj[t])
    ELSE IF op[t] \in ParkerCalls THEN Parker(obj[t])
    ELSE Atomic(obj[t])

\* Everybody waits where the call says
QueuesInv == \A k \in Queues : \A u \in ToSet(queue[k]) : k = QueueOf(u) /\ op[u] \in DeadlockChecked

\* Only try_acquire_for waits with a timeout; what it leaves behind when the
\* run fails never meets another call of the thread
TimedInv ==
    \A u \in timed \cup timedOut :
        op[u] = "try_acquire_for"
        /\ pc[u] \in {"blocked", "failed", "recorded", "finishing", "done"}

\* A deadlock finds everybody who is not done in a queue
DeadInv ==
    deadlocked /\ ~abortRequested =>
        \A u \in Threads : /\ pc[u] \in {"blocked", "failed", "recorded", "done"}
                           /\ pc[u] = "blocked" => u \in blocked

\* A semaphore with waiters has no permit, and the native count is ahead of
\* the managed one by the waiters that own a permit they have not taken yet
SemInv ==
    /\ \A x \in Semaphores : queue[Semaphore(x)] # <<>> => permits[x] = 0
    /\ \A x \in Semaphores \ touched : permits[x] = nativePermits[x]
    /\ ~abortRequested =>
          \A x \in Semaphores : nativePermits[x] = permits[x] + Cardinality(Granted(x))

GateInv == count = nativeCount /\ barrier = nativeBarrier

\* Thread u is past its wait, whether it has run again or not
Passed(u) == pc[u] \in {"after", "afterWait"} \/ (pc[u] = "blocked" /\ u \notin blocked)

\* A latch with waiters is closed, one that was passed is open
LatchInv ==
    /\ \A x \in Latches : queue[Latch(x)] # <<>> => count[x] > 0
    /\ \A u \in Threads :
          Passed(u) /\ (op[u] = "wait_latch" \/ (op[u] = "try_wait" /\ granted[u]))
              => count[obj[u]] = 0

\* The token of phase p is from a phase that is over, or from the current one,
\* which somebody has yet to complete
TokenOK(p, b) == p = NoPhase \/ p < b.phase \/ (p = b.phase /\ b.remaining > 0)

BarrierInv ==
    /\ \A x \in Barriers : \A u \in ToSet(queue[Barrier(x)]) :
          arg[u] = barrier[x].phase /\ barrier[x].remaining > 0
    /\ \A u \in Threads :
          Passed(u) /\ op[u] = "wait_barrier" => arg[u] < barrier[obj[u]].phase
    /\ \A u \in Threads, x \in Barriers : TokenOK(token[u][x], barrier[x])

ParkInv == \A x \in Parkers : queue[Parker(x)] # <<>> => ~permit[x]

SyncInv ==
    /\ TypeOK
    /\ WaitInv
    /\ FailInv
    /\ DeadInv
    /\ QueuesInv
    /\ TimedInv
    /\ SemInv
    /\ GateInv
    /\ LatchInv
    /\ BarrierInv
    /\ ParkInv

-----------------------------------------------------------------------------
(* Who may call.                                                           *)

\* A thread inside a call, or one that goes on after its wait
Acts(t) ==
    \/ pc[t] \in {"user", "call"}
    \/ pc[t] = "blocked" /\ Awake(t) /\ t \notin aborted /\ ~deadlocked

\* ... runs alone, in a run that is not failing
LEMMA ActsAlone ==
    ASSUME SyncInv, NEW t \in Threads, Acts(t)
    PROVE  /\ ~deadlocked /\ ~abortRequested /\ aborted = {} /\ t \notin blocked
           /\ pc[t] # "blocked" => t \notin timed \cup timedOut
<1> USE DEF SyncInv
<1>1. CASE pc[t] \in {"user", "call"}
  <2>1. ~deadlocked
    BY <1>1 DEF FailInv, DeadlockReport
  <2>2. ~abortRequested
    BY <1>1, <2>1 DEF FailInv, AbortReport, Idle
  <2>3. aborted = {}
    BY <2>2 DEF WaitInv, AliveInv
  <2>4. t \notin blocked
    BY <1>1, <2>1, <2>3, CallerNotBlocked DEF InControl, Running
  <2>5. t \notin timed \cup timedOut
    BY <1>1 DEF TimedInv
  <2>6. QED
    BY <2>1, <2>2, <2>3, <2>4, <2>5
<1>2. CASE pc[t] = "blocked" /\ Awake(t) /\ t \notin aborted /\ ~deadlocked
  BY <1>2, AwakeNotBlocked DEF WaitInv, AliveInv
<1>3. QED
  BY <1>1, <1>2 DEF Acts

-----------------------------------------------------------------------------
(* What a step of thread t does to waiting.                                *)

\* The threads W leave the queue of t's call
Leave(t, W) ==
    \/ W = {} /\ UNCHANGED <<queue, blocked>>
    \/ \E r : /\ op[t] # "none" /\ Takes(queue[QueueOf(t)], W, r)
              /\ queue' = [queue EXCEPT ![QueueOf(t)] = r]
              /\ blocked' = blocked \ W

\* A method that goes on, or rejects its call
Moves(t, W) ==
    /\ Acts(t)
    /\ \/ UNCHANGED failVars /\ \E l \in {"call", "after"} : Goto(t, l)
       \/ Fail(t, "misuse")
    /\ granted' \in [Threads -> BOOLEAN]
    /\ UNCHANGED <<tokenVars, scheduled, deadlocked, switchCount>>
    /\ NotifyAll \/ UNCHANGED <<handVars, blocked>>
    /\ Leave(t, W)
    /\ timed' \subseteq timed /\ timedOut' \subseteq timedOut
    /\ \A u \in Threads \ {t} :
          /\ u \in timed' <=> u \in timed
          /\ u \in timedOut' <=> u \in timedOut /\ u \notin W
    /\ pc[t] = "blocked" => t \notin timed' \cup timedOut'

\* A method that blocks
Blocks(t) ==
    /\ pc[t] = "call" /\ op[t] \in DeadlockChecked
    /\ Block(t, QueueOf(t), queue, blocked, timedOut, op[t] = "try_acquire_for")
    /\ UNCHANGED callVars

\* The queue of a call is one of the queues
LEMMA QueueOfType ==
    ASSUME TypeOK, NEW t \in Threads, op[t] # "none"
    PROVE  QueueOf(t) \in Queues
<1>1. /\ \A x \in Semaphores : Semaphore(x) \in Queues
      /\ \A x \in Latches : Latch(x) \in Queues
      /\ \A x \in Barriers : Barrier(x) \in Queues
      /\ \A x \in Parkers : Parker(x) \in Queues
      /\ \A x \in Atomics : Atomic(x) \in Queues
  BY QueueNames, QueuesAssumption DEF Semaphore, Latch, Barrier, Parker, Atomic
<1>2. CallOK(t)
  BY DEF TypeOK
<1>3. QED
  BY <1>1, <1>2 DEF CallOK, QueueOf, SemaphoreCalls, LatchCalls, BarrierCalls, ParkerCalls, AtomicCalls

\* No thread is in the queue of a call twice
LEMMA QueueOfOnce ==
    ASSUME SyncInv, NEW t \in Threads, op[t] # "none"
    PROVE  /\ queue[QueueOf(t)] \in Seq(Threads)
           /\ \A i, j \in DOMAIN queue[QueueOf(t)] :
                 queue[QueueOf(t)][i] = queue[QueueOf(t)][j] => i = j
<1>1. PICK k \in Queues : k = QueueOf(t)
  BY QueueOfType DEF SyncInv
<1>2. queue \in [Queues -> Seq(Threads)]
  BY DEF SyncInv, TypeOK, CoreTypeOK
<1>3. QED
  BY <1>1, <1>2 DEF SyncInv, WaitInv, QueuedOnce

LEMMA WakeMoves ==
    ASSUME SyncInv, NEW t \in Threads, pc[t] = "call", op[t] # "none", NEW W, NEW r,
           Takes(queue[QueueOf(t)], W, r), Wake(QueueOf(t), W, r),
           NEW v \in BOOLEAN, Return(t, v), UNCHANGED failVars
    PROVE  Moves(t, W)
<1>1. Acts(t)
  BY DEF Acts
<1>2. granted' \in [Threads -> BOOLEAN]
  BY DEF Return, SyncInv, TypeOK, CoreTypeOK
<1>3. Leave(t, W)
  BY DEF Leave, Wake
<1>4. QED
  BY <1>1, <1>2, <1>3 DEF Moves, Wake, NoHandOff, Return

LEMMA QuietMoves ==
    ASSUME SyncInv, NEW t \in Threads, Acts(t), pc[t] # "blocked",
           UNCHANGED <<tokenVars, handVars, waitVars, deadlocked, switchCount>>,
           \/ UNCHANGED failVars /\ Goto(t, "call") /\ UNCHANGED granted
           \/ UNCHANGED failVars /\ \E v \in BOOLEAN : Return(t, v)
           \/ Reject(t)
    PROVE  Moves(t, {})
<1>1. granted' \in [Threads -> BOOLEAN]
  BY DEF Return, Reject, callVars, SyncInv, TypeOK, CoreTypeOK
<1>2. Leave(t, {})
  BY DEF Leave, waitVars
<1>3. QED
  BY <1>1, <1>2 DEF Moves, waitVars, handVars, Return, Reject

\* A thread goes on after its wait
LEMMA ResumeMoves ==
    ASSUME SyncInv, NEW t \in Threads, Acts(t), pc[t] = "blocked",
           UNCHANGED <<tokenVars, handVars, queue, blocked, deadlocked, switchCount>>,
           \/ UNCHANGED failVars /\ Goto(t, "call") /\ UNCHANGED granted
           \/ UNCHANGED failVars /\ \E v \in BOOLEAN : Return(t, v)
           \/ Reject(t),
           timed' = IF op[t] = "try_acquire_for" THEN timed \ {t} ELSE timed,
           timedOut' = IF op[t] = "try_acquire_for" THEN timedOut \ {t} ELSE timedOut
    PROVE  Moves(t, {})
<1>1. granted' \in [Threads -> BOOLEAN]
  BY DEF Return, Reject, callVars, SyncInv, TypeOK, CoreTypeOK
<1>2. Leave(t, {})
  BY DEF Leave
<1>3. t \notin timed' \cup timedOut'
  BY DEF SyncInv, TimedInv
<1>4. QED
  BY <1>1, <1>2, <1>3 DEF Moves, handVars, Return, Reject

\* The object of a call is of its kind
LEMMA CallObject ==
    ASSUME TypeOK, NEW t \in Threads
    PROVE  /\ op[t] \in SemaphoreCalls => obj[t] \in Semaphores /\ arg[t] \in Nat
           /\ op[t] \in LatchCalls => obj[t] \in Latches /\ arg[t] \in Nat
           /\ op[t] \in BarrierCalls => obj[t] \in Barriers /\ arg[t] \in Nat
           /\ op[t] \in ParkerCalls => obj[t] \in Parkers
           /\ op[t] \in AtomicCalls => obj[t] \in Atomics /\ arg[t] \in {0, 1}
<1>1. CallOK(t)
  BY DEF TypeOK
<1>2. QED
  BY <1>1 DEF CallOK, SemaphoreCalls, LatchCalls, BarrierCalls, ParkerCalls, AtomicCalls

FirstOf(s, k) == {s[i] : i \in 1 .. k}

\* A release wakes the first k waiters, as many as its permits serve
LEMMA ReleaseMoves ==
    ASSUME SyncInv, NEW t \in Threads, Release(t),
           NEW s, s = queue[Semaphore(obj[t])],
           NEW k, k = Served(obj[t], Managed(obj[t]) + arg[t])
    PROVE  /\ Moves(t, FirstOf(s, k)) /\ k \in 0 .. Len(s)
           /\ s \in Seq(Threads) /\ Takes(s, FirstOf(s, k), SubSeq(s, k + 1, Len(s)))
           /\ IsFiniteSet(FirstOf(s, k)) /\ Cardinality(FirstOf(s, k)) = k
<1>1. /\ pc[t] = "call" /\ op[t] # "none" /\ QueueOf(t) = Semaphore(obj[t])
      /\ Return(t, TRUE) /\ UNCHANGED failVars
  BY DEF Release, Called, SemaphoreCalls, QueueOf
<1>2. Wake(QueueOf(t), FirstOf(s, k), SubSeq(s, k + 1, Len(s)))
  BY <1>1 DEF Release, FirstOf
<1>3. /\ s \in Seq(Threads) /\ \A i, j \in DOMAIN s : s[i] = s[j] => i = j
  BY <1>1, QueueOfOnce
<1>4. k \in 0 .. Len(s)
  <2>1. Managed(obj[t]) + arg[t] \in Nat
    <3>1. obj[t] \in Semaphores /\ arg[t] \in Nat
      BY CallObject DEF Release, SyncInv, Called, SemaphoreCalls
    <3>2. permits[obj[t]] \in 0 .. MaxPermits /\ nativePermits[obj[t]] \in 0 .. MaxPermits
      BY <3>1 DEF SyncInv, TypeOK
    <3>3. QED
      BY <3>1, <3>2 DEF Managed
  <2>2. Len(s) \in Nat
    BY <1>3
  <2>3. QED
    BY <1>1, <2>1, <2>2 DEF Served
<1>5. /\ Takes(s, FirstOf(s, k), SubSeq(s, k + 1, Len(s)))
      /\ IsFiniteSet(FirstOf(s, k)) /\ Cardinality(FirstOf(s, k)) = k
  BY <1>3, <1>4, TakesFirst DEF FirstOf
<1>6. Moves(t, FirstOf(s, k))
  BY <1>1, <1>2, <1>5, WakeMoves
<1>7. QED
  BY <1>3, <1>4, <1>5, <1>6

\* Every call of a wrapper is one of the two
LEMMA SemaphoreMoves ==
    ASSUME SyncInv, NEW t \in Threads, SemaphoreStep(t)
    PROVE  Blocks(t) \/ \E W : Moves(t, W)
<1> USE DEF Called, SemaphoreCalls, QueueOf, NoWaitChange, NoHandOff, waitVars, handVars
<1>1. CASE Release(t)
  BY <1>1, ReleaseMoves
<1>2. CASE ReleaseRejected(t)
  <2>1. /\ pc[t] = "call" /\ Reject(t)
        /\ UNCHANGED <<tokenVars, handVars, waitVars, deadlocked, switchCount>>
    BY <1>2 DEF ReleaseRejected
  <2>2. QED
    BY <2>1, QuietMoves DEF Acts
<1>3. CASE Acquire(t)
  <2>1. /\ pc[t] = "call"
        /\ UNCHANGED <<tokenVars, handVars, waitVars, deadlocked, switchCount>>
        /\ (Return(t, TRUE) /\ UNCHANGED failVars) \/ Reject(t)
    BY <1>3 DEF Acquire, Consume
  <2>2. QED
    BY <2>1, QuietMoves DEF Acts
<1>4. CASE TryAcquireRefused(t)
  <2>1. /\ pc[t] = "call"
        /\ UNCHANGED <<tokenVars, handVars, waitVars, deadlocked, switchCount>>
        /\ Return(t, FALSE) /\ UNCHANGED failVars
    BY <1>4 DEF TryAcquireRefused
  <2>2. QED
    BY <2>1, QuietMoves DEF Acts
<1>5. CASE AcquireBlock(t)
  BY <1>5 DEF AcquireBlock, BlockOn, Blocks, DeadlockChecked
<1>6. CASE AcquireWake(t)
  <2>1. /\ pc[t] = "blocked" /\ Acts(t) /\ op[t] \in {"acquire", "try_acquire_for"}
        /\ UNCHANGED <<tokenVars, handVars, queue, blocked, deadlocked, switchCount>>
        /\ \/ Return(t, FALSE) /\ UNCHANGED failVars
           \/ Return(t, TRUE) /\ UNCHANGED failVars
           \/ Reject(t)
    BY <1>6 DEF AcquireWake, WokenIn, Consume, Acts
  <2>2. /\ timed' = IF op[t] = "try_acquire_for" THEN timed \ {t} ELSE timed
        /\ timedOut' = IF op[t] = "try_acquire_for" THEN timedOut \ {t} ELSE timedOut
    BY <1>6, <2>1 DEF AcquireWake
  <2>3. QED
    BY <2>1, <2>2, ResumeMoves
<1>7. QED
  BY <1>1, <1>2, <1>3, <1>4, <1>5, <1>6 DEF SemaphoreStep
\* Waiters that a call wakes, or nobody
LEMMA WithoutMoves ==
    ASSUME SyncInv, NEW t \in Threads, pc[t] = "call", op[t] # "none",
           NEW W, W \subseteq ToSet(queue[QueueOf(t)]),
           Wake(QueueOf(t), W, Without(queue[QueueOf(t)], W)),
           Return(t, TRUE), UNCHANGED failVars
    PROVE  Moves(t, W)
<1>1. PICK s : s = queue[QueueOf(t)]
  OBVIOUS
<1>2. s \in Seq(Threads) /\ \A i, j \in DOMAIN s : s[i] = s[j] => i = j
  BY <1>1, QueueOfOnce
<1>3. Takes(s, W, Without(s, W))
  BY <1>1, <1>2, WithoutFacts DEF Takes
<1>4. QED
  BY <1>1, <1>3, WakeMoves

LEMMA SimpleMoves ==
    ASSUME SyncInv, NEW t \in Threads, pc[t] = "call", op[t] # "none",
           \/ Wake(QueueOf(t), {}, queue[QueueOf(t)])
           \/ Wake(QueueOf(t), ToSet(queue[QueueOf(t)]), <<>>)
           \/ /\ queue[QueueOf(t)] # <<>>
              /\ Wake(QueueOf(t), {Head(queue[QueueOf(t)])}, Tail(queue[QueueOf(t)])),
           Return(t, TRUE), UNCHANGED failVars
    PROVE  \E W : Moves(t, W)
<1>1. PICK s : s = queue[QueueOf(t)]
  OBVIOUS
<1>2. s \in Seq(Threads) /\ \A i, j \in DOMAIN s : s[i] = s[j] => i = j
  BY <1>1, QueueOfOnce
<1>3. /\ Takes(s, {}, s) /\ Takes(s, ToSet(s), <<>>)
      /\ s # <<>> => Takes(s, {Head(s)}, Tail(s))
  BY <1>2, TakesSimple
<1>4. QED
  BY <1>1, <1>3, WakeMoves

\* count_down wakes everybody or nobody, or rejects its call
LEMMA CountDownMoves ==
    ASSUME SyncInv, NEW t \in Threads, CountDown(t)
    PROVE  \/ Moves(t, {}) /\ Reject(t) /\ UNCHANGED queue
           \/ /\ Moves(t, Opened(obj[t], ManagedCount(obj[t]) - arg[t]))
              /\ Return(t, TRUE)
              /\ queue' = [queue EXCEPT ![Latch(obj[t])] =
                            Without(queue[Latch(obj[t])],
                                    Opened(obj[t], ManagedCount(obj[t]) - arg[t]))]
<1> USE DEF Called, SemaphoreCalls, LatchCalls, QueueOf, NoWaitChange, NoHandOff, waitVars, handVars
<1>1. pc[t] = "call" /\ op[t] # "none" /\ QueueOf(t) = Latch(obj[t])
  BY DEF CountDown
<1>2. CASE Reject(t) /\ NoWaitChange
  <2>1. UNCHANGED <<tokenVars, handVars, waitVars, deadlocked, switchCount>>
    BY <1>2
  <2>2. QED
    BY <1>1, <1>2, <2>1, QuietMoves DEF Acts
<1>3. PICK W : W = Opened(obj[t], ManagedCount(obj[t]) - arg[t])
  OBVIOUS
<1>4. CASE /\ Return(t, TRUE) /\ UNCHANGED failVars
           /\ Wake(QueueOf(t), W, Without(queue[QueueOf(t)], W))
  <2>1. W \subseteq ToSet(queue[QueueOf(t)])
    BY <1>1, <1>3 DEF Opened
  <2>2. Moves(t, W)
    BY <1>1, <1>4, <2>1, WithoutMoves
  <2>3. QED
    BY <1>1, <1>3, <1>4, <2>2 DEF Wake
<1>5. QED
  BY <1>1, <1>2, <1>3, <1>4 DEF CountDown

LEMMA LatchMoves ==
    ASSUME SyncInv, NEW t \in Threads, LatchStep(t)
    PROVE  Blocks(t) \/ \E W : Moves(t, W)
<1> USE DEF Called, SemaphoreCalls, LatchCalls, QueueOf, NoWaitChange, NoHandOff, waitVars, handVars
<1>1. CASE CountDown(t)
  BY <1>1, CountDownMoves
<1>2. CASE CountDownRejected(t)
  <2>1. /\ pc[t] = "call" /\ Reject(t)
        /\ UNCHANGED <<tokenVars, handVars, waitVars, deadlocked, switchCount>>
    BY <1>2 DEF CountDownRejected
  <2>2. QED
    BY <2>1, QuietMoves DEF Acts
<1>3. CASE LatchPass(t)
  <2>1. /\ pc[t] = "call"
        /\ UNCHANGED <<tokenVars, handVars, waitVars, deadlocked, switchCount>>
        /\ Return(t, ManagedCount(obj[t]) = 0) /\ UNCHANGED failVars
    BY <1>3 DEF LatchPass
  <2>2. QED
    BY <2>1, QuietMoves DEF Acts
<1>4. CASE LatchBlock(t)
  BY <1>4 DEF LatchBlock, BlockOn, Blocks, DeadlockChecked
<1>5. CASE LatchWake(t)
  <2>1. /\ pc[t] = "blocked" /\ Acts(t) /\ op[t] = "wait_latch"
        /\ UNCHANGED <<tokenVars, handVars, queue, blocked, deadlocked, switchCount>>
        /\ Return(t, TRUE) /\ UNCHANGED failVars /\ UNCHANGED <<timed, timedOut>>
    BY <1>5 DEF LatchWake, WokenIn, Acts, Resume
  <2>2. QED
    BY <2>1, ResumeMoves
<1>6. QED
  BY <1>1, <1>2, <1>3, <1>4, <1>5 DEF LatchStep

\* The phase that the arrival of thread t leaves
PhaseAfter(t) == ManagedArrival(ManagedBarrier(obj[t]), arg[t], Dropped(t)).phase

\* arrive wakes the waiters of the phases that are over
LEMMA ArriveMoves ==
    ASSUME SyncInv, NEW t \in Threads, Arrive(t)
    PROVE  LET W == Released(obj[t], PhaseAfter(t)) IN
           /\ Moves(t, W) /\ Return(t, TRUE)
           /\ queue' = [queue EXCEPT ![Barrier(obj[t])] = Without(queue[Barrier(obj[t])], W)]
<1> USE DEF Called, SemaphoreCalls, LatchCalls, BarrierCalls, QueueOf, PhaseAfter
<1>1. /\ pc[t] = "call" /\ op[t] # "none" /\ QueueOf(t) = Barrier(obj[t])
      /\ Return(t, TRUE) /\ UNCHANGED failVars
  BY DEF Arrive
<1>2. PICK W : W = Released(obj[t], PhaseAfter(t))
  OBVIOUS
<1>3. W \subseteq ToSet(queue[QueueOf(t)]) /\ Wake(QueueOf(t), W, Without(queue[QueueOf(t)], W))
  BY <1>1, <1>2 DEF Arrive, Released
<1>4. Moves(t, W)
  BY <1>1, <1>3, WithoutMoves
<1>5. QED
  BY <1>1, <1>2, <1>3, <1>4 DEF Wake

LEMMA BarrierMoves ==
    ASSUME SyncInv, NEW t \in Threads, BarrierStep(t)
    PROVE  Blocks(t) \/ \E W : Moves(t, W)
<1> USE DEF Called, SemaphoreCalls, LatchCalls, BarrierCalls, QueueOf, NoWaitChange, NoHandOff,
            waitVars, handVars
<1>1. CASE Arrive(t)
  BY <1>1, ArriveMoves
<1>2. CASE ArriveRejected(t) \/ BarrierWaitRejected(t)
  <2>1. /\ pc[t] = "call" /\ Reject(t)
        /\ UNCHANGED <<tokenVars, handVars, waitVars, deadlocked, switchCount>>
    BY <1>2 DEF ArriveRejected, BarrierWaitRejected
  <2>2. QED
    BY <2>1, QuietMoves DEF Acts
<1>3. CASE BarrierPass(t)
  <2>1. /\ pc[t] = "call"
        /\ UNCHANGED <<tokenVars, handVars, waitVars, deadlocked, switchCount>>
        /\ Return(t, TRUE) /\ UNCHANGED failVars
    BY <1>3 DEF BarrierPass, UseToken
  <2>2. QED
    BY <2>1, QuietMoves DEF Acts
<1>4. CASE BarrierBlock(t)
  BY <1>4 DEF BarrierBlock, UseToken, BlockOn, Blocks, DeadlockChecked
<1>5. CASE BarrierWake(t)
  <2>1. /\ pc[t] = "blocked" /\ Acts(t) /\ op[t] = "wait_barrier"
        /\ UNCHANGED <<tokenVars, handVars, queue, blocked, deadlocked, switchCount>>
        /\ Return(t, TRUE) /\ UNCHANGED failVars /\ UNCHANGED <<timed, timedOut>>
    BY <1>5 DEF BarrierWake, WokenIn, Acts, Resume
  <2>2. QED
    BY <2>1, ResumeMoves
<1>6. QED
  BY <1>1, <1>2, <1>3, <1>4, <1>5 DEF BarrierStep

LEMMA ParkMoves ==
    ASSUME SyncInv, NEW t \in Threads, ParkStep(t)
    PROVE  Blocks(t) \/ \E W : Moves(t, W)
<1> USE DEF Called, SemaphoreCalls, LatchCalls, BarrierCalls, ParkerCalls, QueueOf,
            NoWaitChange, NoHandOff, waitVars, handVars
<1>1. CASE ParkPass(t)
  <2>1. /\ pc[t] = "call"
        /\ UNCHANGED <<tokenVars, handVars, waitVars, deadlocked, switchCount>>
        /\ Return(t, TRUE) /\ UNCHANGED failVars
    BY <1>1 DEF ParkPass
  <2>2. QED
    BY <2>1, QuietMoves DEF Acts
<1>2. CASE ParkBlock(t)
  BY <1>2 DEF ParkBlock, BlockOn, Blocks, DeadlockChecked
<1>3. CASE ParkWake(t)
  <2>1. /\ pc[t] = "blocked" /\ Acts(t) /\ op[t] = "park"
        /\ UNCHANGED <<tokenVars, handVars, queue, blocked, deadlocked, switchCount>>
        /\ Return(t, TRUE) /\ UNCHANGED failVars /\ UNCHANGED <<timed, timedOut>>
    BY <1>3 DEF ParkWake, WokenIn, Acts, Resume
  <2>2. QED
    BY <2>1, ResumeMoves
<1>4. CASE Unpark(t)
  <2>1. /\ pc[t] = "call" /\ op[t] # "none" /\ QueueOf(t) = Parker(obj[t])
        /\ Return(t, TRUE) /\ UNCHANGED failVars
    BY <1>4 DEF Unpark
  <2>2. \/ Wake(QueueOf(t), {}, queue[QueueOf(t)])
        \/ /\ queue[QueueOf(t)] # <<>>
           /\ Wake(QueueOf(t), {Head(queue[QueueOf(t)])}, Tail(queue[QueueOf(t)]))
    BY <1>4, <2>1 DEF Unpark
  <2>3. QED
    BY <2>1, <2>2, SimpleMoves
<1>5. QED
  BY <1>1, <1>2, <1>3, <1>4 DEF ParkStep

LEMMA AtomicMoves ==
    ASSUME SyncInv, NEW t \in Threads, AtomicStep(t)
    PROVE  Blocks(t) \/ \E W : Moves(t, W)
<1> USE DEF Called, SemaphoreCalls, LatchCalls, BarrierCalls, ParkerCalls, QueueOf,
            NoWaitChange, NoHandOff, waitVars, handVars
<1>1. CASE Store(t) \/ AtomicPass(t)
  <2>1. /\ pc[t] = "call"
        /\ UNCHANGED <<tokenVars, handVars, waitVars, deadlocked, switchCount>>
        /\ Return(t, TRUE) /\ UNCHANGED failVars
    BY <1>1 DEF Store, AtomicPass
  <2>2. QED
    BY <2>1, QuietMoves DEF Acts
<1>2. CASE AtomicBlock(t)
  BY <1>2 DEF AtomicBlock, BlockOn, Blocks, DeadlockChecked
<1>3. CASE AtomicWake(t)
  <2>1. /\ pc[t] = "blocked" /\ Acts(t) /\ op[t] = "wait_atomic" /\ Goto(t, "call")
        /\ UNCHANGED <<tokenVars, handVars, queue, blocked, deadlocked, switchCount>>
        /\ UNCHANGED granted /\ UNCHANGED failVars /\ UNCHANGED <<timed, timedOut>>
    BY <1>3 DEF AtomicWake, WokenIn, Acts, callVars
  <2>2. QED
    BY <2>1, ResumeMoves
<1>4. CASE NotifyAtomic(t)
  <2>1. /\ pc[t] = "call" /\ op[t] # "none" /\ QueueOf(t) = Atomic(obj[t])
        /\ Return(t, TRUE) /\ UNCHANGED failVars
    BY <1>4 DEF NotifyAtomic
  <2>2. \/ Wake(QueueOf(t), ToSet(queue[QueueOf(t)]), <<>>)
        \/ /\ queue[QueueOf(t)] # <<>>
           /\ Wake(QueueOf(t), {Head(queue[QueueOf(t)])}, Tail(queue[QueueOf(t)]))
    BY <1>4, <2>1 DEF NotifyAtomic
  <2>3. QED
    BY <2>1, <2>2, SimpleMoves
<1>5. QED
  BY <1>1, <1>2, <1>3, <1>4 DEF AtomicStep

LEMMA SyncMoves ==
    ASSUME SyncInv, NEW t \in Threads, SyncStep(t)
    PROVE  Blocks(t) \/ \E W : Moves(t, W)
<1>1. ASSUME NEW o, NEW x, NEW n, Begin(t, o, x, n) PROVE Moves(t, {})
  <2>1. /\ pc[t] = "user" /\ Goto(t, "call") /\ UNCHANGED failVars /\ UNCHANGED granted
        /\ UNCHANGED <<tokenVars, handVars, waitVars, deadlocked, switchCount>>
    BY <1>1 DEF Begin
  <2>2. QED
    BY <2>1, QuietMoves DEF Acts
<1>2. QED
  BY <1>1, SemaphoreMoves, LatchMoves, BarrierMoves, ParkMoves, AtomicMoves DEF SyncStep
-----------------------------------------------------------------------------
(* What a step of t changes for the other threads.                         *)

\* Of the others only W are woken, the rest stay where they wait or are timed
\* out; nobody but t joins a queue
Frame(t, W) ==
    /\ W \subseteq blocked \ {t}
    /\ \A u \in W : op[u] \in DeadlockChecked /\ QueueOf(u) = QueueOf(t)
    /\ \A j \in Queues : \A u \in ToSet(queue'[j]) :
          u \in ToSet(queue[j]) \/ (u = t /\ j = QueueOf(t) /\ pc[t] = "call")
    /\ \A u \in Threads \ {t} :
          /\ pc'[u] = pc[u]
          /\ u \in timed' <=> u \in timed
          /\ u \in blocked' => u \in blocked
          /\ u \in W => u \notin blocked' /\ u \notin timedOut'
          /\ u \in blocked /\ u \notin blocked' => u \in W \/ (u \in timed /\ u \in timedOut')
          /\ u \in timedOut' /\ u \notin timedOut => u \in blocked /\ u \in timed
          /\ u \in timedOut /\ u \notin timedOut' => u \in W

\* The calls of the others go on as they are
Others(t) ==
    \A u \in Threads \ {t} :
        op'[u] = op[u] /\ obj'[u] = obj[u] /\ arg'[u] = arg[u] /\ granted'[u] = granted[u]

LEMMA EmptyQueue ==
    ASSUME NEW S, NEW s \in Seq(S)
    PROVE  s # <<>> <=> \E u : u \in ToSet(s)
<1>1. CASE s = <<>>
  <2>1. DOMAIN s = {}
    BY <1>1
  <2>2. QED
    BY <1>1, <2>1 DEF ToSet
<1>2. CASE s # <<>>
  <2>1. 1 \in DOMAIN s
    BY <1>2
  <2>2. QED
    BY <1>2, <2>1 DEF ToSet
<1>3. QED
  BY <1>1, <1>2

LEMMA MovesFrame ==
    ASSUME SyncInv, NEW t \in Threads, NEW W, Moves(t, W)
    PROVE  /\ Frame(t, W) /\ CoreTypeOK' /\ QueuedOnce(queue', blocked')
           /\ blocked' \subseteq blocked
<1>0. t \notin blocked /\ queue \in [Queues -> Seq(Threads)] /\ blocked \subseteq Threads
  BY ActsAlone DEF Moves, SyncInv, TypeOK, CoreTypeOK
<1>1. /\ queue' \in [Queues -> Seq(Threads)] /\ blocked' = blocked \ W
      /\ W \subseteq blocked /\ QueuedOnce(queue', blocked')
      /\ \A u \in W : op[u] \in DeadlockChecked /\ QueueOf(u) = QueueOf(t)
      /\ \A j \in Queues : ToSet(queue'[j]) \subseteq ToSet(queue[j])
  <2>1. CASE W = {} /\ UNCHANGED <<queue, blocked>>
    BY <1>0, <2>1 DEF SyncInv, WaitInv
  <2>2. CASE ~(W = {} /\ UNCHANGED <<queue, blocked>>)
    <3>1. PICK r : /\ op[t] # "none" /\ Takes(queue[QueueOf(t)], W, r)
                   /\ queue' = [queue EXCEPT ![QueueOf(t)] = r]
                   /\ blocked' = blocked \ W
      BY <2>2 DEF Moves, Leave
    <3>2. PICK k \in Queues : k = QueueOf(t)
      BY <3>1, QueueOfType DEF SyncInv
    <3>3. /\ W \subseteq ToSet(queue[k]) /\ ToSet(r) \subseteq ToSet(queue[k]) /\ r \in Seq(Threads)
      BY <3>1, <3>2 DEF Takes
    <3>4. queue' \in [Queues -> Seq(Threads)]
      BY <1>0, <3>1, <3>2, <3>3
    <3>5. \A j \in Queues : ToSet(queue'[j]) \subseteq ToSet(queue[j])
      BY <1>0, <3>1, <3>2, <3>3
    <3>6. QueuedOnce(queue', blocked')
      BY <1>0, <3>1, <3>2, TakenQueued DEF SyncInv, WaitInv
    <3>7. \A u \in W : u \in blocked /\ op[u] \in DeadlockChecked /\ QueueOf(u) = k
      <4> SUFFICES ASSUME NEW u \in W PROVE u \in blocked /\ op[u] \in DeadlockChecked /\ QueueOf(u) = k
        OBVIOUS
      <4>1. PICK i \in DOMAIN queue[k] : queue[k][i] = u
        BY <3>3 DEF ToSet
      <4>2. u \in Threads
        BY <1>0, <4>1
      <4>3. u \in blocked
        BY <4>1, <4>2 DEF SyncInv, WaitInv, QueuedOnce
      <4>4. QED
        BY <3>3, <4>3 DEF SyncInv, QueuesInv
    <3>8. QED
      BY <3>1, <3>2, <3>4, <3>5, <3>6, <3>7
  <2>3. QED
    BY <2>1, <2>2 DEF Moves, Leave
<1>2. CoreTypeOK'
  <2>1. /\ CoreTypeOK /\ pc \in [Threads -> Locations] /\ failure \in [Threads -> Failures]
        /\ asleep \subseteq Threads \cup {Main}
    BY DEF SyncInv, TypeOK, CoreTypeOK
  <2>2. asleep' \subseteq Threads \cup {Main}
    BY <2>1 DEF Moves, NotifyAll, Sleepers, handVars
  <2>3. /\ pc' \in [Threads -> Locations] /\ failure' \in [Threads -> Failures]
        /\ exception' = exception
    BY <2>1 DEF Moves, Goto, Fail, failVars, Locations, Failures
  <2>4. blocked' \subseteq Threads
    BY <1>0, <1>1
  <2>5. /\ ready' \subseteq Threads /\ finished' \subseteq Threads /\ aborted' \subseteq Threads
        /\ started' \in BOOLEAN /\ deadlocked' \in BOOLEAN /\ abortRequested' \in BOOLEAN
        /\ scheduled' \in Threads \cup {NoThread} /\ switchCount' \in 0 .. Budget + 1
        /\ timed' \subseteq Threads /\ timedOut' \subseteq Threads
        /\ granted' \in [Threads -> BOOLEAN] /\ exception' \in Failures
    BY <2>1, <2>3 DEF Moves, tokenVars, CoreTypeOK
  <2>6. QED
    BY <1>1, <2>2, <2>3, <2>4, <2>5 DEF CoreTypeOK
<1>3. \A u \in Threads \ {t} : pc'[u] = pc[u]
  BY DEF Moves, Goto, Fail, SyncInv, TypeOK, CoreTypeOK
<1>4. Frame(t, W)
  BY <1>0, <1>1, <1>3 DEF Frame, Moves
<1>5. QED
  BY <1>1, <1>2, <1>4

LEMMA BlocksFrame ==
    ASSUME SyncInv, NEW t \in Threads, Blocks(t)
    PROVE  /\ Frame(t, {}) /\ CoreTypeOK'
           /\ t \in blocked' \/ t \in timedOut'
           /\ t \in timed' \cup timedOut' => op[t] = "try_acquire_for"
           /\ pc'[t] \in {"blocked", "failed"}
<1>1. PICK k \in Queues : k = QueueOf(t)
  BY QueueOfType DEF Blocks, SyncInv, DeadlockChecked
<1>2. PICK w \in BOOLEAN : w <=> op[t] = "try_acquire_for"
  OBVIOUS
<1>3. /\ CoreTypeOK /\ queue \in [Queues -> Seq(Threads)] /\ blocked \in SUBSET Threads
      /\ timedOut \in SUBSET Threads /\ QueuedOnce(queue, blocked)
      /\ pc \in [Threads -> Locations]
  BY DEF SyncInv, TypeOK, CoreTypeOK, WaitInv
<1>4. t \notin blocked /\ t \notin timed \cup timedOut
  BY ActsAlone DEF Blocks, Acts
<1>5. Block(t, k, queue, blocked, timedOut, w)
  <2>1. w = (op[t] = "try_acquire_for")
    BY <1>2
  <2>2. QED
    BY <1>1, <2>1 DEF Blocks
<1>6. CoreTypeOK'
  BY <1>3, <1>5, BlockFacts DEF Blocks, callVars
<1>7. Joins(t, k, queue, blocked, timedOut)
  BY <1>3, <1>4, <1>5, BlockQueued
<1> DEFINE q1 == [queue EXCEPT ![k] = Enqueue(queue[k], t)]
           b1 == blocked \cup {t}
           tm1 == IF w THEN timed \cup {t} ELSE timed
           to1 == IF w THEN timedOut \ {t} ELSE timedOut
<1>8. /\ timed' = tm1
      /\ \/ HandOff(t, finished, b1, q1, tm1, to1) /\ Goto(t, "blocked")
         \/ Fail(t, "deadlock") /\ blocked' = b1 /\ timedOut' = to1
  BY <1>5 DEF Block
<1>9. QueuedOnce(q1, b1) /\ q1 \in [Queues -> Seq(Threads)]
  BY <1>3, <1>4, EnqueueQueued, EnqueueType
<1>10. \A u \in Threads :
          /\ u \in b1 /\ u \notin blocked' => u \in tm1 /\ u \in timedOut'
          /\ u \in timedOut' /\ u \notin to1 => u \in b1 /\ u \in tm1
          /\ u \in to1 => u \in timedOut'
  <2>1. CASE HandOff(t, finished, b1, q1, tm1, to1)
    <3> HIDE DEF q1, b1, tm1, to1
    <3>1. b1 \in SUBSET Threads /\ to1 \in SUBSET Threads
      BY <1>3 DEF b1, to1
    <3>2. QED
      BY <1>9, <2>1, <3>1, HandOffTimed
  <2>2. CASE blocked' = b1 /\ timedOut' = to1
    BY <2>2
  <2>3. QED
    BY <1>8, <2>1, <2>2
<1>11. \A u \in Threads \ {t} :
          /\ pc'[u] = pc[u]
          /\ u \in timed' <=> u \in timed
          /\ u \in blocked' => u \in blocked
          /\ u \in blocked /\ u \notin blocked' => u \in timed /\ u \in timedOut'
          /\ u \in timedOut' /\ u \notin timedOut => u \in blocked /\ u \in timed
          /\ u \in timedOut => u \in timedOut'
  <2>1. \A u \in Threads \ {t} : pc'[u] = pc[u]
    BY <1>3, <1>8 DEF Goto, Fail
  <2>2. \A u \in Threads \ {t} : u \in blocked' => u \in blocked
    BY <1>7 DEF Joins
  <2>3. QED
    BY <1>8, <1>10, <2>1, <2>2
<1>12. \A j \in Queues : \A u \in ToSet(queue'[j]) : u \in ToSet(queue[j]) \/ (u = t /\ j = QueueOf(t))
  BY <1>1, <1>7 DEF Joins
<1>13. Frame(t, {})
  BY <1>11, <1>12 DEF Frame, Blocks
<1>14. t \in timed' \cup timedOut' => op[t] = "try_acquire_for"
  BY <1>2, <1>4, <1>8, <1>10
<1>15. pc'[t] \in {"blocked", "failed"} /\ (t \in blocked' \/ t \in timedOut')
  BY <1>3, <1>7, <1>8 DEF Joins, Goto, Fail
<1>16. QED
  BY <1>6, <1>13, <1>14, <1>15
\* Outside the methods nobody joins or is woken; a hand-over may time one out
LEMMA CoreFrame ==
    ASSUME SyncInv, NEW t \in Threads, CoreStep(t)
    PROVE  /\ Frame(t, {}) /\ UNCHANGED callVars /\ timed' = timed
           /\ pc'[t] # "blocked"
           /\ pc'[t] \in {"after", "afterWait"} => pc[t] \in {"after", "afterWait"}
           /\ pc[t] \in {"blocked", "failed", "recorded", "finishing", "done"}
                => pc'[t] \in {"failed", "recorded", "finishing", "done"}
           /\ t \in timedOut' => t \in timedOut \cup timed
<1> USE DEF Goto
<1>1. /\ pc \in [Threads -> Locations] /\ queue \in [Queues -> Seq(Threads)]
      /\ blocked \in SUBSET Threads /\ timedOut \in SUBSET Threads /\ QueuedOnce(queue, blocked)
  BY DEF SyncInv, TypeOK, CoreTypeOK, WaitInv
<1>2. UNCHANGED callVars
  BY CoreStepCore DEF SyncInv, TypeOK
<1>3. CASE FinishThread(t)
  <2>1. pc[t] = "finishing" /\ pc' = [pc EXCEPT ![t] = "done"] /\ timed' = timed
    BY <1>3 DEF FinishThread
  <2>2. CASE UNCHANGED <<queue, blocked, timedOut>>
    BY <1>1, <1>2, <2>1, <2>2 DEF Frame
  <2>3. CASE HandOff(t, finished', blocked, queue, timed, timedOut)
    <3>1. PICK f : f = finished'
      OBVIOUS
    <3>2. HandOff(t, f, blocked, queue, timed, timedOut)
      BY <2>3, <3>1
    <3>3. /\ \A u \in Threads :
                 /\ u \in blocked /\ u \notin blocked' => u \in timed /\ u \in timedOut'
                 /\ u \in timedOut' /\ u \notin timedOut => u \in blocked /\ u \in timed
                 /\ u \in timedOut => u \in timedOut'
      BY <1>1, <3>2, HandOffTimed, ZenonT(60)
    <3>4. /\ \A j \in Queues : ToSet(queue'[j]) \subseteq ToSet(queue[j])
          /\ blocked' \subseteq blocked
      BY <1>1, <3>2, HandOffQueued
    <3>5. \A u \in Threads \ {t} : pc'[u] = pc[u]
      BY <1>1, <2>1
    <3>6. Frame(t, {})
      BY <2>1, <3>3, <3>4, <3>5 DEF Frame
    <3>7. pc'[t] = "done"
      BY <1>1, <2>1
    <3>8. QED
      BY <1>2, <2>1, <3>3, <3>6, <3>7
  <2>4. QED
    BY <1>3, <2>2, <2>3 DEF FinishThread
<1>4. CASE ~FinishThread(t)
  <2>1. UNCHANGED waitVars
    BY <1>4 DEF CoreStep, WorkerReady, ReadyWake, SwitchStay, SwitchTo, SwitchLivelock, SwitchWake,
                CallInterrupted, UserReturn, UserThrow, SwallowException, RecordFailure,
                RequestAbort, BlockedInterrupted
  <2>2. \E l : /\ pc' = [pc EXCEPT ![t] = l] /\ l # "blocked"
               /\ l \in {"after", "afterWait"} => pc[t] \in {"after", "afterWait"}
               /\ pc[t] \in {"blocked", "failed", "recorded", "finishing", "done"}
                    => l \in {"failed", "recorded", "finishing", "done"}
    <3>1. CASE WorkerReady(t) \/ ReadyWake(t) \/ UserReturn(t) \/ UserThrow(t)
      BY <3>1 DEF WorkerReady, ReadyWake, UserReturn, UserThrow, Fail
    <3>2. CASE SwitchStay(t) \/ (\E c \in Threads : SwitchTo(t, c)) \/ SwitchLivelock(t)
      BY <3>2 DEF SwitchStay, SwitchTo, SwitchLivelock, Fail, AfterSwitch, AtSwitchPoint
    <3>3. CASE SwitchWake(t) \/ CallInterrupted(t)
      BY <3>3 DEF SwitchWake, CallInterrupted, ResumeAt, Fail, AfterSwitch
    <3>4. CASE RecordFailure(t) \/ RequestAbort(t)
      BY <3>4 DEF RecordFailure, RequestAbort
    <3>5. CASE BlockedInterrupted(t)
      BY <3>5 DEF BlockedInterrupted, ResumeAt, Fail
    <3>6. ~SwallowException(t)
      BY SwallowAssumption DEF SwallowException
    <3>7. QED
      BY <1>4, <3>1, <3>2, <3>3, <3>4, <3>5, <3>6 DEF CoreStep
  <2>3. PICK l : /\ pc' = [pc EXCEPT ![t] = l] /\ l # "blocked"
                 /\ l \in {"after", "afterWait"} => pc[t] \in {"after", "afterWait"}
                 /\ pc[t] \in {"blocked", "failed", "recorded", "finishing", "done"}
                      => l \in {"failed", "recorded", "finishing", "done"}
    BY <2>2
  <2>4. pc'[t] = l /\ \A u \in Threads \ {t} : pc'[u] = pc[u]
    BY <1>1, <2>3
  <2>5. Frame(t, {})
    BY <2>1, <2>4 DEF Frame, waitVars
  <2>6. QED
    BY <1>2, <2>1, <2>3, <2>4, <2>5 DEF waitVars
<1>5. QED
  BY <1>3, <1>4

-----------------------------------------------------------------------------
(* Waiting and failing.                                                    *)

LEMMA MovesWait ==
    ASSUME SyncInv, NEW t \in Threads, NEW W, Moves(t, W)
    PROVE  WaitInv' /\ FailInv' /\ DeadInv'
<1>1. /\ CoreTypeOK' /\ QueuedOnce(queue', blocked') /\ blocked' \subseteq blocked
  BY MovesFrame
<1>2. /\ ~deadlocked /\ ~abortRequested /\ Acts(t)
      /\ UNCHANGED <<tokenVars, scheduled, deadlocked, switchCount>>
      /\ NotifyAll \/ UNCHANGED <<handVars, blocked>>
  BY ActsAlone DEF Moves
<1>3. PICK l \in {"call", "after", "failed"} :
            /\ Goto(t, l)
            /\ l = "failed" => Fail(t, "misuse")
            /\ l # "failed" => UNCHANGED failVars
  BY DEF Moves, Fail
<1>4. /\ pc[t] \in {"user", "before", "call", "after", "blocked"}
      /\ pc[t] = "blocked" => Awake(t) /\ t \notin aborted /\ ~deadlocked
  BY <1>2 DEF Acts
<1>5. TokenInv'
  <2>1. l \in Locations \ {"finishing", "done"}
    BY DEF Locations
  <2>2. TokenInv
    BY DEF SyncInv, WaitInv, AliveInv
  <2>3. QED
    BY <1>1, <1>2, <1>3, <1>4, <2>1, <2>2, KeepsToken
<1>6. AliveInv'
  BY <1>1, <1>2, <1>5, AliveStays DEF SyncInv, WaitInv, tokenVars
<1>7. WaitInv'
  BY <1>1, <1>2, <1>3, <1>4, <1>6, MethodWait DEF SyncInv, tokenVars
<1>8. FailInv'
  <2>1. CASE l = "failed"
    BY <1>2, <1>3, <1>4, <2>1, ThrowFail DEF SyncInv, tokenVars, Running, Acts
  <2>2. CASE l # "failed"
    BY <1>2, <1>3, <1>4, <2>2, MethodFail DEF SyncInv, tokenVars
  <2>3. QED
    BY <2>1, <2>2
<1>9. DeadInv'
  BY <1>2 DEF DeadInv
<1>10. QED
  BY <1>7, <1>8, <1>9

LEMMA BlocksWait ==
    ASSUME SyncInv, NEW t \in Threads, Blocks(t)
    PROVE  WaitInv' /\ FailInv' /\ DeadInv'
<1>1. PICK k \in Queues : k = QueueOf(t)
  BY QueueOfType DEF Blocks, SyncInv, DeadlockChecked
<1>2. PICK w \in BOOLEAN : w = (op[t] = "try_acquire_for")
  OBVIOUS
<1>3. /\ CoreTypeOK' /\ pc[t] = "call" /\ Block(t, k, queue, blocked, timedOut, w)
  BY <1>1, <1>2, BlocksFrame DEF Blocks
<1>4. /\ ~deadlocked /\ ~abortRequested /\ t \notin aborted
  BY <1>3, ActsAlone DEF Acts
<1>5. /\ WaitInv /\ AliveInv /\ TokenInv /\ FailInv
      /\ queue \in [Queues -> Seq(Threads)] /\ blocked \in SUBSET Threads
      /\ timedOut \in SUBSET Threads /\ QueuedOnce(queue, blocked)
      /\ pc \in [Threads -> Locations]
  BY DEF SyncInv, WaitInv, AliveInv, TypeOK, CoreTypeOK
<1>6. TokenInv'
  BY <1>3, <1>4, <1>5, BlockToken
<1>7. AliveInv'
  BY <1>3, <1>5, <1>6, AliveBlocks
<1>8. WaitInv'
  BY <1>3, <1>4, <1>5, <1>7, BlockWait, ZenonT(60)
<1>9. FailInv'
  BY <1>3, <1>4, <1>5, BlockFail
<1>10. DeadInv'
  <2>1. CASE UNCHANGED deadlocked
    BY <1>4, <2>1 DEF DeadInv
  <2>2. CASE Fail(t, "deadlock") /\ blocked' = blocked \cup {t} /\ Active(finished, blocked') = {}
    <3>1. scheduled = t
      BY <1>3, <1>4, <1>5, CallerNotBlocked DEF InControl, Running
    <3>2. PICK b : b = blocked \cup {t}
      OBVIOUS
    <3>3. /\ \A u \in Threads \ {t} : pc[u] \in {"blocked", "done"}
          /\ \A u \in Threads : u \in finished \/ u \in b
      <4>1. Active(finished, b) = {} /\ b \subseteq blocked \cup {t} /\ finished \subseteq finished \cup {t}
        BY <2>2, <3>2
      <4>2. QED
        BY <1>4, <1>5, <3>1, <4>1, DeadlockFound
    <3>4. \A u \in Threads : u \in finished <=> pc[u] = "done"
      BY <1>5 DEF TokenInv
    <3>5. pc'[t] = "failed" /\ \A u \in Threads \ {t} : pc'[u] = pc[u]
      BY <1>5, <2>2 DEF Fail, Goto
    <3>6. QED
      BY <2>2, <3>2, <3>3, <3>4, <3>5 DEF DeadInv
  <2>3. QED
    BY <1>3, <1>4, <2>1, <2>2 DEF Block, CanHandOff
<1>11. QED
  BY <1>8, <1>9, <1>10
LEMMA CoreDead ==
    ASSUME SyncInv, NEW t \in Threads, CoreStep(t)
    PROVE  DeadInv'
<1> SUFFICES ASSUME deadlocked', ~abortRequested'
             PROVE  \A u \in Threads : /\ pc'[u] \in {"blocked", "failed", "recorded", "done"}
                                       /\ pc'[u] = "blocked" => u \in blocked'
  BY DEF DeadInv
<1> USE DEF Goto
<1>1. /\ pc \in [Threads -> Locations] /\ deadlocked \in BOOLEAN /\ abortRequested \in BOOLEAN
      /\ WaitInv /\ AliveInv /\ TokenInv
  BY DEF SyncInv, TypeOK, CoreTypeOK, WaitInv, AliveInv
<1>2. ~abortRequested /\ aborted = {}
  <2>1. abortRequested => abortRequested'
    BY DEF CoreStep, WorkerReady, ReadyWake, SwitchStay, SwitchTo, SwitchLivelock, SwitchWake,
           CallInterrupted, UserReturn, UserThrow, SwallowException, RecordFailure,
           RequestAbort, BlockedInterrupted, FinishThread, tokenVars
  <2>2. QED
    BY <1>1, <2>1 DEF AliveInv
<1>3. CASE deadlocked
  <2>1. \A u \in Threads : /\ pc[u] \in {"blocked", "failed", "recorded", "done"}
                           /\ pc[u] = "blocked" => u \in blocked
    BY <1>2, <1>3 DEF SyncInv, DeadInv
  <2>2. CASE RecordFailure(t)
    BY <1>1, <2>1, <2>2 DEF RecordFailure, waitVars
  <2>3. CASE BlockedInterrupted(t)
    BY <1>1, <1>2, <1>3, <2>1, <2>3 DEF BlockedInterrupted, ResumeAt, Fail, waitVars
  <2>4. ~RequestAbort(t)
    BY DEF RequestAbort
  <2>5. RecordFailure(t) \/ BlockedInterrupted(t)
    <3>1. ~SwallowException(t)
      BY SwallowAssumption DEF SwallowException
    <3>2. /\ ~WorkerReady(t) /\ ~ReadyWake(t) /\ ~SwitchStay(t) /\ ~SwitchLivelock(t)
          /\ ~SwitchWake(t) /\ ~CallInterrupted(t) /\ ~UserReturn(t) /\ ~UserThrow(t)
          /\ ~FinishThread(t) /\ \A c \in Threads : ~SwitchTo(t, c)
      BY <2>1 DEF WorkerReady, ReadyWake, SwitchStay, SwitchTo, AtSwitchPoint, SwitchLivelock, SwitchWake,
           CallInterrupted, UserReturn, UserThrow, FinishThread
    <3>3. QED
      BY <2>4, <3>1, <3>2 DEF CoreStep
  <2>6. QED
    BY <2>2, <2>3, <2>5
<1>4. CASE ~deadlocked
  <2>1. FinishThread(t)
    BY <1>4 DEF CoreStep, WorkerReady, ReadyWake, SwitchStay, SwitchTo, SwitchLivelock, SwitchWake,
           CallInterrupted, UserReturn, UserThrow, SwallowException, RecordFailure,
           RequestAbort, BlockedInterrupted
  <2>2. /\ pc[t] = "finishing" /\ pc' = [pc EXCEPT ![t] = "done"]
        /\ finished' = finished \cup {t}
        /\ scheduled = t /\ ~CanHandOff(finished', blocked, queue, timed)
        /\ blocked' = blocked
    BY <1>4, <2>1 DEF FinishThread
  <2>3. Active(finished', blocked) = {}
    BY <1>2, <2>2 DEF CanHandOff
  <2>4. /\ \A u \in Threads \ {t} : pc[u] \in {"blocked", "done"}
        /\ \A u \in Threads : u \in finished \cup {t} \/ u \in blocked
    <3>1. /\ Active(finished \cup {t}, blocked) = {} /\ blocked \subseteq blocked \cup {t}
          /\ finished \cup {t} \subseteq finished \cup {t}
      BY <2>2, <2>3
    <3>2. QED
      BY <1>1, <1>2, <1>4, <2>2, <3>1, DeadlockFound
  <2>5. \A u \in Threads : u \in finished <=> pc[u] = "done"
    BY <1>1 DEF TokenInv
  <2>6. QED
    BY <1>1, <2>2, <2>4, <2>5
<1>5. QED
  BY <1>3, <1>4

LEMMA CoreWait ==
    ASSUME SyncInv, NEW t \in Threads, CoreStep(t)
    PROVE  CoreTypeOK' /\ WaitInv' /\ FailInv' /\ DeadInv'
<1>1. CoreTypeOK'
  BY CoreStepCore DEF SyncInv, TypeOK
<1>2. WaitInv /\ AliveInv /\ TokenInv /\ FailInv
  BY DEF SyncInv, WaitInv, AliveInv
<1>3. TokenInv'
  BY <1>1, <1>2, CoreStepToken
<1>4. AliveInv'
  BY <1>2, <1>3, CoreStepAlive
<1>5. WaitInv'
  BY <1>2, <1>4, CoreStepWait
<1>6. FailInv'
  BY <1>1, <1>2, SwallowAssumption, CoreStepFail
<1>7. QED
  BY <1>1, <1>5, <1>6, CoreDead

\* Who waits where, and with a timeout, from what the step does to t itself
LEMMA FrameWaits ==
    ASSUME SyncInv, NEW t \in Threads, NEW W, Frame(t, W), Others(t),
           queue' \in [Queues -> Seq(Threads)], timed' \subseteq Threads, timedOut' \subseteq Threads,
           (\E j \in Queues : t \in ToSet(queue'[j])) =>
                op'[t] = op[t] /\ obj'[t] = obj[t] /\ op[t] \in DeadlockChecked,
           t \in timed' \cup timedOut' =>
                /\ op'[t] = "try_acquire_for"
                /\ pc'[t] \in {"blocked", "failed", "recorded", "finishing", "done"}
    PROVE  QueuesInv' /\ TimedInv'
<1>1. ASSUME NEW j \in Queues, NEW u \in ToSet(queue'[j])
      PROVE  j = QueueOf(u)' /\ op'[u] \in DeadlockChecked
  <2>1. u \in Threads
    BY ToSetType
  <2>2. op'[u] = op[u] /\ obj'[u] = obj[u] /\ op[u] \in DeadlockChecked
    BY <2>1 DEF Frame, Others, SyncInv, QueuesInv
  <2>3. j = QueueOf(u)
    BY DEF Frame, SyncInv, QueuesInv
  <2>4. QED
    BY <2>2, <2>3 DEF QueueOf
<1>2. ASSUME NEW u \in timed' \cup timedOut'
      PROVE  /\ op'[u] = "try_acquire_for"
             /\ pc'[u] \in {"blocked", "failed", "recorded", "finishing", "done"}
  <2>1. CASE u = t
    BY <2>1
  <2>2. CASE u \in Threads \ {t}
    BY <2>2 DEF Frame, Others, SyncInv, TimedInv
  <2>3. QED
    BY <2>1, <2>2
<1>3. QED
  BY <1>1, <1>2 DEF QueuesInv, TimedInv
-----------------------------------------------------------------------------
(* Calls.                                                                  *)

CallTypes ==
    /\ DOMAIN op = Threads /\ DOMAIN obj = Threads /\ DOMAIN arg = Threads
    /\ \A t \in Threads : CallOK(t)

LEMMA BeginCalls ==
    ASSUME TypeOK, NEW t \in Threads, NEW c \in program, NEW n \in ArgumentsOf(c[1]),
           Begin(t, c[1], c[2], n)
    PROVE  CallTypes' /\ Others(t)
<1>1. /\ op' = [op EXCEPT ![t] = c[1]] /\ obj' = [obj EXCEPT ![t] = c[2]]
      /\ arg' = [arg EXCEPT ![t] = n] /\ granted' = granted
      /\ DOMAIN op = Threads /\ DOMAIN obj = Threads /\ DOMAIN arg = Threads
      /\ \A u \in Threads : CallOK(u)
  BY DEF Begin, TypeOK
<1>2. Others(t)
  BY <1>1 DEF Others
<1>3. c \in AllCalls
  BY ProgramsAssumption DEF TypeOK
<1>4. \/ c[1] \in SemaphoreCalls /\ c[2] \in Semaphores
      \/ c[1] \in LatchCalls /\ c[2] \in Latches
      \/ c[1] \in BarrierCalls /\ c[2] \in Barriers
      \/ c[1] \in ParkerCalls /\ c[2] \in Parkers
      \/ c[1] \in AtomicCalls /\ c[2] \in Atomics
  BY <1>3 DEF AllCalls
<1>5. n \in Nat
  BY SizesAssumption DEF ArgumentsOf
<1>6. c[1] \in AtomicCalls => n \in {0, 1}
  BY DEF ArgumentsOf, AtomicCalls
<1>7. op'[t] = c[1] /\ obj'[t] = c[2] /\ arg'[t] = n
  BY <1>1
<1>8. CallOK(t)'
  BY <1>4, <1>5, <1>6, <1>7 DEF CallOK
<1>9. \A u \in Threads \ {t} : CallOK(u)'
  BY <1>1, <1>2 DEF CallOK, Others
<1>10. QED
  BY <1>1, <1>2, <1>8, <1>9 DEF CallTypes

\* A call keeps its operation and object; only wait of a barrier has an
\* argument of its own making
MethodCalls(t) ==
    /\ UNCHANGED <<op, obj>>
    /\ granted' = granted \/ \E v : granted' = [granted EXCEPT ![t] = v]
    /\ \/ arg' = arg
       \/ /\ op[t] = "wait_barrier" /\ token[t][obj[t]] # NoPhase
          /\ arg' = [arg EXCEPT ![t] = token[t][obj[t]]]

LEMMA MethodCallTypes ==
    ASSUME TypeOK, NEW t \in Threads, MethodCalls(t)
    PROVE  CallTypes' /\ Others(t)
<1>1. /\ DOMAIN op = Threads /\ DOMAIN obj = Threads /\ DOMAIN arg = Threads
      /\ \A u \in Threads : CallOK(u)
      /\ granted \in [Threads -> BOOLEAN] /\ token \in [Threads -> [Barriers -> Nat \cup {NoPhase}]]
  BY DEF TypeOK, CoreTypeOK
<1>2. Others(t)
  BY <1>1 DEF Others, MethodCalls
<1>3. CallOK(t)'
  <2>1. CASE arg' = arg
    BY <1>1, <2>1 DEF CallOK, MethodCalls
  <2>2. CASE /\ op[t] = "wait_barrier" /\ token[t][obj[t]] # NoPhase
             /\ arg' = [arg EXCEPT ![t] = token[t][obj[t]]]
    <3>1. obj[t] \in Barriers
      BY <2>2, CallObject DEF BarrierCalls
    <3>2. arg'[t] \in Nat
      <4>1. arg'[t] = token[t][obj[t]]
        BY <1>1, <2>2
      <4>2. token[t][obj[t]] \in Nat \cup {NoPhase}
        BY <1>1, <3>1
      <4>3. QED
        BY <2>2, <4>1, <4>2
    <3>3. op'[t] \in BarrierCalls /\ obj'[t] \in Barriers
      BY <2>2, <3>1 DEF MethodCalls, BarrierCalls
    <3>4. QED
      BY <3>2, <3>3 DEF CallOK
  <2>3. QED
    BY <2>1, <2>2 DEF MethodCalls
<1>4. \A u \in Threads \ {t} : CallOK(u)'
  BY <1>1, <1>2 DEF CallOK, Others
<1>5. QED
  BY <1>1, <1>2, <1>3, <1>4 DEF CallTypes, MethodCalls

LEMMA SemaphoreCallsKept ==
    ASSUME NEW t, SemaphoreStep(t)
    PROVE  MethodCalls(t) /\ op[t] \in SemaphoreCalls /\ pc[t] # "user"
           /\ UNCHANGED <<latchVars, barrierVars, permit, value, arg>>
BY DEF SemaphoreStep, Release, ReleaseRejected, Acquire, TryAcquireRefused, AcquireBlock, AcquireWake,
       MethodCalls, Consume, Return, Reject, BlockOn, callVars, syncVars, Called, WokenIn, SemaphoreCalls

LEMMA LatchCallsKept ==
    ASSUME NEW t, LatchStep(t)
    PROVE  MethodCalls(t) /\ op[t] \in LatchCalls /\ pc[t] # "user"
           /\ UNCHANGED <<semaphoreVars, barrierVars, permit, value, arg>>
BY DEF LatchStep, CountDown, CountDownRejected, LatchPass, LatchBlock, LatchWake, Resume,
       MethodCalls, Return, Reject, BlockOn, callVars, syncVars, Called, WokenIn, LatchCalls

LEMMA BarrierCallsKept ==
    ASSUME NEW t, BarrierStep(t)
    PROVE  MethodCalls(t) /\ op[t] \in BarrierCalls /\ pc[t] # "user"
           /\ UNCHANGED <<semaphoreVars, latchVars, permit, value>>
BY DEF BarrierStep, Arrive, ArriveRejected, BarrierPass, BarrierBlock, BarrierWaitRejected, BarrierWake,
       UseToken, Resume,
       MethodCalls, Return, Reject, BlockOn, callVars, syncVars, Called, WokenIn, BarrierCalls

LEMMA ParkCallsKept ==
    ASSUME NEW t, ParkStep(t)
    PROVE  MethodCalls(t) /\ op[t] \in ParkerCalls /\ pc[t] # "user"
           /\ UNCHANGED <<touched, semaphoreVars, latchVars, barrierVars, value, arg>>
BY DEF ParkStep, ParkPass, ParkBlock, ParkWake, Unpark, Resume,
       MethodCalls, Return, Reject, BlockOn, callVars, syncVars, Called, WokenIn, ParkerCalls

LEMMA AtomicCallsKept ==
    ASSUME NEW t, AtomicStep(t)
    PROVE  MethodCalls(t) /\ op[t] \in AtomicCalls /\ pc[t] # "user"
           /\ UNCHANGED <<touched, semaphoreVars, latchVars, barrierVars, permit, arg>>
BY DEF AtomicStep, Store, AtomicPass, AtomicBlock, AtomicWake, NotifyAtomic, Resume,
       MethodCalls, Return, Reject, BlockOn, callVars, syncVars, Called, WokenIn, AtomicCalls

\* What every call does to calls and to waiting
LEMMA SyncWaits ==
    ASSUME SyncInv, NEW t \in Threads, SyncStep(t)
    PROVE  CallTypes' /\ Others(t) /\ QueuesInv' /\ TimedInv'
<1>1. CASE \E c \in program : \E n \in ArgumentsOf(c[1]) : Begin(t, c[1], c[2], n)
  <2>1. CallTypes' /\ Others(t)
    BY <1>1, BeginCalls DEF SyncInv
  <2>2. Acts(t) /\ pc[t] = "user" /\ UNCHANGED waitVars /\ pc' = [pc EXCEPT ![t] = "call"]
    BY <1>1 DEF Begin, Acts, Goto
  <2>3. t \notin blocked /\ t \notin timed \cup timedOut
    BY <2>2, ActsAlone
  <2>4. \A j \in Queues : t \notin ToSet(queue'[j])
    BY <2>2, <2>3 DEF SyncInv, WaitInv, QueuedOnce, ToSet, waitVars
  <2>5. Frame(t, {})
    BY <2>2 DEF Frame, waitVars, SyncInv, TypeOK, CoreTypeOK
  <2>6. /\ queue' \in [Queues -> Seq(Threads)] /\ timed' \subseteq Threads /\ timedOut' \subseteq Threads
        /\ t \notin timed' \cup timedOut'
    BY <2>2, <2>3 DEF waitVars, SyncInv, TypeOK, CoreTypeOK
  <2>7. QED
    BY <2>1, <2>4, <2>5, <2>6, FrameWaits
<1>2. CASE SemaphoreStep(t) \/ LatchStep(t) \/ BarrierStep(t) \/ ParkStep(t) \/ AtomicStep(t)
  <2>1. MethodCalls(t)
    BY <1>2, SemaphoreCallsKept, LatchCallsKept, BarrierCallsKept, ParkCallsKept, AtomicCallsKept
  <2>2. CallTypes' /\ Others(t)
    BY <2>1, MethodCallTypes DEF SyncInv
  <2>3. op' = op /\ obj' = obj
    BY <2>1 DEF MethodCalls
  <2>4. ASSUME Blocks(t) PROVE QueuesInv' /\ TimedInv'
    <3>1. /\ Frame(t, {}) /\ CoreTypeOK' /\ op[t] \in DeadlockChecked
          /\ t \in timed' \cup timedOut' => op[t] = "try_acquire_for"
          /\ pc'[t] \in {"blocked", "failed"}
      BY <2>4, BlocksFrame DEF Blocks
    <3>2. queue' \in [Queues -> Seq(Threads)] /\ timed' \subseteq Threads /\ timedOut' \subseteq Threads
      BY <3>1 DEF CoreTypeOK
    <3>3. QED
      BY <2>2, <2>3, <3>1, <3>2, FrameWaits
  <2>5. ASSUME NEW W, Moves(t, W) PROVE QueuesInv' /\ TimedInv'
    <3>1. Frame(t, W) /\ CoreTypeOK' /\ QueuedOnce(queue', blocked') /\ blocked' \subseteq blocked
      BY <2>5, MovesFrame
    <3>2. t \notin blocked' /\ t \notin timed' \cup timedOut'
      BY <2>5, <3>1, ActsAlone DEF Moves
    <3>3. \A j \in Queues : t \notin ToSet(queue'[j])
      BY <3>1, <3>2 DEF QueuedOnce, ToSet
    <3>4. queue' \in [Queues -> Seq(Threads)] /\ timed' \subseteq Threads /\ timedOut' \subseteq Threads
      BY <3>1 DEF CoreTypeOK
    <3>5. QED
      BY <2>2, <3>1, <3>2, <3>3, <3>4, FrameWaits
  <2>6. QED
    BY <2>2, <2>4, <2>5, SyncMoves DEF SyncStep
<1>3. QED
  BY <1>1, <1>2 DEF SyncStep
-----------------------------------------------------------------------------
(* Semaphores.                                                             *)

\* The queues of the kinds of object differ
LEMMA QueueOfKind ==
    ASSUME NEW t
    PROVE  /\ \A x : QueueOf(t) = Semaphore(x) => op[t] \in SemaphoreCalls /\ obj[t] = x
           /\ \A x : QueueOf(t) = Latch(x) => op[t] \in LatchCalls /\ obj[t] = x
           /\ \A x : QueueOf(t) = Barrier(x) => op[t] \in BarrierCalls /\ obj[t] = x
           /\ \A x : QueueOf(t) = Parker(x) => op[t] \in ParkerCalls /\ obj[t] = x
BY DEF QueueOf, Semaphore, Latch, Barrier, Parker, Atomic

\* A queue that t does not join and that has waiters had some before
LEMMA FrameQueues ==
    ASSUME SyncInv, NEW t \in Threads, NEW W, Frame(t, W), queue' \in [Queues -> Seq(Threads)],
           NEW j \in Queues, queue'[j] # <<>>, ~(pc[t] = "call" /\ j = QueueOf(t))
    PROVE  queue[j] # <<>>
<1>1. PICK u : u \in ToSet(queue'[j])
  BY EmptyQueue
<1>2. u \in ToSet(queue[j])
  BY <1>1 DEF Frame
<1>3. queue[j] \in Seq(Threads)
  BY DEF SyncInv, TypeOK, CoreTypeOK
<1>4. QED
  BY <1>2, <1>3, EmptyQueue

SemaphoreQueueKnown == \A x \in Semaphores : Semaphore(x) \in Queues

LEMMA SemaphoreQueue == SemaphoreQueueKnown
BY QueueNames DEF Semaphore, SemaphoreQueueKnown

LEMMA GrantedFinite ==
    ASSUME NEW x
    PROVE  IsFiniteSet(Granted(x)) /\ Cardinality(Granted(x)) \in Nat
<1>1. IsFiniteSet(Threads)
  BY NAssumption, FS_Interval DEF Threads
<1>2. Granted(x) \subseteq Threads
  BY DEF Granted
<1>3. QED
  BY <1>1, <1>2, FS_Subset, FS_CardinalityType

\* Of the others, the granted stay granted and those that are woken join them
LEMMA GrantedFrame ==
    ASSUME SyncInv, NEW t \in Threads, NEW W, Frame(t, W), Others(t), NEW x,
           ~abortRequested, W = {} \/ ~deadlocked
    PROVE  \A u \in Threads \ {t} :
               u \in Granted(x)' <=>
                  u \in Granted(x)
                  \/ (u \in W /\ op[u] \in {"acquire", "try_acquire_for"} /\ obj[u] = x)
<1> SUFFICES ASSUME NEW u \in Threads \ {t}
             PROVE  u \in Granted(x)' <=>
                        u \in Granted(x)
                        \/ (u \in W /\ op[u] \in {"acquire", "try_acquire_for"} /\ obj[u] = x)
  OBVIOUS
<1>1. pc'[u] = pc[u] /\ op'[u] = op[u] /\ obj'[u] = obj[u]
  BY DEF Frame, Others
<1>2. u \in W => pc[u] = "blocked" /\ u \in blocked
  BY DEF Frame, SyncInv, WaitInv, BlockedWait
<1>3. /\ u \in blocked' => u \in blocked
      /\ u \in W => u \notin blocked' /\ u \notin timedOut'
      /\ u \in blocked /\ u \notin blocked' => u \in W \/ (u \in timed /\ u \in timedOut')
      /\ u \in timedOut' /\ u \notin timedOut => u \in blocked /\ u \in timed
      /\ u \in timedOut /\ u \notin timedOut' => u \in W
  BY DEF Frame
<1>4. u \in Granted(x)' <=> /\ pc'[u] = "blocked" /\ u \notin blocked'
                           /\ op'[u] \in {"acquire", "try_acquire_for"} /\ obj'[u] = x
                           /\ u \notin timedOut'
  BY DEF Granted
<1>5. u \in Granted(x) <=> /\ pc[u] = "blocked" /\ u \notin blocked
                           /\ op[u] \in {"acquire", "try_acquire_for"} /\ obj[u] = x
                           /\ u \notin timedOut
  BY DEF Granted
<1>6. QED
  BY <1>1, <1>2, <1>3, <1>4, <1>5

\* A step that changes no count and grants nothing
LEMMA SemaphoreQuiet ==
    ASSUME SyncInv, NEW t \in Threads, NEW W, Frame(t, W), Others(t),
           queue' \in [Queues -> Seq(Threads)],
           \A x \in Semaphores : permits'[x] = permits[x] /\ nativePermits'[x] = nativePermits[x],
           touched \subseteq touched', abortRequested => abortRequested',
           W = {} \/ (~deadlocked /\ \A u \in W : op[u] \notin SemaphoreCalls),
           \A x \in Semaphores :
              pc[t] = "call" /\ QueueOf(t) = Semaphore(x) => permits[x] = 0 \/ queue'[QueueOf(t)] = queue[QueueOf(t)],
           ~abortRequested' => \A x : t \notin Granted(x) /\ t \notin Granted(x)'
    PROVE  SemInv'
<1>1. \A x \in Semaphores : queue'[Semaphore(x)] # <<>> => permits'[x] = 0
  <2> SUFFICES ASSUME NEW x \in Semaphores, queue'[Semaphore(x)] # <<>> PROVE permits[x] = 0
    OBVIOUS
  <2>1. Semaphore(x) \in Queues
    BY SemaphoreQueue DEF SemaphoreQueueKnown
  <2>2. CASE pc[t] = "call" /\ Semaphore(x) = QueueOf(t)
    BY <2>2 DEF SyncInv, SemInv
  <2>3. CASE ~(pc[t] = "call" /\ Semaphore(x) = QueueOf(t))
    BY <2>1, <2>3, FrameQueues DEF SyncInv, SemInv
  <2>4. QED
    BY <2>2, <2>3
<1>2. \A x \in Semaphores \ touched' : permits'[x] = nativePermits'[x]
  BY DEF SyncInv, SemInv
<1>3. ASSUME ~abortRequested', NEW x \in Semaphores
      PROVE  nativePermits'[x] = permits'[x] + Cardinality(Granted(x)')
  <2>1. \A u \in Threads \ {t} : u \in Granted(x)' <=> u \in Granted(x)
    BY <1>3, GrantedFrame DEF SemaphoreCalls
  <2>2. Granted(x)' \subseteq Threads /\ Granted(x) \subseteq Threads
    BY DEF Granted
  <2>3. Granted(x)' = Granted(x)
    BY <1>3, <2>1, <2>2
  <2>4. QED
    BY <1>3, <2>3 DEF SyncInv, SemInv
<1>4. QED
  BY <1>1, <1>2, <1>3 DEF SemInv
SemaphoreTypes ==
    /\ nativePermits \in [Semaphores -> 0 .. MaxPermits]
    /\ permits \in [Semaphores -> 0 .. MaxPermits]
    /\ touched \subseteq UNION {Semaphores, Latches, Barriers}

LEMMA ReleaseSemaphore ==
    ASSUME SyncInv, NEW t \in Threads, Release(t), Others(t)
    PROVE  SemInv' /\ SemaphoreTypes'
<1>1. PICK x \in Semaphores : x = obj[t]
  BY CallObject DEF Release, Called, SemaphoreCalls, SyncInv
<1>2. PICK s : s = queue[Semaphore(x)]
  OBVIOUS
<1>3. PICK n : n = arg[t]
  OBVIOUS
<1>4. n \in Nat
  BY <1>3, CallObject DEF Release, Called, SemaphoreCalls, SyncInv
<1>5. PICK p : p = Managed(x) + n
  OBVIOUS
<1>6. PICK k : k = Served(x, p)
  OBVIOUS
<1>7. PICK W : W = FirstOf(s, k)
  OBVIOUS
<1>8. /\ Moves(t, W) /\ k \in 0 .. Len(s) /\ s \in Seq(Threads)
      /\ Takes(s, W, SubSeq(s, k + 1, Len(s)))
      /\ IsFiniteSet(W) /\ Cardinality(W) = k
  <2>1. s = queue[Semaphore(obj[t])] /\ k = Served(obj[t], Managed(obj[t]) + arg[t])
    BY <1>1, <1>2, <1>3, <1>5, <1>6
  <2>2. /\ Moves(t, FirstOf(s, k)) /\ k \in 0 .. Len(s) /\ s \in Seq(Threads)
        /\ Takes(s, FirstOf(s, k), SubSeq(s, k + 1, Len(s)))
        /\ IsFiniteSet(FirstOf(s, k)) /\ Cardinality(FirstOf(s, k)) = k
    BY <2>1, ReleaseMoves
  <2>3. QED
    BY <1>7, <2>2
<1>9. /\ nativePermits[x] <= MaxPermits - n
      /\ nativePermits' = [nativePermits EXCEPT ![x] = nativePermits[x] + n]
      /\ permits' = [permits EXCEPT ![x] = p - k]
      /\ touched' = touched \cup {x}
      /\ queue' = [queue EXCEPT ![Semaphore(x)] = SubSeq(s, k + 1, Len(s))]
      /\ pc[t] = "call" /\ op[t] = "release" /\ pc' = [pc EXCEPT ![t] = "after"]
  BY <1>1, <1>2, <1>3, <1>5, <1>6 DEF Release, Wake, Called, Return, Goto
<1>10. /\ Semaphore(x) \in Queues /\ queue \in [Queues -> Seq(Threads)]
       /\ nativePermits \in [Semaphores -> 0 .. MaxPermits]
       /\ permits \in [Semaphores -> 0 .. MaxPermits]
       /\ MaxPermits \in Nat /\ pc \in [Threads -> Locations]
       /\ touched \subseteq UNION {Semaphores, Latches, Barriers}
  BY SemaphoreQueue, SizesAssumption DEF SemaphoreQueueKnown, SyncInv, TypeOK, CoreTypeOK
<1>11. ~deadlocked /\ ~abortRequested
  BY <1>8, ActsAlone DEF Moves
<1>12. Frame(t, W)
  BY <1>8, MovesFrame
<1>13. \A y \in Semaphores : nativePermits[y] = permits[y] + Cardinality(Granted(y))
  BY <1>11 DEF SyncInv, SemInv
<1>14. Managed(x) = permits[x]
  BY DEF Managed, SyncInv, SemInv
<1>15. QueueOf(t) = Semaphore(x)
  BY <1>1, <1>9 DEF QueueOf, SemaphoreCalls
<1>16. \A u \in W : op[u] \in {"acquire", "try_acquire_for"} /\ obj[u] = x
  <2>1. \A u \in W : op[u] \in DeadlockChecked /\ QueueOf(u) = Semaphore(x)
    BY <1>12, <1>15 DEF Frame
  <2>2. \A u \in W : op[u] \in SemaphoreCalls /\ obj[u] = x
    BY <2>1, QueueOfKind
  <2>3. QED
    BY <2>1, <2>2 DEF DeadlockChecked, SemaphoreCalls
<1>17. W \subseteq blocked \ {t} /\ blocked \subseteq Threads
  BY <1>12 DEF Frame, SyncInv, TypeOK, CoreTypeOK
<1>18. \A y : t \notin Granted(y) /\ t \notin Granted(y)'
  BY <1>9, <1>10 DEF Granted
<1>19. \A y : Granted(y)' = IF y = x THEN Granted(x) \cup W ELSE Granted(y)
  <2> SUFFICES ASSUME NEW y PROVE Granted(y)' = IF y = x THEN Granted(x) \cup W ELSE Granted(y)
    OBVIOUS
  <2>1. \A u \in Threads \ {t} : u \in Granted(y)' <=> u \in Granted(y) \/ (u \in W /\ x = y)
    BY <1>11, <1>12, <1>16, GrantedFrame
  <2>2. Granted(y)' \subseteq Threads /\ Granted(y) \subseteq Threads
    BY DEF Granted
  <2>3. QED
    BY <1>17, <1>18, <2>1, <2>2
<1>20. Cardinality(Granted(x)') = Cardinality(Granted(x)) + k
  <2>1. PICK g : g = Granted(x)
    OBVIOUS
  <2>2. g \cap W = {}
    BY <1>17, <2>1 DEF Granted
  <2>3. IsFiniteSet(g) /\ Cardinality(g) \in Nat
    BY <2>1, GrantedFinite
  <2>4. Cardinality(g \cup W) = Cardinality(g) + k
    <3>1. Cardinality(g \cup W) = Cardinality(g) + Cardinality(W) - Cardinality(g \cap W)
      BY <1>8, <2>3, FS_Union
    <3>2. Cardinality(g \cap W) = 0
      BY <2>2, FS_EmptySet
    <3>3. k \in Nat
      BY <1>8
    <3>4. QED
      BY <1>8, <2>3, <3>1, <3>2, <3>3
  <2>5. QED
    BY <1>19, <2>1, <2>4
<1>21. k = IF p < Len(s) THEN p ELSE Len(s)
  BY <1>2, <1>6 DEF Served
<1>22. Len(s) \in Nat /\ permits[x] \in 0 .. MaxPermits /\ nativePermits[x] \in 0 .. MaxPermits
  BY <1>8, <1>10
<1>23. p = permits[x] + n /\ p \in Nat /\ k <= p /\ k \in Nat
  BY <1>4, <1>5, <1>8, <1>14, <1>21, <1>22
<1>24. /\ permits'[x] = p - k /\ nativePermits'[x] = nativePermits[x] + n
       /\ \A y \in Semaphores \ {x} : permits'[y] = permits[y] /\ nativePermits'[y] = nativePermits[y]
  BY <1>9, <1>10
<1>25. nativePermits'[x] = permits'[x] + Cardinality(Granted(x)')
  BY <1>13, <1>20, <1>22, <1>23, <1>24, <1>4, GrantedFinite, SMTT(30)
<1>26. permits'[x] \in 0 .. MaxPermits /\ nativePermits'[x] \in 0 .. MaxPermits
  <2>1. PICK g : g = Cardinality(Granted(x)') /\ g \in Nat
    BY <1>20, <1>23, GrantedFinite
  <2>2. nativePermits'[x] <= MaxPermits /\ nativePermits'[x] \in Nat
    BY <1>4, <1>9, <1>10, <1>22, <1>24
  <2>3. permits'[x] \in Nat /\ nativePermits'[x] = permits'[x] + g
    BY <1>23, <1>24, <1>25, <2>1
  <2>4. QED
    BY <1>10, <2>1, <2>2, <2>3
<1>27. SemaphoreTypes'
  BY <1>9, <1>10, <1>26 DEF SemaphoreTypes
<1>28. \A y \in Semaphores : nativePermits'[y] = permits'[y] + Cardinality(Granted(y)')
  BY <1>13, <1>19, <1>24, <1>25
<1>29. \A y \in Semaphores : queue'[Semaphore(y)] # <<>> => permits'[y] = 0
  <2> SUFFICES ASSUME NEW y \in Semaphores, queue'[Semaphore(y)] # <<>> PROVE permits'[y] = 0
    OBVIOUS
  <2>1. CASE y = x
    <3>1. SubSeq(s, k + 1, Len(s)) # <<>>
      BY <1>9, <1>10, <2>1
    <3>2. k # Len(s)
      BY <1>8, <3>1
    <3>3. k = p
      BY <1>21, <3>2
    <3>4. QED
      BY <1>23, <1>24, <2>1, <3>3
  <2>2. CASE y # x
    <3>1. Semaphore(y) # Semaphore(x)
      BY <2>2 DEF Semaphore
    <3>2. queue'[Semaphore(y)] = queue[Semaphore(y)]
      BY <1>9, <1>10, <3>1, SemaphoreQueue DEF SemaphoreQueueKnown
    <3>3. QED
      BY <1>24, <2>2, <3>2 DEF SyncInv, SemInv
  <2>3. QED
    BY <2>1, <2>2
<1>30. \A y \in Semaphores \ touched' : permits'[y] = nativePermits'[y]
  BY <1>9, <1>24 DEF SyncInv, SemInv
<1>31. QED
  BY <1>27, <1>28, <1>29, <1>30 DEF SemInv

\* A step that moves t alone, and wakes nobody
LEMMA QuietFrame ==
    ASSUME SyncInv, NEW t \in Threads, UNCHANGED <<queue, blocked>>, NEW l, Goto(t, l),
           \A u \in Threads \ {t} : (u \in timed' <=> u \in timed) /\ (u \in timedOut' <=> u \in timedOut)
    PROVE  Frame(t, {}) /\ queue' \in [Queues -> Seq(Threads)] /\ pc'[t] = l
<1>1. pc \in [Threads -> Locations] /\ queue \in [Queues -> Seq(Threads)]
  BY DEF SyncInv, TypeOK, CoreTypeOK
<1>2. pc'[t] = l /\ \A u \in Threads \ {t} : pc'[u] = pc[u]
  BY <1>1 DEF Goto
<1>3. QED
  BY <1>1, <1>2 DEF Frame

\* The managed permits are always those of the managed entry
LEMMA ManagedPermits ==
    ASSUME SyncInv, NEW x \in Semaphores
    PROVE  /\ Managed(x) = permits[x]
           /\ permits[x] \in 0 .. MaxPermits /\ nativePermits[x] \in 0 .. MaxPermits
           /\ permits[x] > 0 => queue[Semaphore(x)] = <<>>
           /\ [permits EXCEPT ![x] = Managed(x)] = permits
BY DEF Managed, SyncInv, SemInv, TypeOK

LEMMA AcquireSemaphore ==
    ASSUME SyncInv, NEW t \in Threads, Acquire(t), Others(t)
    PROVE  SemInv' /\ SemaphoreTypes'
<1>1. PICK x \in Semaphores : x = obj[t]
  BY CallObject DEF Acquire, Called, SemaphoreCalls, SyncInv
<1>2. /\ pc[t] = "call" /\ permits[x] > 0
      /\ permits' = [permits EXCEPT ![x] = permits[x] - 1]
      /\ touched' = touched \cup {x} /\ Consume(t, x)
      /\ UNCHANGED <<queue, blocked, timed, timedOut>>
  BY <1>1, ManagedPermits DEF Acquire, Called, NoWaitChange, NoHandOff
<1>3. ~abortRequested /\ ~deadlocked
  BY <1>2, ActsAlone DEF Acts
<1>4. /\ \A y \in Semaphores : nativePermits[y] = permits[y] + Cardinality(Granted(y))
      /\ \A y \in Semaphores : Cardinality(Granted(y)) \in Nat
      /\ permits \in [Semaphores -> 0 .. MaxPermits]
      /\ nativePermits \in [Semaphores -> 0 .. MaxPermits] /\ MaxPermits \in Nat
      /\ touched \subseteq UNION {Semaphores, Latches, Barriers}
      /\ \A y \in Semaphores \ touched : permits[y] = nativePermits[y]
  BY <1>3, GrantedFinite, SizesAssumption DEF SyncInv, SemInv, TypeOK
<1>5. permits[x] \in Nat /\ nativePermits[x] \in Nat /\ nativePermits[x] > 0
  BY <1>2, <1>4
<1>6. /\ nativePermits' = [nativePermits EXCEPT ![x] = nativePermits[x] - 1]
      /\ Goto(t, "after")
  BY <1>2, <1>5 DEF Consume, Return
<1>7. Frame(t, {}) /\ pc'[t] = "after"
  BY <1>2, <1>6, QuietFrame
<1>8. \A y : Granted(y)' = Granted(y)
  <2> SUFFICES ASSUME NEW y PROVE Granted(y)' = Granted(y)
    OBVIOUS
  <2>1. \A u \in Threads \ {t} : u \in Granted(y)' <=> u \in Granted(y)
    BY <1>3, <1>7, GrantedFrame
  <2>2. t \notin Granted(y) /\ t \notin Granted(y)'
    BY <1>2, <1>7 DEF Granted
  <2>3. Granted(y)' \subseteq Threads /\ Granted(y) \subseteq Threads
    BY DEF Granted
  <2>4. QED
    BY <2>1, <2>2, <2>3
<1>9. /\ permits'[x] = permits[x] - 1 /\ nativePermits'[x] = nativePermits[x] - 1
      /\ \A y \in Semaphores \ {x} : permits'[y] = permits[y] /\ nativePermits'[y] = nativePermits[y]
  BY <1>2, <1>4, <1>6
<1>10. \A y \in Semaphores : nativePermits'[y] = permits'[y] + Cardinality(Granted(y)')
  BY <1>4, <1>5, <1>8, <1>9
<1>11. \A y \in Semaphores : queue'[Semaphore(y)] # <<>> => permits'[y] = 0
  BY <1>2, <1>9, ManagedPermits DEF SyncInv, SemInv
<1>12. \A y \in Semaphores \ touched' : permits'[y] = nativePermits'[y]
  BY <1>2, <1>4, <1>9
<1>13. SemaphoreTypes'
  BY <1>2, <1>4, <1>5, <1>6 DEF SemaphoreTypes
<1>14. QED
  BY <1>10, <1>11, <1>12, <1>13 DEF SemInv

\* A waiter that was served has its native permit waiting
LEMMA WakeSemaphore ==
    ASSUME SyncInv, NEW t \in Threads, AcquireWake(t), Others(t)
    PROVE  SemInv' /\ SemaphoreTypes'
<1>1. PICK x \in Semaphores : x = obj[t]
  BY CallObject DEF AcquireWake, WokenIn, SemaphoreCalls, SyncInv
<1>2. /\ pc[t] = "blocked" /\ op[t] \in {"acquire", "try_acquire_for"}
      /\ UNCHANGED <<queue, blocked, permits, touched>>
      /\ Acts(t)
      /\ \A u \in Threads \ {t} : (u \in timed' <=> u \in timed) /\ (u \in timedOut' <=> u \in timedOut)
  BY DEF AcquireWake, WokenIn, Acts
<1>3. ~abortRequested /\ ~deadlocked /\ t \notin blocked
  BY <1>2, ActsAlone
<1>4. /\ \A y \in Semaphores : nativePermits[y] = permits[y] + Cardinality(Granted(y))
      /\ \A y \in Semaphores : Cardinality(Granted(y)) \in Nat
      /\ permits \in [Semaphores -> 0 .. MaxPermits]
      /\ nativePermits \in [Semaphores -> 0 .. MaxPermits] /\ MaxPermits \in Nat
      /\ touched \subseteq UNION {Semaphores, Latches, Barriers}
      /\ \A y \in Semaphores \ touched : permits[y] = nativePermits[y]
  BY <1>3, GrantedFinite, SizesAssumption DEF SyncInv, SemInv, TypeOK
<1>5. ~abortRequested'
  BY <1>3 DEF AcquireWake, tokenVars
<1>6. CASE op[t] = "try_acquire_for" /\ t \in timedOut /\ Return(t, FALSE) /\ UNCHANGED nativePermits
  <2>1. Frame(t, {}) /\ queue' \in [Queues -> Seq(Threads)] /\ pc'[t] = "after"
    BY <1>2, <1>6, QuietFrame DEF Return
  <2>2. \A y : t \notin Granted(y) /\ t \notin Granted(y)'
    BY <1>6, <2>1 DEF Granted
  <2>3. \A y \in Semaphores : permits'[y] = permits[y] /\ nativePermits'[y] = nativePermits[y]
    BY <1>2, <1>6
  <2>4. touched \subseteq touched' /\ (abortRequested => abortRequested')
    BY <1>2, <1>3
  <2>5. \A y \in Semaphores : pc[t] = "call" /\ QueueOf(t) = Semaphore(y)
              => permits[y] = 0 \/ queue'[QueueOf(t)] = queue[QueueOf(t)]
    BY <1>2
  <2>6. SemInv'
    BY <2>1, <2>2, <2>3, <2>4, <2>5, SemaphoreQuiet
  <2>7. QED
    BY <1>2, <1>4, <1>6, <2>6 DEF SemaphoreTypes
<1>7. CASE (op[t] = "acquire" \/ t \notin timedOut) /\ Consume(t, x)
  <2>1. t \in Granted(x) /\ \A y : y # x => t \notin Granted(y)
    BY <1>1, <1>2, <1>3, <1>7 DEF Granted, SyncInv, TimedInv
  <2>2. IsFiniteSet(Granted(x)) /\ Cardinality(Granted(x) \ {t}) = Cardinality(Granted(x)) - 1
    BY <2>1, GrantedFinite, FS_RemoveElement
  <2>3. Cardinality(Granted(x) \ {t}) \in Nat
    BY <2>2, FS_RemoveElement, FS_CardinalityType
  <2>4. permits[x] \in Nat /\ nativePermits[x] \in Nat /\ nativePermits[x] > 0 /\ nativePermits[x] # permits[x]
    BY <1>4, <2>2, <2>3
  <2>5. nativePermits' = [nativePermits EXCEPT ![x] = nativePermits[x] - 1] /\ Goto(t, "after")
    BY <1>7, <2>4 DEF Consume, Return
  <2>6. Frame(t, {}) /\ pc'[t] = "after"
    BY <1>2, <2>5, QuietFrame
  <2>7. \A y : Granted(y)' = IF y = x THEN Granted(x) \ {t} ELSE Granted(y)
    <3> SUFFICES ASSUME NEW y PROVE Granted(y)' = IF y = x THEN Granted(x) \ {t} ELSE Granted(y)
      OBVIOUS
    <3>1. \A u \in Threads \ {t} : u \in Granted(y)' <=> u \in Granted(y)
      BY <1>3, <2>6, GrantedFrame
    <3>2. t \notin Granted(y)'
      BY <2>6 DEF Granted
    <3>3. Granted(y)' \subseteq Threads /\ Granted(y) \subseteq Threads
      BY DEF Granted
    <3>4. QED
      BY <2>1, <3>1, <3>2, <3>3
  <2>8. /\ permits' = permits /\ nativePermits'[x] = nativePermits[x] - 1
        /\ \A y \in Semaphores \ {x} : nativePermits'[y] = nativePermits[y]
    BY <1>2, <1>4, <2>5
  <2>9. \A y \in Semaphores : nativePermits'[y] = permits'[y] + Cardinality(Granted(y)')
    <3>1. \A y \in Semaphores \ {x} : nativePermits'[y] = permits'[y] + Cardinality(Granted(y)')
      BY <1>4, <2>7, <2>8
    <3>2. nativePermits'[x] = permits'[x] + Cardinality(Granted(x)')
      <4>1. Cardinality(Granted(x)') = Cardinality(Granted(x)) - 1
        BY <2>2, <2>7
      <4>2. QED
        BY <1>4, <2>4, <2>8, <4>1
    <3>3. QED
      BY <3>1, <3>2
  <2>10. \A y \in Semaphores : queue'[Semaphore(y)] # <<>> => permits'[y] = 0
    BY <1>2 DEF SyncInv, SemInv
  <2>11. \A y \in Semaphores \ touched' : permits'[y] = nativePermits'[y]
    BY <1>2, <1>4, <2>4, <2>8
  <2>12. SemaphoreTypes'
    BY <1>2, <1>4, <2>4, <2>5 DEF SemaphoreTypes
  <2>13. QED
    BY <2>9, <2>10, <2>11, <2>12 DEF SemInv
<1>8. QED
  BY <1>1, <1>6, <1>7 DEF AcquireWake

\* The calls that find no permit
LEMMA RefusedSemaphore ==
    ASSUME SyncInv, NEW t \in Threads, Others(t),
           ReleaseRejected(t) \/ TryAcquireRefused(t) \/ AcquireBlock(t)
    PROVE  SemInv' /\ SemaphoreTypes'
<1>1. pc[t] = "call" /\ op[t] \in SemaphoreCalls
  BY DEF ReleaseRejected, TryAcquireRefused, AcquireBlock, Called, SemaphoreCalls
<1>2. PICK x \in Semaphores : x = obj[t]
  BY <1>1, CallObject DEF SyncInv
<1>3. ~abortRequested /\ ~deadlocked
  BY <1>1, ActsAlone DEF Acts
<1>4. /\ permits' = permits /\ nativePermits' = nativePermits
      /\ touched' = touched \/ touched' = touched \cup {x}
  BY <1>2, ManagedPermits DEF ReleaseRejected, TryAcquireRefused, AcquireBlock, syncVars, semaphoreVars
<1>5. SemaphoreTypes'
  BY <1>4 DEF SemaphoreTypes, SyncInv, TypeOK
<1>6. QueueOf(t) = Semaphore(x)
  BY <1>1, <1>2 DEF QueueOf
<1>7. CASE AcquireBlock(t)
  <2>1. Blocks(t) /\ permits[x] = 0
    BY <1>2, <1>6, <1>7, ManagedPermits DEF AcquireBlock, BlockOn, Blocks, DeadlockChecked, Called
  <2>2. /\ Frame(t, {}) /\ CoreTypeOK'
        /\ t \in blocked' \/ t \in timedOut'
        /\ t \in timed' \cup timedOut' => op[t] = "try_acquire_for"
    BY <2>1, BlocksFrame
  <2>3. \A y : t \notin Granted(y) /\ t \notin Granted(y)'
    BY <1>1, <2>2 DEF Granted
  <2>4. queue' \in [Queues -> Seq(Threads)]
    BY <2>2 DEF CoreTypeOK
  <2>5. \A y \in Semaphores : QueueOf(t) = Semaphore(y) => permits[y] = 0
    BY <2>1, <1>6 DEF Semaphore
  <2>6. QED
    BY <1>3, <1>4, <1>5, <2>2, <2>3, <2>4, <2>5, SemaphoreQuiet
<1>8. CASE ReleaseRejected(t) \/ TryAcquireRefused(t)
  <2>1. /\ UNCHANGED <<queue, blocked, timed, timedOut>>
        /\ \E l \in {"failed", "after"} : Goto(t, l)
    BY <1>8 DEF ReleaseRejected, TryAcquireRefused, NoWaitChange, NoHandOff, Reject, Fail, Return
  <2>2. Frame(t, {}) /\ queue' \in [Queues -> Seq(Threads)] /\ pc'[t] \in {"failed", "after"}
    BY <2>1, QuietFrame
  <2>3. \A y : t \notin Granted(y) /\ t \notin Granted(y)'
    BY <1>1, <2>2 DEF Granted
  <2>4. QED
    BY <1>3, <1>4, <1>5, <2>1, <2>2, <2>3, SemaphoreQuiet
<1>9. QED
  BY <1>7, <1>8

LEMMA SemaphoreStepKeeps ==
    ASSUME SyncInv, NEW t \in Threads, SemaphoreStep(t), Others(t)
    PROVE  SemInv' /\ SemaphoreTypes'
BY ReleaseSemaphore, AcquireSemaphore, WakeSemaphore, RefusedSemaphore DEF SemaphoreStep

-----------------------------------------------------------------------------
(* Steps that have nothing to do with one kind of object.                  *)

Kinds == {SemaphoreCalls, LatchCalls, BarrierCalls, ParkerCalls}

\* A step of t that wakes W and is no call among K
Away(t, W, K) ==
    /\ Frame(t, W) /\ Others(t) /\ queue' \in [Queues -> Seq(Threads)]
    /\ abortRequested => abortRequested'
    /\ W = {} \/ ~deadlocked
    /\ \A u \in W : op[u] \notin K
    /\ pc[t] = "call" => op[t] \notin K
    /\ op'[t] \in K /\ pc'[t] \in {"after", "afterWait", "blocked"}
         => /\ pc[t] \in {"after", "afterWait"} /\ pc'[t] # "blocked"
            /\ op'[t] = op[t] /\ obj'[t] = obj[t] /\ granted'[t] = granted[t]
    /\ op[t] \in K /\ pc[t] # "user" => arg'[t] = arg[t] /\ obj'[t] = obj[t]
    /\ op[t] \in K /\ pc[t] = "blocked" /\ ~abortRequested' => t \in blocked

\* Outside the methods nothing happens to a call
LEMMA CoreAway ==
    ASSUME SyncInv, NEW t \in Threads, CoreStep(t), UNCHANGED syncVars, NEW K
    PROVE  Away(t, {}, K)
<1>1. /\ Frame(t, {}) /\ UNCHANGED callVars /\ pc'[t] # "blocked"
      /\ pc'[t] \in {"after", "afterWait"} => pc[t] \in {"after", "afterWait"}
  BY CoreFrame
<1>2. CoreTypeOK'
  BY CoreWait
<1>3. Others(t)
  BY <1>1 DEF Others, callVars, syncVars
<1>4. abortRequested => abortRequested'
  BY DEF CoreStep, WorkerReady, ReadyWake, SwitchStay, SwitchTo, SwitchLivelock, SwitchWake,
         CallInterrupted, UserReturn, UserThrow, SwallowException, RecordFailure,
         RequestAbort, BlockedInterrupted, FinishThread, tokenVars
<1>5. pc[t] # "call"
  <2> SUFFICES ASSUME pc[t] = "call" PROVE FALSE
    OBVIOUS
  <2>1. ~deadlocked /\ aborted = {}
    BY ActsAlone DEF Acts
  <2>2. QED
    BY <2>1 DEF CoreStep, WorkerReady, ReadyWake, SwitchStay, SwitchTo, SwitchLivelock, SwitchWake,
         CallInterrupted, UserReturn, UserThrow, SwallowException, RecordFailure,
         RequestAbort, BlockedInterrupted, FinishThread, AtSwitchPoint
<1>6. pc[t] = "blocked" /\ ~abortRequested' => t \in blocked
  <2> SUFFICES ASSUME pc[t] = "blocked", ~abortRequested' PROVE t \in blocked
    OBVIOUS
  <2>1. ~abortRequested /\ aborted = {}
    BY <1>4 DEF SyncInv, WaitInv, AliveInv
  <2>2. BlockedInterrupted(t)
    BY DEF CoreStep, WorkerReady, ReadyWake, SwitchStay, SwitchTo, SwitchLivelock, SwitchWake,
         CallInterrupted, UserReturn, UserThrow, SwallowException, RecordFailure,
         RequestAbort, FinishThread, AtSwitchPoint
  <2>3. deadlocked
    BY <2>1, <2>2 DEF BlockedInterrupted
  <2>4. QED
    BY <2>1, <2>3 DEF SyncInv, DeadInv
<1>7. QED
  BY <1>1, <1>2, <1>3, <1>4, <1>5, <1>6 DEF Away, CoreTypeOK, callVars, syncVars

LEMMA BeginAway ==
    ASSUME SyncInv, NEW t \in Threads, NEW c, NEW x, NEW n, Begin(t, c, x, n), Others(t), NEW K
    PROVE  Away(t, {}, K)
<1>1. pc[t] = "user" /\ Goto(t, "call") /\ UNCHANGED waitVars /\ UNCHANGED tokenVars
  BY DEF Begin
<1>2. Frame(t, {}) /\ queue' \in [Queues -> Seq(Threads)] /\ pc'[t] = "call"
  BY <1>1, QuietFrame DEF waitVars
<1>3. QED
  BY <1>1, <1>2 DEF Away, tokenVars

LEMMA MethodAway ==
    ASSUME SyncInv, NEW t \in Threads, MethodCalls(t), Others(t),
           Blocks(t) \/ \E W : Moves(t, W),
           NEW K \in Kinds, op[t] \notin K
    PROVE  \E W : Away(t, W, K)
<1>1. op'[t] = op[t]
  BY DEF MethodCalls
<1>2. ASSUME NEW W, Frame(t, W)
      PROVE  \A u \in W : op[u] \notin K
  <2> SUFFICES ASSUME NEW u \in W, op[u] \in K PROVE FALSE
    OBVIOUS
  <2>1. QueueOf(u) = QueueOf(t)
    BY <1>2 DEF Frame
  <2>2. \/ K = SemaphoreCalls /\ QueueOf(u) = Semaphore(obj[u])
        \/ K = LatchCalls /\ QueueOf(u) = Latch(obj[u])
        \/ K = BarrierCalls /\ QueueOf(u) = Barrier(obj[u])
        \/ K = ParkerCalls /\ QueueOf(u) = Parker(obj[u])
    BY DEF Kinds, QueueOf, SemaphoreCalls, LatchCalls, BarrierCalls, ParkerCalls
  <2>3. QED
    BY <2>1, <2>2, QueueOfKind
<1>3. CASE Blocks(t)
  <2>1. Frame(t, {}) /\ CoreTypeOK' /\ UNCHANGED tokenVars
    BY <1>3, BlocksFrame DEF Blocks, Block
  <2>2. QED
    BY <1>1, <2>1 DEF Away, CoreTypeOK, tokenVars
<1>4. ASSUME NEW W, Moves(t, W)
      PROVE  Away(t, W, K)
  <2>1. Frame(t, W) /\ CoreTypeOK' /\ UNCHANGED tokenVars /\ ~deadlocked
    BY <1>4, MovesFrame, ActsAlone DEF Moves
  <2>2. QED
    BY <1>1, <1>2, <2>1 DEF Away, CoreTypeOK, tokenVars
<1>5. QED
  BY <1>3, <1>4

LEMMA SemaphoreAway ==
    ASSUME SyncInv, NEW t \in Threads, NEW W, Away(t, W, SemaphoreCalls),
           UNCHANGED semaphoreVars, touched \subseteq touched'
    PROVE  SemInv'
<1>1. /\ Frame(t, W) /\ Others(t) /\ queue' \in [Queues -> Seq(Threads)]
      /\ abortRequested => abortRequested'
      /\ W = {} \/ (~deadlocked /\ \A u \in W : op[u] \notin SemaphoreCalls)
  BY DEF Away
<1>2. \A x \in Semaphores : permits'[x] = permits[x] /\ nativePermits'[x] = nativePermits[x]
  BY DEF semaphoreVars
<1>3. \A x \in Semaphores : pc[t] = "call" /\ QueueOf(t) = Semaphore(x)
          => permits[x] = 0 \/ queue'[QueueOf(t)] = queue[QueueOf(t)]
  BY QueueOfKind DEF Away
<1>4. ~abortRequested' => \A x : t \notin Granted(x) /\ t \notin Granted(x)'
  BY DEF Away, Granted, SemaphoreCalls
<1>5. QED
  BY <1>1, <1>2, <1>3, <1>4, SemaphoreQuiet

\* Nobody joins the queues of another kind of object
LEMMA AwayQueues ==
    ASSUME SyncInv, NEW t \in Threads, NEW W, NEW K, Away(t, W, K),
           NEW j \in Queues, QueueOf(t) = j => op[t] \in K
    PROVE  /\ ToSet(queue'[j]) \subseteq ToSet(queue[j])
           /\ queue'[j] # <<>> => queue[j] # <<>>
<1>1. Frame(t, W) /\ queue' \in [Queues -> Seq(Threads)] /\ ~(pc[t] = "call" /\ j = QueueOf(t))
  BY DEF Away
<1>2. ToSet(queue'[j]) \subseteq ToSet(queue[j])
  BY <1>1 DEF Frame
<1>3. queue'[j] # <<>> => queue[j] # <<>>
  BY <1>1, FrameQueues
<1>4. QED
  BY <1>2, <1>3

\* Who is past its wait was so before
LEMMA AwayPassed ==
    ASSUME SyncInv, NEW t \in Threads, NEW W, NEW K \in Kinds, Away(t, W, K), K # SemaphoreCalls,
           NEW u \in Threads, Passed(u)', op'[u] \in K
    PROVE  Passed(u) /\ op'[u] = op[u] /\ obj'[u] = obj[u] /\ arg'[u] = arg[u] /\ granted'[u] = granted[u]
<1>1. "try_acquire_for" \notin K
  BY DEF Kinds, SemaphoreCalls, LatchCalls, BarrierCalls, ParkerCalls
<1>2. CASE u = t
  BY <1>2 DEF Away, Passed
<1>3. CASE u # t
  <2>1. /\ op'[u] = op[u] /\ obj'[u] = obj[u] /\ arg'[u] = arg[u] /\ granted'[u] = granted[u]
        /\ pc'[u] = pc[u] /\ u \notin W
        /\ u \in blocked /\ u \notin blocked' => u \in W \/ u \in timed
    BY <1>3 DEF Away, Frame, Others
  <2>2. u \notin timed
    BY <1>1, <2>1 DEF SyncInv, TimedInv
  <2>3. QED
    BY <2>1, <2>2 DEF Passed
<1>4. QED
  BY <1>2, <1>3

OtherQueuesKnown ==
    /\ \A x \in Latches : Latch(x) \in Queues
    /\ \A x \in Barriers : Barrier(x) \in Queues
    /\ \A x \in Parkers : Parker(x) \in Queues

LEMMA OtherQueue == OtherQueuesKnown
BY QueueNames, QueuesAssumption DEF Latch, Barrier, Parker, OtherQueuesKnown

LEMMA LatchAway ==
    ASSUME SyncInv, NEW t \in Threads, NEW W, Away(t, W, LatchCalls), UNCHANGED latchVars
    PROVE  LatchInv'
<1>1. ASSUME NEW x \in Latches, queue'[Latch(x)] # <<>>
      PROVE  count'[x] > 0
  <2>1. Latch(x) \in Queues
    BY OtherQueue DEF OtherQueuesKnown
  <2>2. QueueOf(t) = Latch(x) => op[t] \in LatchCalls
    BY QueueOfKind
  <2>3. queue[Latch(x)] # <<>>
    BY <1>1, <2>1, <2>2, AwayQueues
  <2>4. QED
    BY <2>3 DEF SyncInv, LatchInv, latchVars
<1>2. ASSUME NEW u \in Threads, Passed(u)', op'[u] = "wait_latch" \/ (op'[u] = "try_wait" /\ granted'[u])
      PROVE  count'[obj'[u]] = 0
  <2>1. op'[u] \in LatchCalls /\ LatchCalls \in Kinds /\ LatchCalls # SemaphoreCalls
    <3>1. "try_wait" \in LatchCalls /\ "try_wait" \notin SemaphoreCalls
      BY DEF LatchCalls, SemaphoreCalls
    <3>2. QED
      BY <1>2, <3>1 DEF LatchCalls, Kinds
  <2>2. Passed(u) /\ op'[u] = op[u] /\ obj'[u] = obj[u] /\ granted'[u] = granted[u]
    BY <1>2, <2>1, AwayPassed
  <2>3. QED
    BY <1>2, <2>2 DEF SyncInv, LatchInv, latchVars
<1>3. QED
  BY <1>1, <1>2 DEF LatchInv

LEMMA BarrierAway ==
    ASSUME SyncInv, NEW t \in Threads, NEW W, Away(t, W, BarrierCalls), UNCHANGED barrierVars
    PROVE  BarrierInv'
<1>1. ASSUME NEW x \in Barriers, NEW u \in ToSet(queue'[Barrier(x)])
      PROVE  arg'[u] = barrier'[x].phase /\ barrier'[x].remaining > 0
  <2>1. Barrier(x) \in Queues
    BY OtherQueue DEF OtherQueuesKnown
  <2>2. QueueOf(t) = Barrier(x) => op[t] \in BarrierCalls
    BY QueueOfKind
  <2>3. u \in ToSet(queue[Barrier(x)])
    BY <1>1, <2>1, <2>2, AwayQueues
  <2>4. u \in Threads /\ u \in blocked
    BY <2>1, <2>3 DEF ToSet, SyncInv, WaitInv, QueuedOnce, TypeOK, CoreTypeOK
  <2>5. op[u] \in BarrierCalls
    BY <2>1, <2>3, QueueOfKind DEF SyncInv, QueuesInv
  <2>6. arg'[u] = arg[u]
    <3>1. pc[u] # "user"
      BY <2>4, ActsAlone DEF Acts
    <3>2. QED
      BY <2>4, <2>5, <3>1 DEF Away, Others
  <2>7. QED
    BY <2>3, <2>6 DEF SyncInv, BarrierInv, barrierVars
<1>2. ASSUME NEW u \in Threads, Passed(u)', op'[u] = "wait_barrier"
      PROVE  arg'[u] < barrier'[obj'[u]].phase
  <2>1. op'[u] \in BarrierCalls /\ BarrierCalls \in Kinds /\ BarrierCalls # SemaphoreCalls
    <3>1. "wait_barrier" \in BarrierCalls /\ "wait_barrier" \notin SemaphoreCalls
      BY DEF BarrierCalls, SemaphoreCalls
    <3>2. QED
      BY <1>2, <3>1 DEF Kinds
  <2>2. Passed(u) /\ op'[u] = op[u] /\ obj'[u] = obj[u] /\ arg'[u] = arg[u]
    BY <1>2, <2>1, AwayPassed
  <2>3. QED
    BY <1>2, <2>2 DEF SyncInv, BarrierInv, barrierVars
<1>3. \A u \in Threads, x \in Barriers : TokenOK(token[u][x], barrier[x])'
  BY DEF SyncInv, BarrierInv, barrierVars, TokenOK
<1>4. QED
  BY <1>1, <1>2, <1>3 DEF BarrierInv

LEMMA ParkAway ==
    ASSUME SyncInv, NEW t \in Threads, NEW W, Away(t, W, ParkerCalls), UNCHANGED permit
    PROVE  ParkInv'
<1> SUFFICES ASSUME NEW x \in Parkers, queue'[Parker(x)] # <<>> PROVE ~permit'[x]
  BY DEF ParkInv
<1>1. Parker(x) \in Queues
  BY OtherQueue DEF OtherQueuesKnown
<1>2. QueueOf(t) = Parker(x) => op[t] \in ParkerCalls
  BY QueueOfKind
<1>3. queue[Parker(x)] # <<>>
  BY <1>1, <1>2, AwayQueues
<1>4. QED
  BY <1>3 DEF SyncInv, ParkInv

-----------------------------------------------------------------------------
(* Latches.                                                                *)

\* Who is past a wait with no timeout was so before, or has just been woken
LEMMA FramePassed ==
    ASSUME SyncInv, NEW t \in Threads, NEW W, Frame(t, W), Others(t),
           NEW u \in Threads \ {t}, Passed(u)', op'[u] # "try_acquire_for"
    PROVE  /\ Passed(u) \/ (u \in W /\ op[u] \in DeadlockChecked /\ QueueOf(u) = QueueOf(t))
           /\ op'[u] = op[u] /\ obj'[u] = obj[u] /\ arg'[u] = arg[u] /\ granted'[u] = granted[u]
<1>1. /\ op'[u] = op[u] /\ obj'[u] = obj[u] /\ arg'[u] = arg[u] /\ granted'[u] = granted[u]
      /\ pc'[u] = pc[u]
      /\ u \in W => op[u] \in DeadlockChecked /\ QueueOf(u) = QueueOf(t)
      /\ u \in blocked /\ u \notin blocked' => u \in W \/ u \in timed
  BY DEF Frame, Others
<1>2. u \notin timed
  BY <1>1 DEF SyncInv, TimedInv
<1>3. QED
  BY <1>1, <1>2 DEF Passed

LEMMA WithoutQueues ==
    ASSUME SyncInv, NEW t \in Threads, op[t] # "none",
           NEW W, W \subseteq ToSet(queue[QueueOf(t)]),
           queue' = [queue EXCEPT ![QueueOf(t)] = Without(queue[QueueOf(t)], W)],
           NEW j \in Queues
    PROVE  ToSet(queue'[j]) = IF j = QueueOf(t) THEN ToSet(queue[j]) \ W ELSE ToSet(queue[j])
<1>1. PICK s : s = queue[QueueOf(t)]
  OBVIOUS
<1>2. s \in Seq(Threads) /\ \A i, m \in DOMAIN s : s[i] = s[m] => i = m
  BY <1>1, QueueOfOnce
<1>3. Takes(s, W, Without(s, W))
  BY <1>1, <1>2, WithoutFacts DEF Takes
<1>4. queue \in [Queues -> Seq(Threads)]
  BY DEF SyncInv, TypeOK, CoreTypeOK
<1>5. CASE j = QueueOf(t)
  BY <1>1, <1>3, <1>4, <1>5 DEF Takes
<1>6. CASE j # QueueOf(t)
  BY <1>4, <1>6
<1>7. QED
  BY <1>5, <1>6

LatchTypes ==
    /\ nativeCount \in [Latches -> Nat]
    /\ count \in [Latches -> Nat]
    /\ count = nativeCount
    /\ touched \subseteq UNION {Semaphores, Latches, Barriers}

LEMMA ManagedCounts ==
    ASSUME SyncInv
    PROVE  /\ \A x \in Latches : /\ ManagedCount(x) = count[x] /\ nativeCount[x] = count[x]
                                 /\ count[x] \in Nat
                                 /\ [count EXCEPT ![x] = ManagedCount(x)] = count
           /\ LatchTypes
BY DEF ManagedCount, SyncInv, GateInv, TypeOK, LatchTypes

\* A count_down wakes all waiters, when it opens the latch
LEMMA CountDownLatch ==
    ASSUME SyncInv, NEW t \in Threads, CountDown(t), Others(t)
    PROVE  LatchInv' /\ LatchTypes'
<1>1. PICK x \in Latches : x = obj[t]
  BY CallObject DEF CountDown, Called, LatchCalls, SyncInv
<1>2. PICK n : n = arg[t]
  OBVIOUS
<1>3. /\ n \in Nat /\ n <= nativeCount[x] /\ op[t] = "count_down" /\ pc[t] = "call"
  BY <1>1, <1>2, CallObject DEF CountDown, Called, LatchCalls, SyncInv
<1>4. PICK c : c = ManagedCount(x) - n
  OBVIOUS
<1>5. c \in Nat /\ c = count[x] - n /\ nativeCount[x] = count[x] /\ count[x] \in Nat
  BY <1>3, <1>4, ManagedCounts
<1>6. /\ count' = [count EXCEPT ![x] = c]
      /\ nativeCount' = [nativeCount EXCEPT ![x] = nativeCount[x] - n]
      /\ touched' = touched \cup {x}
      /\ Return(t, TRUE)
  <2>1. ManagedCount(obj[t]) - arg[t] = c /\ ~(c < 0)
    BY <1>1, <1>2, <1>4, <1>5
  <2>2. count' = [count EXCEPT ![obj[t]] = c] /\ Return(t, TRUE)
    BY <2>1 DEF CountDown
  <2>3. /\ nativeCount' = [nativeCount EXCEPT ![obj[t]] = nativeCount[obj[t]] - arg[t]]
        /\ touched' = touched \cup {obj[t]}
    BY DEF CountDown
  <2>4. QED
    BY <1>1, <1>2, <2>2, <2>3
<1>7. PICK W : W = Opened(x, c)
  OBVIOUS
<1>8. QueueOf(t) = Latch(x) /\ op[t] # "none"
  BY <1>1, <1>3 DEF QueueOf, LatchCalls, SemaphoreCalls
<1>9. /\ count \in [Latches -> Nat] /\ nativeCount = count /\ Latch(x) \in Queues
      /\ queue \in [Queues -> Seq(Threads)] /\ pc \in [Threads -> Locations]
      /\ touched \subseteq UNION {Semaphores, Latches, Barriers}
  BY ManagedCounts, OtherQueue DEF OtherQueuesKnown, SyncInv, TypeOK, CoreTypeOK, LatchTypes
<1>10. pc'[t] = "after"
  BY <1>6, <1>9 DEF Return, Goto
<1>11. /\ Moves(t, W)
       /\ queue' = [queue EXCEPT ![Latch(x)] = Without(queue[Latch(x)], W)]
  BY <1>1, <1>2, <1>4, <1>7, <1>9, <1>10, CountDownMoves DEF Reject, Fail, Goto
<1>12. /\ count'[x] = c /\ \A y \in Latches \ {x} : count'[y] = count[y]
  BY <1>6, <1>9
<1>13. Frame(t, W) /\ CoreTypeOK'
  BY <1>11, MovesFrame
<1>14. W = (IF c > 0 THEN {} ELSE ToSet(queue[Latch(x)]))
  BY <1>7 DEF Opened
<1>15. ASSUME NEW y \in Latches, queue'[Latch(y)] # <<>>
       PROVE  count'[y] > 0
  <2>1. Latch(y) \in Queues /\ (Latch(y) = Latch(x) => y = x)
    BY OtherQueue DEF OtherQueuesKnown, Latch
  <2>2. ToSet(queue'[Latch(y)]) =
          IF Latch(y) = QueueOf(t) THEN ToSet(queue[Latch(y)]) \ W ELSE ToSet(queue[Latch(y)])
    <3>1. W \subseteq ToSet(queue[QueueOf(t)])
      BY <1>8, <1>14
    <3>2. queue' = [queue EXCEPT ![QueueOf(t)] = Without(queue[QueueOf(t)], W)]
      BY <1>8, <1>11
    <3>3. QED
      BY <1>8, <2>1, <3>1, <3>2, WithoutQueues
  <2>3. PICK u : u \in ToSet(queue'[Latch(y)])
    <3>1. queue'[Latch(y)] \in Seq(Threads)
      BY <1>13, <2>1 DEF CoreTypeOK
    <3>2. QED
      BY <1>15, <3>1, EmptyQueue
  <2>4. CASE y = x
    BY <1>5, <1>8, <1>12, <1>14, <2>2, <2>3, <2>4
  <2>5. CASE y # x
    <3>1. u \in ToSet(queue[Latch(y)]) /\ queue[Latch(y)] \in Seq(Threads)
      BY <1>8, <1>9, <2>1, <2>2, <2>3, <2>5
    <3>2. queue[Latch(y)] # <<>>
      BY <3>1, EmptyQueue
    <3>3. QED
      BY <1>12, <2>5, <3>2 DEF SyncInv, LatchInv
  <2>6. QED
    BY <2>4, <2>5
<1>16. ASSUME NEW u \in Threads, Passed(u)', op'[u] = "wait_latch" \/ (op'[u] = "try_wait" /\ granted'[u])
       PROVE  count'[obj'[u]] = 0
  <2>1. u # t
    BY <1>3, <1>6, <1>16 DEF Return
  <2>2. /\ Passed(u) \/ (u \in W /\ QueueOf(u) = QueueOf(t))
        /\ op'[u] = op[u] /\ obj'[u] = obj[u] /\ granted'[u] = granted[u]
    BY <1>13, <1>16, <2>1, FramePassed
  <2>3. obj[u] \in Latches
    BY <1>16, <2>2, CallObject DEF LatchCalls, SyncInv
  <2>4. CASE Passed(u)
    <3>1. count[obj[u]] = 0
      BY <1>16, <2>2, <2>4 DEF SyncInv, LatchInv
    <3>2. QED
      BY <1>3, <1>5, <1>12, <2>2, <2>3, <3>1
  <2>5. CASE u \in W /\ QueueOf(u) = QueueOf(t)
    <3>1. obj[u] = x
      BY <1>8, <2>5, QueueOfKind
    <3>2. QED
      BY <1>5, <1>12, <1>14, <2>2, <2>5, <3>1
  <2>6. QED
    BY <2>2, <2>4, <2>5
<1>17. LatchTypes'
  BY <1>5, <1>6, <1>9 DEF LatchTypes
<1>18. QED
  BY <1>15, <1>16, <1>17 DEF LatchInv

\* Nobody is woken, and t goes on only if the latch is open
LEMMA QuietLatch ==
    ASSUME SyncInv, NEW t \in Threads, Frame(t, {}), Others(t), UNCHANGED <<latchVars, op, obj>>,
           queue' \in [Queues -> Seq(Threads)], op[t] \in LatchCalls,
           pc[t] = "call" => count[obj[t]] > 0 \/ queue'[QueueOf(t)] = queue[QueueOf(t)],
           Passed(t)' /\ (op[t] = "wait_latch" \/ (op[t] = "try_wait" /\ granted'[t])) => count[obj[t]] = 0
    PROVE  LatchInv'
<1>1. ASSUME NEW y \in Latches, queue'[Latch(y)] # <<>>
      PROVE  count'[y] > 0
  <2>1. Latch(y) \in Queues
    BY OtherQueue DEF OtherQueuesKnown
  <2>2. count' = count
    BY DEF latchVars
  <2>3. CASE pc[t] = "call" /\ Latch(y) = QueueOf(t)
    <3>1. y = obj[t]
      BY <2>3, QueueOfKind
    <3>2. QED
      BY <1>1, <2>2, <2>3, <3>1 DEF SyncInv, LatchInv
  <2>4. CASE ~(pc[t] = "call" /\ Latch(y) = QueueOf(t))
    BY <1>1, <2>1, <2>2, <2>4, FrameQueues DEF SyncInv, LatchInv
  <2>5. QED
    BY <2>3, <2>4
<1>2. ASSUME NEW u \in Threads, Passed(u)', op'[u] = "wait_latch" \/ (op'[u] = "try_wait" /\ granted'[u])
      PROVE  count'[obj'[u]] = 0
  <2>1. CASE u = t
    BY <1>2, <2>1 DEF latchVars
  <2>2. CASE u # t
    <3>1. Passed(u) /\ op'[u] = op[u] /\ obj'[u] = obj[u] /\ granted'[u] = granted[u]
      BY <1>2, <2>2, FramePassed
    <3>2. QED
      BY <1>2, <3>1 DEF SyncInv, LatchInv, latchVars
  <2>3. QED
    BY <2>1, <2>2
<1>3. QED
  BY <1>1, <1>2 DEF LatchInv

LEMMA LatchStepKeeps ==
    ASSUME SyncInv, NEW t \in Threads, LatchStep(t), Others(t)
    PROVE  LatchInv' /\ LatchTypes'
<1>1. op[t] \in LatchCalls /\ op' = op /\ obj' = obj
  BY LatchCallsKept DEF MethodCalls
<1>2. PICK x \in Latches : x = obj[t]
  BY <1>1, CallObject DEF SyncInv
<1>3. CASE CountDownRejected(t) \/ LatchPass(t) \/ LatchBlock(t) \/ LatchWake(t)
  <2>1. /\ UNCHANGED latchVars
        /\ touched' = touched \/ touched' = touched \cup {x}
    BY <1>2, <1>3, ManagedCounts DEF CountDownRejected, LatchPass, LatchBlock, LatchWake, syncVars, latchVars
  <2>2. LatchTypes'
    BY <2>1, ManagedCounts DEF LatchTypes, latchVars
  <2>3. CASE LatchBlock(t)
    <3>1. Blocks(t) /\ count[x] > 0 /\ op[t] = "wait_latch"
      <4>1. Blocks(t) /\ op[t] = "wait_latch"
        BY <2>3 DEF LatchBlock, BlockOn, Blocks, DeadlockChecked, Called, QueueOf, LatchCalls, SemaphoreCalls
      <4>2. ManagedCount(x) # 0
        BY <1>2, <2>3 DEF LatchBlock
      <4>3. QED
        BY <4>1, <4>2, ManagedCounts
    <3>2. /\ Frame(t, {}) /\ CoreTypeOK'
          /\ t \in blocked' \/ t \in timedOut'
          /\ t \in timed' \cup timedOut' => op[t] = "try_acquire_for"
          /\ pc'[t] \in {"blocked", "failed"}
      BY <3>1, BlocksFrame
    <3>3. ~Passed(t)'
      BY <3>1, <3>2 DEF Passed
    <3>4. queue' \in [Queues -> Seq(Threads)]
      BY <3>2 DEF CoreTypeOK
    <3>5. QED
      BY <1>1, <1>2, <2>1, <2>2, <3>1, <3>2, <3>3, <3>4, QuietLatch
  <2>4. CASE CountDownRejected(t) \/ LatchPass(t)
    <3>1. /\ UNCHANGED <<queue, blocked, timed, timedOut>>
          /\ \/ Goto(t, "failed")
             \/ /\ Goto(t, "after") /\ granted' = [granted EXCEPT ![t] = (count[x] = 0)]
                /\ op[t] = "wait_latch" => count[x] = 0
      BY <1>2, <2>4, ManagedCounts DEF CountDownRejected, LatchPass, NoWaitChange, NoHandOff, Reject, Fail, Return
    <3>2. Frame(t, {}) /\ queue' \in [Queues -> Seq(Threads)] /\ pc'[t] \in {"failed", "after"}
      BY <3>1, QuietFrame
    <3>3. Passed(t)' /\ (op[t] = "wait_latch" \/ (op[t] = "try_wait" /\ granted'[t])) => count[x] = 0
      <4>1. granted \in [Threads -> BOOLEAN]
        BY DEF SyncInv, TypeOK, CoreTypeOK
      <4>2. CASE Goto(t, "failed")
        <5>1. pc'[t] = "failed"
          BY <3>1, <4>2, QuietFrame
        <5>2. QED
          BY <5>1 DEF Passed
      <4>3. CASE /\ granted' = [granted EXCEPT ![t] = (count[x] = 0)]
                 /\ op[t] = "wait_latch" => count[x] = 0
        BY <4>1, <4>3
      <4>4. QED
        BY <3>1, <4>2, <4>3
    <3>4. QED
      BY <1>1, <1>2, <2>1, <2>2, <3>1, <3>2, <3>3, QuietLatch
  <2>5. CASE LatchWake(t)
    <3>1. /\ UNCHANGED <<queue, blocked, timed, timedOut>> /\ Goto(t, "after")
          /\ pc[t] = "blocked" /\ Acts(t) /\ op[t] = "wait_latch"
      BY <2>5 DEF LatchWake, WokenIn, Resume, Return, Acts
    <3>2. Frame(t, {}) /\ queue' \in [Queues -> Seq(Threads)]
      BY <3>1, QuietFrame
    <3>3. t \notin blocked
      BY <3>1, ActsAlone
    <3>4. count[x] = 0
      BY <1>2, <3>1, <3>3 DEF SyncInv, LatchInv, Passed
    <3>5. QED
      BY <1>1, <1>2, <2>1, <2>2, <3>1, <3>2, <3>4, QuietLatch
  <2>6. QED
    BY <1>3, <2>3, <2>4, <2>5
<1>4. QED
  BY <1>3, CountDownLatch DEF LatchStep

-----------------------------------------------------------------------------
(* Barriers.                                                               *)

BarrierTypes ==
    /\ nativeBarrier \in [Barriers -> BarrierStates]
    /\ barrier \in [Barriers -> BarrierStates]
    /\ barrier = nativeBarrier
    /\ token \in [Threads -> [Barriers -> Nat \cup {NoPhase}]]
    /\ touched \subseteq UNION {Semaphores, Latches, Barriers}

LEMMA ManagedBarriers ==
    ASSUME SyncInv
    PROVE  /\ \A x \in Barriers : /\ ManagedBarrier(x) = barrier[x] /\ nativeBarrier[x] = barrier[x]
                                  /\ barrier[x] \in BarrierStates
           /\ BarrierTypes
BY DEF ManagedBarrier, SyncInv, GateInv, TypeOK, BarrierTypes

\* The native and the managed barrier count an accepted arrival alike: it
\* leaves somebody to wait for, or begins the next phase
LEMMA ArrivalFacts ==
    ASSUME NEW b \in BarrierStates, NEW n \in Nat, n > 0, n <= b.remaining,
           NEW d \in {0, 1}, d = 1 => b.expected > 0
    PROVE  /\ ManagedArrival(b, n, d) = NativeArrival(b, n, d)
           /\ ManagedArrival(b, n, d) \in BarrierStates
           /\ \/ /\ ManagedArrival(b, n, d).phase = b.phase
                 /\ ManagedArrival(b, n, d).remaining > 0
              \/ ManagedArrival(b, n, d).phase = b.phase + 1
<1>1. /\ b.expected \in Nat /\ b.remaining \in Nat /\ b.phase \in Nat
      /\ b = [expected |-> b.expected, remaining |-> b.remaining, phase |-> b.phase]
  BY DEF BarrierStates
<1>2. b.expected - d \in Nat
  BY <1>1
<1>3. CASE b.remaining > n
  <2>1. b.remaining # n /\ b.remaining - n \in Nat /\ b.remaining - n > 0
    BY <1>1, <1>3
  <2>2. NativeArrival(b, n, d) =
          [expected |-> b.expected - d, remaining |-> b.remaining - n, phase |-> b.phase]
    BY <2>1 DEF NativeArrival
  <2>3. ManagedArrival(b, n, d) =
          [expected |-> b.expected - d, remaining |-> b.remaining - n, phase |-> b.phase]
    BY <1>1, <1>3 DEF ManagedArrival
  <2>4. QED
    BY <1>1, <1>2, <2>1, <2>2, <2>3 DEF BarrierStates
<1>4. CASE b.remaining = n
  <2>1. ~(b.remaining > n)
    BY <1>1, <1>4
  <2>2. /\ ManagedArrival(b, n, d) =
            [expected |-> b.expected - d, remaining |-> b.expected - d, phase |-> b.phase + 1]
        /\ NativeArrival(b, n, d) =
            [expected |-> b.expected - d, remaining |-> b.expected - d, phase |-> b.phase + 1]
    BY <1>4, <2>1 DEF ManagedArrival, NativeArrival
  <2>3. QED
    BY <1>1, <1>2, <2>2 DEF BarrierStates
<1>5. QED
  BY <1>1, <1>3, <1>4

LEMMA ArriveBarrier ==
    ASSUME SyncInv, NEW t \in Threads, Arrive(t), Others(t)
    PROVE  BarrierInv' /\ BarrierTypes'
<1>1. PICK x \in Barriers : x = obj[t]
  BY CallObject DEF Arrive, Called, BarrierCalls, SyncInv
<1>2. PICK n \in Nat : n = arg[t]
  BY CallObject DEF Arrive, Called, BarrierCalls, SyncInv
<1>3. PICK d \in {0, 1} : d = Dropped(t)
  BY DEF Dropped
<1>4. PICK b \in BarrierStates : b = barrier[x] /\ b = nativeBarrier[x] /\ b = ManagedBarrier(x)
  BY ManagedBarriers
<1>5. n > 0 /\ n <= b.remaining /\ (d = 1 => b.expected > 0)
  BY <1>1, <1>2, <1>3, <1>4 DEF Arrive, MayArrive
<1>6. PICK c : c = ManagedArrival(b, n, d)
  OBVIOUS
<1>7. /\ c = NativeArrival(b, n, d) /\ c \in BarrierStates
      /\ (c.phase = b.phase /\ c.remaining > 0) \/ c.phase = b.phase + 1
  BY <1>5, <1>6, ArrivalFacts
<1>8. /\ b.phase \in Nat /\ c.phase \in Nat /\ b.phase <= c.phase
      /\ c.remaining > 0 \/ b.phase < c.phase
  <2>1. b.phase \in Nat /\ c.phase \in Nat
    BY <1>7 DEF BarrierStates
  <2>2. QED
    BY <1>7, <2>1
<1>9. /\ nativeBarrier' = [nativeBarrier EXCEPT ![x] = c]
      /\ barrier' = [barrier EXCEPT ![x] = c]
      /\ touched' = touched \cup {x}
      /\ token' = IF d = 1 THEN token ELSE [token EXCEPT ![t][x] = b.phase]
      /\ op[t] \in {"arrive", "arrive_and_drop"} /\ op' = op
  <2>1. nativeBarrier' = [nativeBarrier EXCEPT ![x] = NativeArrival(nativeBarrier[x], n, d)]
    BY <1>1, <1>2, <1>3 DEF Arrive
  <2>2. barrier' = [barrier EXCEPT ![x] = c]
    BY <1>1, <1>2, <1>3, <1>4, <1>6 DEF Arrive
  <2>3. token' = IF d = 1 THEN token ELSE [token EXCEPT ![t][x] = nativeBarrier[x].phase]
    BY <1>1, <1>3 DEF Arrive
  <2>4. /\ touched' = touched \cup {x}
        /\ op[t] \in {"arrive", "arrive_and_drop"} /\ op' = op
    BY <1>1 DEF Arrive, Called, Return
  <2>5. QED
    BY <1>4, <1>7, <2>1, <2>2, <2>3, <2>4
<1>10. PICK W : W = Released(x, c.phase)
  OBVIOUS
<1>11. /\ Moves(t, W)
       /\ queue' = [queue EXCEPT ![Barrier(x)] = Without(queue[Barrier(x)], W)]
  <2>1. PhaseAfter(t) = c.phase
    BY <1>1, <1>2, <1>3, <1>4, <1>6 DEF PhaseAfter
  <2>2. Released(obj[t], PhaseAfter(t)) = W
    BY <1>1, <1>10, <2>1
  <2>3. QED
    BY <1>1, <2>2, ArriveMoves
<1>12. QueueOf(t) = Barrier(x) /\ op[t] # "none"
  BY <1>1, <1>9 DEF QueueOf, BarrierCalls, LatchCalls, SemaphoreCalls
<1>13. Frame(t, W) /\ CoreTypeOK'
  BY <1>11, MovesFrame
<1>14. /\ barrier \in [Barriers -> BarrierStates] /\ nativeBarrier = barrier
       /\ token \in [Threads -> [Barriers -> Nat \cup {NoPhase}]]
       /\ touched \subseteq UNION {Semaphores, Latches, Barriers}
  BY ManagedBarriers DEF BarrierTypes
<1>15. BarrierTypes'
  <2>1. token' \in [Threads -> [Barriers -> Nat \cup {NoPhase}]]
    BY <1>8, <1>9, <1>14
  <2>2. QED
    BY <1>7, <1>9, <1>14, <2>1 DEF BarrierTypes
<1>16. barrier'[x] = c /\ \A y \in Barriers \ {x} : barrier'[y] = barrier[y]
  BY <1>9, <1>14
<1>17. ASSUME NEW y \in Barriers, NEW u \in ToSet(queue'[Barrier(y)])
       PROVE  arg'[u] = barrier'[y].phase /\ barrier'[y].remaining > 0
  <2>1. Barrier(y) \in Queues /\ (Barrier(y) = Barrier(x) => y = x) /\ W \subseteq ToSet(queue[Barrier(x)])
    BY <1>10, OtherQueue DEF OtherQueuesKnown, Barrier, Released
  <2>2. ToSet(queue'[Barrier(y)]) =
          IF Barrier(y) = QueueOf(t) THEN ToSet(queue[Barrier(y)]) \ W ELSE ToSet(queue[Barrier(y)])
    <3>1. W \subseteq ToSet(queue[QueueOf(t)])
      BY <1>12, <2>1
    <3>2. queue' = [queue EXCEPT ![QueueOf(t)] = Without(queue[QueueOf(t)], W)]
      BY <1>11, <1>12
    <3>3. QED
      BY <1>12, <2>1, <3>1, <3>2, WithoutQueues
  <2>3. u \in ToSet(queue[Barrier(y)]) /\ (y = x => u \notin W)
    BY <1>12, <1>17, <2>2
  <2>4. arg[u] = barrier[y].phase /\ barrier[y].remaining > 0
    BY <2>3 DEF SyncInv, BarrierInv
  <2>5. arg'[u] = arg[u]
    BY DEF Arrive
  <2>6. CASE y # x
    BY <1>16, <2>4, <2>5, <2>6
  <2>7. CASE y = x
    <3>1. ~(arg[u] < c.phase)
      BY <1>10, <2>3, <2>7 DEF Released
    <3>2. c.phase = b.phase /\ c.remaining > 0
      <4>1. arg[u] = b.phase
        BY <1>4, <2>4, <2>7
      <4>2. QED
        BY <1>8, <3>1, <4>1
    <3>3. QED
      BY <1>4, <1>16, <2>4, <2>5, <2>7, <3>2
  <2>8. QED
    BY <2>6, <2>7
<1>18. ASSUME NEW u \in Threads, Passed(u)', op'[u] = "wait_barrier"
       PROVE  arg'[u] < barrier'[obj'[u]].phase
  <2>1. u # t
    BY <1>9, <1>18
  <2>2. /\ Passed(u) \/ (u \in W /\ QueueOf(u) = QueueOf(t))
        /\ op'[u] = op[u] /\ obj'[u] = obj[u] /\ arg'[u] = arg[u]
    BY <1>13, <1>18, <2>1, FramePassed
  <2>3. obj[u] \in Barriers /\ arg[u] \in Nat
    BY <1>18, <2>2, CallObject DEF BarrierCalls, SyncInv
  <2>4. CASE Passed(u)
    <3>1. arg[u] < barrier[obj[u]].phase
      BY <1>18, <2>2, <2>4 DEF SyncInv, BarrierInv
    <3>2. CASE obj[u] = x
      <4>1. arg[u] < b.phase
        BY <1>4, <3>1, <3>2
      <4>2. arg[u] < c.phase
        BY <1>8, <2>3, <4>1
      <4>3. QED
        BY <1>16, <2>2, <3>2, <4>2
    <3>3. CASE obj[u] # x
      BY <1>16, <2>2, <2>3, <3>1, <3>3
    <3>4. QED
      BY <3>2, <3>3
  <2>5. CASE u \in W /\ QueueOf(u) = QueueOf(t)
    <3>1. obj[u] = x
      BY <1>12, <2>5, QueueOfKind
    <3>2. arg[u] < c.phase
      BY <1>10, <2>5 DEF Released
    <3>3. QED
      BY <1>16, <2>2, <3>1, <3>2
  <2>6. QED
    BY <2>2, <2>4, <2>5
<1>19. ASSUME NEW u \in Threads, NEW y \in Barriers
       PROVE  TokenOK(token'[u][y], barrier'[y])
  <2>1. TokenOK(token[u][y], barrier[y]) /\ token[u][y] \in Nat \cup {NoPhase}
    BY <1>14 DEF SyncInv, BarrierInv
  <2>2. CASE y # x
    <3>1. token'[u][y] = token[u][y] /\ barrier'[y] = barrier[y]
      BY <1>9, <1>14, <1>16, <2>2
    <3>2. QED
      BY <2>1, <3>1
  <2>3. CASE y = x /\ token'[u][y] = token[u][y]
    <3>1. PICK p \in Nat \cup {NoPhase} : p = token[u][y]
      BY <2>1
    <3>2. p = NoPhase \/ p < b.phase \/ (p = b.phase /\ b.remaining > 0)
      BY <1>4, <2>1, <2>3, <3>1 DEF TokenOK
    <3>3. p = NoPhase \/ p < c.phase \/ (p = c.phase /\ c.remaining > 0)
      BY <1>8, <3>2
    <3>4. QED
      BY <1>16, <2>3, <3>1, <3>3 DEF TokenOK
  <2>4. CASE y = x /\ token'[u][y] = b.phase
    BY <1>7, <1>8, <1>16, <2>4 DEF TokenOK
  <2>5. token'[u][x] = token[u][x] \/ token'[u][x] = b.phase
    BY <1>9, <1>14
  <2>6. QED
    BY <2>2, <2>3, <2>4, <2>5
<1>20. QED
  BY <1>15, <1>17, <1>18, <1>19 DEF BarrierInv

\* Nobody is woken; t waits only for the current phase, with somebody left to
\* complete it, and goes on only when the phase of its token is over
LEMMA QuietBarrier ==
    ASSUME SyncInv, NEW t \in Threads, Frame(t, {}), Others(t), UNCHANGED <<barrier, op, obj>>,
           op[t] \in BarrierCalls, t \notin blocked,
           \A u \in Threads, x \in Barriers : token'[u][x] \in {token[u][x], NoPhase},
           t \in ToSet(queue'[QueueOf(t)]) =>
              arg'[t] = barrier[obj[t]].phase /\ barrier[obj[t]].remaining > 0,
           Passed(t)' /\ op[t] = "wait_barrier" => arg'[t] < barrier[obj[t]].phase
    PROVE  BarrierInv'
<1>1. ASSUME NEW y \in Barriers, NEW u \in ToSet(queue'[Barrier(y)])
      PROVE  arg'[u] = barrier'[y].phase /\ barrier'[y].remaining > 0
  <2>1. Barrier(y) \in Queues
    BY OtherQueue DEF OtherQueuesKnown
  <2>2. u \in ToSet(queue[Barrier(y)]) \/ (u = t /\ Barrier(y) = QueueOf(t))
    BY <2>1 DEF Frame
  <2>3. CASE u \in ToSet(queue[Barrier(y)])
    <3>1. u \in Threads /\ u \in blocked
      BY <2>1, <2>3 DEF ToSet, SyncInv, WaitInv, QueuedOnce, TypeOK, CoreTypeOK
    <3>2. arg'[u] = arg[u]
      BY <3>1 DEF Others
    <3>3. QED
      BY <2>3, <3>2 DEF SyncInv, BarrierInv
  <2>4. CASE u = t /\ Barrier(y) = QueueOf(t)
    <3>1. y = obj[t]
      BY <2>4, QueueOfKind
    <3>2. QED
      BY <1>1, <2>4, <3>1
  <2>5. QED
    BY <2>2, <2>3, <2>4
<1>2. ASSUME NEW u \in Threads, Passed(u)', op'[u] = "wait_barrier"
      PROVE  arg'[u] < barrier'[obj'[u]].phase
  <2>1. CASE u = t
    BY <1>2, <2>1
  <2>2. CASE u # t
    <3>1. Passed(u) /\ op'[u] = op[u] /\ obj'[u] = obj[u] /\ arg'[u] = arg[u]
      BY <1>2, <2>2, FramePassed
    <3>2. QED
      BY <1>2, <3>1 DEF SyncInv, BarrierInv
  <2>3. QED
    BY <2>1, <2>2
<1>3. ASSUME NEW u \in Threads, NEW y \in Barriers
      PROVE  TokenOK(token'[u][y], barrier'[y])
  <2>1. token'[u][y] \in {token[u][y], NoPhase}
    OBVIOUS
  <2>2. TokenOK(token[u][y], barrier[y])
    BY DEF SyncInv, BarrierInv
  <2>3. CASE token'[u][y] = token[u][y]
    BY <2>2, <2>3
  <2>4. CASE token'[u][y] = NoPhase
    BY <2>4 DEF TokenOK
  <2>5. QED
    BY <2>1, <2>3, <2>4
<1>4. QED
  BY <1>1, <1>2, <1>3 DEF BarrierInv

LEMMA BarrierStepKeeps ==
    ASSUME SyncInv, NEW t \in Threads, BarrierStep(t), Others(t)
    PROVE  BarrierInv' /\ BarrierTypes'
<1>1. op[t] \in BarrierCalls /\ op' = op /\ obj' = obj
  BY BarrierCallsKept DEF MethodCalls
<1>2. PICK x \in Barriers : x = obj[t]
  BY <1>1, CallObject DEF SyncInv
<1>3. CASE ~Arrive(t)
  <2>1. /\ UNCHANGED <<nativeBarrier, barrier, touched>>
        /\ token' = token \/ token' = [token EXCEPT ![t][x] = NoPhase]
    BY <1>2, <1>3 DEF BarrierStep, ArriveRejected, BarrierPass, BarrierBlock, BarrierWaitRejected,
        BarrierWake, UseToken, syncVars, barrierVars
  <2>2. token \in [Threads -> [Barriers -> Nat \cup {NoPhase}]] /\ BarrierTypes
    BY ManagedBarriers DEF BarrierTypes
  <2>3. token' \in [Threads -> [Barriers -> Nat \cup {NoPhase}]]
    BY <2>1, <2>2
  <2>4. BarrierTypes'
    BY <2>1, <2>2, <2>3 DEF BarrierTypes
  <2>5. \A u \in Threads, y \in Barriers : token'[u][y] \in {token[u][y], NoPhase}
    BY <2>1, <2>2
  <2>6. Acts(t) /\ t \notin blocked
    <3>1. Acts(t)
      BY <1>3 DEF BarrierStep, ArriveRejected, BarrierPass, BarrierBlock, BarrierWaitRejected,
        BarrierWake, UseToken, Called, WokenIn, Acts
    <3>2. QED
      BY <3>1, ActsAlone
  <2>7. Barrier(x) \in Queues /\ QueueOf(t) = Barrier(x)
    BY <1>1, <1>2, OtherQueue DEF OtherQueuesKnown, QueueOf, BarrierCalls, LatchCalls, SemaphoreCalls
  <2>8. t \notin ToSet(queue[QueueOf(t)])
    BY <2>6, <2>7 DEF ToSet, SyncInv, WaitInv, QueuedOnce
  <2>9. CASE BarrierBlock(t)
    <3>1. Blocks(t) /\ op[t] = "wait_barrier"
      BY <2>9 DEF BarrierBlock, UseToken, BlockOn, Blocks, DeadlockChecked, Called, QueueOf,
          BarrierCalls, LatchCalls, SemaphoreCalls
    <3>2. /\ arg' = [arg EXCEPT ![t] = token[t][x]]
          /\ barrier[x].phase = token[t][x] /\ token[t][x] # NoPhase
      BY <1>2, <2>9 DEF BarrierBlock, UseToken
    <3>3. arg'[t] = barrier[x].phase
      BY <3>2 DEF SyncInv, TypeOK
    <3>4. barrier[x].remaining > 0
      <4>1. TokenOK(token[t][x], barrier[x]) /\ barrier[x].phase \in Nat
        BY ManagedBarriers DEF SyncInv, BarrierInv, BarrierStates
      <4>2. QED
        BY <3>2, <4>1 DEF TokenOK
    <3>5. /\ Frame(t, {})
          /\ t \in blocked' \/ t \in timedOut'
          /\ t \in timed' \cup timedOut' => op[t] = "try_acquire_for"
          /\ pc'[t] \in {"blocked", "failed"}
      BY <3>1, BlocksFrame
    <3>6. ~Passed(t)'
      BY <3>1, <3>5 DEF Passed
    <3>7. QED
      BY <1>1, <1>2, <2>1, <2>4, <2>5, <2>6, <3>3, <3>4, <3>5, <3>6, QuietBarrier
  <2>10. CASE ArriveRejected(t) \/ BarrierWaitRejected(t)
    <3>1. UNCHANGED <<queue, blocked, timed, timedOut>> /\ Goto(t, "failed")
      BY <2>10 DEF ArriveRejected, BarrierWaitRejected, NoWaitChange, NoHandOff, Reject, Fail
    <3>2. Frame(t, {}) /\ pc'[t] = "failed"
      BY <3>1, QuietFrame
    <3>3. ~Passed(t)'
      BY <3>2 DEF Passed
    <3>4. QED
      BY <1>1, <2>1, <2>4, <2>5, <2>6, <2>8, <3>1, <3>2, <3>3, QuietBarrier
  <2>11. CASE BarrierPass(t)
    <3>1. /\ UNCHANGED <<queue, blocked, timed, timedOut>> /\ Goto(t, "after")
          /\ arg' = [arg EXCEPT ![t] = token[t][x]]
          /\ barrier[x].phase > token[t][x] /\ token[t][x] # NoPhase
      BY <1>2, <2>11 DEF BarrierPass, UseToken, NoWaitChange, NoHandOff, Return
    <3>2. Frame(t, {})
      BY <3>1, QuietFrame
    <3>3. arg'[t] = token[t][x] /\ token[t][x] \in Nat /\ barrier[x].phase \in Nat
      BY <2>2, <3>1, ManagedBarriers DEF SyncInv, TypeOK, BarrierStates
    <3>4. arg'[t] < barrier[obj[t]].phase
      BY <1>2, <3>1, <3>3
    <3>5. QED
      BY <1>1, <2>1, <2>4, <2>5, <2>6, <2>8, <3>1, <3>2, <3>4, QuietBarrier
  <2>12. CASE BarrierWake(t)
    <3>1. /\ UNCHANGED <<queue, blocked, timed, timedOut, arg>> /\ Goto(t, "after")
          /\ pc[t] = "blocked" /\ op[t] = "wait_barrier"
      BY <2>12 DEF BarrierWake, WokenIn, Resume, Return, syncVars
    <3>2. Frame(t, {})
      BY <3>1, QuietFrame
    <3>3. arg[t] < barrier[obj[t]].phase
      BY <2>6, <3>1 DEF SyncInv, BarrierInv, Passed
    <3>4. QED
      BY <1>1, <2>1, <2>4, <2>5, <2>6, <2>8, <3>1, <3>2, <3>3, QuietBarrier
  <2>13. QED
    BY <1>3, <2>9, <2>10, <2>11, <2>12 DEF BarrierStep
<1>4. QED
  BY <1>3, ArriveBarrier

-----------------------------------------------------------------------------
(* Parkers and atomics.                                                    *)

LEMMA ParkStepKeeps ==
    ASSUME SyncInv, NEW t \in Threads, ParkStep(t)
    PROVE  ParkInv' /\ permit' \in [Parkers -> BOOLEAN]
<1>1. op[t] \in ParkerCalls
  BY ParkCallsKept
<1>2. PICK x \in Parkers : x = obj[t]
  BY <1>1, CallObject DEF SyncInv
<1>3. /\ permit \in [Parkers -> BOOLEAN] /\ queue \in [Queues -> Seq(Threads)]
      /\ Parker(x) \in Queues /\ \A y : Parker(y) = Parker(x) => y = x
      /\ \A y \in Parkers : queue[Parker(y)] # <<>> => ~permit[y]
  BY OtherQueue DEF OtherQueuesKnown, Parker, SyncInv, TypeOK, CoreTypeOK, ParkInv
<1>4. CASE ParkPass(t) \/ ParkWake(t)
  <2>1. queue' = queue /\ (permit' = permit \/ permit' = [permit EXCEPT ![x] = FALSE])
    BY <1>2, <1>4 DEF ParkPass, ParkWake, NoWaitChange, Resume, syncVars
  <2>2. QED
    BY <1>3, <2>1 DEF ParkInv
<1>5. CASE ParkBlock(t)
  <2>1. Blocks(t) /\ ~permit[x] /\ permit' = permit
    BY <1>2, <1>5 DEF ParkBlock, BlockOn, Blocks, DeadlockChecked, Called, QueueOf, syncVars,
        ParkerCalls, BarrierCalls, LatchCalls, SemaphoreCalls
  <2>2. Frame(t, {}) /\ queue' \in [Queues -> Seq(Threads)]
    BY <2>1, BlocksFrame DEF CoreTypeOK
  <2>3. ASSUME NEW y \in Parkers, queue'[Parker(y)] # <<>> PROVE ~permit[y]
    <3>1. Parker(y) \in Queues
      BY OtherQueue DEF OtherQueuesKnown
    <3>2. CASE Parker(y) = QueueOf(t)
      <4>1. y = x
        BY <1>2, <3>2, QueueOfKind
      <4>2. QED
        BY <2>1, <4>1
    <3>3. CASE Parker(y) # QueueOf(t)
      <4>1. queue[Parker(y)] # <<>>
        BY <2>2, <2>3, <3>1, <3>3, FrameQueues
      <4>2. QED
        BY <1>3, <4>1
    <3>4. QED
      BY <3>2, <3>3
  <2>4. QED
    BY <1>3, <2>1, <2>3 DEF ParkInv
<1>6. CASE Unpark(t)
  <2>1. /\ permit' = [permit EXCEPT ![x] = permit[x] \/ queue[Parker(x)] = <<>>]
        /\ \E r : queue' = [queue EXCEPT ![Parker(x)] = r] /\ (queue[Parker(x)] = <<>> => r = <<>>)
    BY <1>2, <1>6 DEF Unpark, KeepsPermit, Wake
  <2>2. ASSUME NEW y \in Parkers, queue'[Parker(y)] # <<>> PROVE ~permit'[y]
    <3>1. Parker(y) \in Queues
      BY OtherQueue DEF OtherQueuesKnown
    <3>2. queue[Parker(y)] # <<>>
      BY <1>3, <2>1, <2>2, <3>1
    <3>3. ~permit[y]
      BY <1>3, <3>2
    <3>4. QED
      BY <1>3, <2>1, <3>2, <3>3
  <2>3. permit' \in [Parkers -> BOOLEAN]
    BY <1>3, <2>1
  <2>4. QED
    BY <2>2, <2>3 DEF ParkInv
<1>7. QED
  BY <1>4, <1>5, <1>6 DEF ParkStep

LEMMA AtomicStepKeeps ==
    ASSUME SyncInv, NEW t \in Threads, AtomicStep(t)
    PROVE  value' \in [Atomics -> {0, 1}]
<1>1. op[t] \in AtomicCalls
  BY AtomicCallsKept
<1>2. obj[t] \in Atomics /\ arg[t] \in {0, 1} /\ value \in [Atomics -> {0, 1}]
  BY <1>1, CallObject DEF SyncInv, TypeOK
<1>3. value' = value \/ value' = [value EXCEPT ![obj[t]] = arg[t]]
  BY DEF AtomicStep, Store, AtomicPass, AtomicBlock, AtomicWake, NotifyAtomic, syncVars
<1>4. QED
  BY <1>2, <1>3

-----------------------------------------------------------------------------
(* The invariant is kept.                                                  *)

StateTypes ==
    /\ SemaphoreTypes
    /\ LatchTypes
    /\ BarrierTypes
    /\ permit \in [Parkers -> BOOLEAN]
    /\ value \in [Atomics -> {0, 1}]

LEMMA StateTypesHold ==
    ASSUME SyncInv
    PROVE  StateTypes
BY ManagedCounts, ManagedBarriers DEF StateTypes, SyncInv, TypeOK, SemaphoreTypes

LEMMA StateTypesStay ==
    ASSUME SyncInv
    PROVE  /\ UNCHANGED <<semaphoreVars, touched>> => SemaphoreTypes'
           /\ UNCHANGED semaphoreVars /\ touched' \subseteq UNION {Semaphores, Latches, Barriers}
                => SemaphoreTypes'
           /\ UNCHANGED latchVars /\ touched' \subseteq UNION {Semaphores, Latches, Barriers}
                => LatchTypes'
           /\ UNCHANGED barrierVars /\ touched' \subseteq UNION {Semaphores, Latches, Barriers}
                => BarrierTypes'
           /\ UNCHANGED permit => permit' \in [Parkers -> BOOLEAN]
           /\ UNCHANGED value => value' \in [Atomics -> {0, 1}]
BY StateTypesHold DEF StateTypes, SemaphoreTypes, LatchTypes, BarrierTypes,
                      semaphoreVars, latchVars, barrierVars

\* What the wrappers' state is after a step
WrapperInv ==
    /\ StateTypes
    /\ SemInv
    /\ LatchInv
    /\ BarrierInv
    /\ ParkInv

LEMMA CoreWrappers ==
    ASSUME SyncInv, NEW t \in Threads, CoreStep(t), UNCHANGED syncVars
    PROVE  WrapperInv'
<1>1. \A K : Away(t, {}, K)
  BY CoreAway
<1>2. UNCHANGED <<semaphoreVars, latchVars, barrierVars, permit, value, touched>>
  BY DEF syncVars
<1>3. SemInv' /\ LatchInv' /\ BarrierInv' /\ ParkInv'
  BY <1>1, <1>2, SemaphoreAway, LatchAway, BarrierAway, ParkAway
<1>4. touched' \subseteq UNION {Semaphores, Latches, Barriers}
  BY <1>2 DEF SyncInv, TypeOK
<1>5. StateTypes'
  BY <1>2, <1>4, StateTypesStay DEF StateTypes
<1>6. QED
  BY <1>3, <1>5 DEF WrapperInv

LEMMA SyncWrappers ==
    ASSUME SyncInv, NEW t \in Threads, SyncStep(t)
    PROVE  WrapperInv'
<1>1. Others(t)
  BY SyncWaits
<1>2. touched \subseteq UNION {Semaphores, Latches, Barriers}
  BY DEF SyncInv, TypeOK
<1>3. CASE \E c \in program : \E n \in ArgumentsOf(c[1]) : Begin(t, c[1], c[2], n)
  <2>1. \A K : Away(t, {}, K)
    BY <1>1, <1>3, BeginAway
  <2>2. UNCHANGED <<semaphoreVars, latchVars, barrierVars, permit, value, touched>>
    BY <1>3 DEF Begin
  <2>3. SemInv' /\ LatchInv' /\ BarrierInv' /\ ParkInv'
    BY <2>1, <2>2, SemaphoreAway, LatchAway, BarrierAway, ParkAway
  <2>4. StateTypes'
    BY <1>2, <2>2, StateTypesStay DEF StateTypes
  <2>5. QED
    BY <2>3, <2>4 DEF WrapperInv
<1>4. ASSUME MethodCalls(t), Blocks(t) \/ \E W : Moves(t, W), NEW K \in Kinds, op[t] \notin K
      PROVE  \E W : Away(t, W, K)
  BY <1>1, <1>4, MethodAway
<1>5. CASE SemaphoreStep(t)
  <2>1. /\ MethodCalls(t) /\ op[t] \in SemaphoreCalls
        /\ UNCHANGED <<latchVars, barrierVars, permit, value, arg>>
    BY <1>5, SemaphoreCallsKept
  <2>2. SemInv' /\ SemaphoreTypes'
    BY <1>1, <1>5, SemaphoreStepKeeps
  <2>3. \A K \in {LatchCalls, BarrierCalls, ParkerCalls} : \E W : Away(t, W, K)
    <3>1. \A K \in {LatchCalls, BarrierCalls, ParkerCalls} : K \in Kinds /\ op[t] \notin K
      BY <2>1 DEF Kinds, SemaphoreCalls, LatchCalls, BarrierCalls, ParkerCalls
    <3>2. QED
      BY <1>4, <1>5, <2>1, <3>1, SemaphoreMoves
  <2>4. LatchInv' /\ BarrierInv' /\ ParkInv'
    BY <2>1, <2>3, LatchAway, BarrierAway, ParkAway
  <2>5. touched' \subseteq UNION {Semaphores, Latches, Barriers}
    BY <2>2 DEF SemaphoreTypes
  <2>6. StateTypes'
    BY <2>1, <2>2, <2>5, StateTypesStay DEF StateTypes
  <2>7. QED
    BY <2>2, <2>4, <2>6 DEF WrapperInv
<1>6. CASE LatchStep(t)
  <2>1. /\ MethodCalls(t) /\ op[t] \in LatchCalls
        /\ UNCHANGED <<semaphoreVars, barrierVars, permit, value, arg>>
    BY <1>6, LatchCallsKept
  <2>2. LatchInv' /\ LatchTypes'
    BY <1>1, <1>6, LatchStepKeeps
  <2>3. \A K \in {SemaphoreCalls, BarrierCalls, ParkerCalls} : \E W : Away(t, W, K)
    <3>1. \A K \in {SemaphoreCalls, BarrierCalls, ParkerCalls} : K \in Kinds /\ op[t] \notin K
      BY <2>1 DEF Kinds, SemaphoreCalls, LatchCalls, BarrierCalls, ParkerCalls
    <3>2. QED
      BY <1>4, <1>6, <2>1, <3>1, LatchMoves
  <2>4. touched \subseteq touched'
    BY <1>6 DEF LatchStep, CountDown, CountDownRejected, LatchPass, LatchBlock, LatchWake, syncVars
  <2>5. SemInv' /\ BarrierInv' /\ ParkInv'
    BY <2>1, <2>3, <2>4, SemaphoreAway, BarrierAway, ParkAway
  <2>6. touched' \subseteq UNION {Semaphores, Latches, Barriers}
    BY <2>2 DEF LatchTypes
  <2>7. StateTypes'
    BY <2>1, <2>2, <2>6, StateTypesStay DEF StateTypes
  <2>8. QED
    BY <2>2, <2>5, <2>7 DEF WrapperInv
<1>7. CASE BarrierStep(t)
  <2>1. /\ MethodCalls(t) /\ op[t] \in BarrierCalls
        /\ UNCHANGED <<semaphoreVars, latchVars, permit, value>>
    BY <1>7, BarrierCallsKept
  <2>2. BarrierInv' /\ BarrierTypes'
    BY <1>1, <1>7, BarrierStepKeeps
  <2>3. \A K \in {SemaphoreCalls, LatchCalls, ParkerCalls} : \E W : Away(t, W, K)
    <3>1. \A K \in {SemaphoreCalls, LatchCalls, ParkerCalls} : K \in Kinds /\ op[t] \notin K
      BY <2>1 DEF Kinds, SemaphoreCalls, LatchCalls, BarrierCalls, ParkerCalls
    <3>2. QED
      BY <1>4, <1>7, <2>1, <3>1, BarrierMoves
  <2>4. touched \subseteq touched'
    BY <1>7 DEF BarrierStep, Arrive, ArriveRejected, BarrierPass, BarrierBlock, BarrierWaitRejected,
        BarrierWake, UseToken, syncVars
  <2>5. SemInv' /\ LatchInv' /\ ParkInv'
    BY <2>1, <2>3, <2>4, SemaphoreAway, LatchAway, ParkAway
  <2>6. touched' \subseteq UNION {Semaphores, Latches, Barriers}
    BY <2>2 DEF BarrierTypes
  <2>7. StateTypes'
    BY <2>1, <2>2, <2>6, StateTypesStay DEF StateTypes
  <2>8. QED
    BY <2>2, <2>5, <2>7 DEF WrapperInv
<1>8. CASE ParkStep(t)
  <2>1. /\ MethodCalls(t) /\ op[t] \in ParkerCalls
        /\ UNCHANGED <<touched, semaphoreVars, latchVars, barrierVars, value, arg>>
    BY <1>8, ParkCallsKept
  <2>2. ParkInv' /\ permit' \in [Parkers -> BOOLEAN]
    BY <1>8, ParkStepKeeps
  <2>3. \A K \in {SemaphoreCalls, LatchCalls, BarrierCalls} : \E W : Away(t, W, K)
    <3>1. \A K \in {SemaphoreCalls, LatchCalls, BarrierCalls} : K \in Kinds /\ op[t] \notin K
      BY <2>1 DEF Kinds, SemaphoreCalls, LatchCalls, BarrierCalls, ParkerCalls
    <3>2. QED
      BY <1>4, <1>8, <2>1, <3>1, ParkMoves
  <2>4. SemInv' /\ LatchInv' /\ BarrierInv'
    BY <2>1, <2>3, SemaphoreAway, LatchAway, BarrierAway
  <2>5. StateTypes'
    BY <1>2, <2>1, <2>2, StateTypesStay DEF StateTypes
  <2>6. QED
    BY <2>2, <2>4, <2>5 DEF WrapperInv
<1>9. CASE AtomicStep(t)
  <2>1. /\ MethodCalls(t) /\ op[t] \in AtomicCalls
        /\ UNCHANGED <<touched, semaphoreVars, latchVars, barrierVars, permit, arg>>
    BY <1>9, AtomicCallsKept
  <2>2. value' \in [Atomics -> {0, 1}]
    BY <1>9, AtomicStepKeeps
  <2>3. \A K \in Kinds : \E W : Away(t, W, K)
    <3>1. \A K \in Kinds : op[t] \notin K
      BY <2>1 DEF Kinds, SemaphoreCalls, LatchCalls, BarrierCalls, ParkerCalls, AtomicCalls
    <3>2. QED
      BY <1>4, <1>9, <2>1, <3>1, AtomicMoves
  <2>4. SemInv' /\ LatchInv' /\ BarrierInv' /\ ParkInv'
    BY <2>1, <2>3, SemaphoreAway, LatchAway, BarrierAway, ParkAway DEF Kinds
  <2>5. StateTypes'
    BY <1>2, <2>1, <2>2, StateTypesStay DEF StateTypes
  <2>6. QED
    BY <2>4, <2>5 DEF WrapperInv
<1>10. QED
  BY <1>3, <1>5, <1>6, <1>7, <1>8, <1>9 DEF SyncStep

LEMMA InitTypes ==
    ASSUME Init
    PROVE  TypeOK /\ StateTypes /\ \A u \in Threads, x \in Barriers : TokenOK(token[u][x], barrier[x])
<1>1. /\ \A x \in Barriers : Expected[x] \in Nat
      /\ \A x \in Barriers : x \in UsedBefore => Expected[x] > 0
      /\ Permits \in [Semaphores -> 0 .. MaxPermits] /\ Counts \in [Latches -> Nat]
  BY SizesAssumption
<1>2. /\ nativeBarrier = [x \in Barriers |->
            [expected |-> Expected[x], phase |-> IF x \in UsedBefore /\ Expected[x] = 1 THEN 1 ELSE 0,
             remaining |-> IF x \in UsedBefore /\ Expected[x] > 1 THEN Expected[x] - 1 ELSE Expected[x]]]
      /\ barrier = nativeBarrier
      /\ token = [t \in Threads |-> [x \in Barriers |-> IF t = 0 /\ x \in UsedBefore THEN 0 ELSE NoPhase]]
  BY DEF Init
<1>3. ASSUME NEW x \in Barriers
      PROVE  /\ barrier[x] \in BarrierStates
             /\ x \in UsedBefore => TokenOK(0, barrier[x])
  <2>1. PICK e \in Nat : e = Expected[x] /\ (x \in UsedBefore => e > 0)
    BY <1>1
  <2>2. barrier[x] = [expected |-> e, phase |-> IF x \in UsedBefore /\ e = 1 THEN 1 ELSE 0,
                      remaining |-> IF x \in UsedBefore /\ e > 1 THEN e - 1 ELSE e]
    BY <1>2, <2>1
  <2>3. CASE x \in UsedBefore /\ e = 1
    <3>1. barrier[x] = [expected |-> e, phase |-> 1, remaining |-> e]
      BY <2>2, <2>3
    <3>2. QED
      BY <3>1 DEF BarrierStates, TokenOK
  <2>4. CASE x \in UsedBefore /\ e # 1
    <3>1. e > 1
      BY <2>1, <2>4
    <3>2. barrier[x] = [expected |-> e, phase |-> 0, remaining |-> e - 1]
      BY <2>2, <2>4, <3>1
    <3>3. QED
      BY <3>1, <3>2 DEF BarrierStates, TokenOK
  <2>5. CASE x \notin UsedBefore
    <3>1. barrier[x] = [expected |-> e, phase |-> 0, remaining |-> e]
      BY <2>2, <2>5
    <3>2. QED
      BY <2>5, <3>1 DEF BarrierStates
  <2>6. QED
    BY <2>3, <2>4, <2>5
<1>4. nativeBarrier \in [Barriers -> BarrierStates] /\ barrier \in [Barriers -> BarrierStates]
  BY <1>2, <1>3
<1>5. ASSUME NEW u \in Threads, NEW x \in Barriers
      PROVE  token[u][x] \in Nat \cup {NoPhase} /\ TokenOK(token[u][x], barrier[x])
  BY <1>2, <1>3 DEF TokenOK
<1>6. token \in [Threads -> [Barriers -> Nat \cup {NoPhase}]]
  BY <1>2
<1>7. BarrierTypes /\ LatchTypes /\ SemaphoreTypes
  BY <1>1, <1>2, <1>4, <1>6 DEF Init, BarrierTypes, LatchTypes, SemaphoreTypes
<1>8. permit \in [Parkers -> BOOLEAN] /\ value \in [Atomics -> {0, 1}]
  BY DEF Init
<1>9. CoreTypeOK
  BY CoreInitType DEF Init
<1>10. /\ DOMAIN op = Threads /\ DOMAIN obj = Threads /\ DOMAIN arg = Threads
       /\ \A t \in Threads : CallOK(t)
  BY DEF Init, CoreInit, CallOK
<1>11. program \in Programs
  BY DEF Init
<1>12. QED
  BY <1>5, <1>7, <1>8, <1>9, <1>10, <1>11 DEF TypeOK, StateTypes, BarrierTypes, LatchTypes, SemaphoreTypes

LEMMA SyncInit == Init => SyncInv
<1> SUFFICES ASSUME Init PROVE SyncInv
  OBVIOUS
<1>1. TypeOK /\ StateTypes /\ \A u \in Threads, x \in Barriers : TokenOK(token[u][x], barrier[x])
  BY InitTypes
<1>2. WaitInv /\ FailInv
  BY WaitInit, FailInit DEF Init
<1>3. /\ \A k \in Queues : queue[k] = <<>> /\ ToSet(queue[k]) = {}
      /\ \A t \in Threads : pc[t] = "spawned"
      /\ ~deadlocked /\ timed = {} /\ timedOut = {} /\ permits = nativePermits
  <2>1. ToSet(<<>>) = {}
    <3>1. DOMAIN <<>> = {}
      OBVIOUS
    <3>2. QED
      BY <3>1 DEF ToSet
  <2>2. QED
    BY <2>1 DEF Init, CoreInit
<1>4. DeadInv /\ QueuesInv /\ TimedInv
  BY <1>3 DEF DeadInv, QueuesInv, TimedInv
<1>5. SemInv
  <2>1. \A x : Granted(x) = {}
    BY <1>3 DEF Granted
  <2>2. \A x \in Semaphores : permits[x] \in Nat
    BY <1>1, SizesAssumption DEF TypeOK
  <2>3. \A x \in Semaphores : nativePermits[x] = permits[x] + Cardinality(Granted(x))
    <3>1. \A x : Cardinality(Granted(x)) = 0
      BY <2>1, FS_EmptySet
    <3>2. QED
      BY <1>3, <2>2, <3>1
  <2>4. QED
    BY <1>3, <2>3, SemaphoreQueue DEF SemaphoreQueueKnown, SemInv
<1>6. GateInv
  BY <1>1 DEF GateInv, StateTypes, LatchTypes, BarrierTypes
<1>7. LatchInv /\ BarrierInv /\ ParkInv
  BY <1>1, <1>3, OtherQueue DEF OtherQueuesKnown, LatchInv, BarrierInv, ParkInv, Passed
<1>8. QED
  BY <1>1, <1>2, <1>4, <1>5, <1>6, <1>7 DEF SyncInv

LEMMA CoreStepSync ==
    ASSUME SyncInv, NEW t \in Threads, CoreStep(t), UNCHANGED syncVars, UNCHANGED program
    PROVE  SyncInv'
<1>1. CoreTypeOK' /\ WaitInv' /\ FailInv' /\ DeadInv'
  BY CoreWait
<1>2. WrapperInv'
  BY CoreWrappers
<1>3. /\ Frame(t, {}) /\ UNCHANGED callVars /\ timed' = timed
      /\ pc[t] \in {"blocked", "failed", "recorded", "finishing", "done"}
                => pc'[t] \in {"failed", "recorded", "finishing", "done"}
      /\ t \in timedOut' => t \in timedOut \cup timed
  BY CoreFrame
<1>4. CallTypes'
  BY <1>3 DEF CallTypes, CallOK, callVars, syncVars, SyncInv, TypeOK
<1>5. Others(t)
  BY <1>3 DEF Others, callVars, syncVars
<1>6. QueuesInv' /\ TimedInv'
  <2>1. queue' \in [Queues -> Seq(Threads)] /\ timed' \subseteq Threads /\ timedOut' \subseteq Threads
    BY <1>1 DEF CoreTypeOK
  <2>2. op'[t] = op[t] /\ obj'[t] = obj[t]
    BY <1>3 DEF callVars
  <2>3. (\E j \in Queues : t \in ToSet(queue'[j])) =>
            op'[t] = op[t] /\ obj'[t] = obj[t] /\ op[t] \in DeadlockChecked
    <3> SUFFICES ASSUME NEW j \in Queues, t \in ToSet(queue'[j]) PROVE op[t] \in DeadlockChecked
      BY <2>2
    <3>1. ~(pc[t] = "call")
      BY CoreAway DEF Away
    <3>2. t \in ToSet(queue[j])
      BY <1>3, <3>1 DEF Frame
    <3>3. QED
      BY <3>2 DEF SyncInv, QueuesInv
  <2>4. t \in timed' \cup timedOut' =>
            /\ op'[t] = "try_acquire_for"
            /\ pc'[t] \in {"blocked", "failed", "recorded", "finishing", "done"}
    BY <1>3, <2>2 DEF SyncInv, TimedInv
  <2>5. QED
    BY <1>3, <1>5, <2>1, <2>3, <2>4, FrameWaits
<1>7. program' \in Programs
  BY DEF SyncInv, TypeOK
<1>8. QED
  BY <1>1, <1>2, <1>4, <1>6, <1>7 DEF WrapperInv, SyncInv, TypeOK, CallTypes, StateTypes,
     SemaphoreTypes, LatchTypes, BarrierTypes, GateInv

LEMMA SyncStepSync ==
    ASSUME SyncInv, NEW t \in Threads, SyncStep(t), UNCHANGED program
    PROVE  SyncInv'
<1>1. CoreTypeOK' /\ WaitInv' /\ FailInv' /\ DeadInv'
  BY SyncMoves, MovesFrame, MovesWait, BlocksFrame, BlocksWait
<1>2. WrapperInv'
  BY SyncWrappers
<1>3. CallTypes' /\ QueuesInv' /\ TimedInv'
  BY SyncWaits
<1>4. program' \in Programs
  BY DEF SyncInv, TypeOK
<1>5. QED
  BY <1>1, <1>2, <1>3, <1>4 DEF WrapperInv, SyncInv, TypeOK, CallTypes, StateTypes,
     SemaphoreTypes, LatchTypes, BarrierTypes, GateInv

\* Steps that no call and no wait sees
LEMMA SyncUnchanged ==
    ASSUME SyncInv, CoreTypeOK', WaitInv',
           UNCHANGED <<queue, blocked, timed, timedOut, callVars, failVars, pc, deadlocked,
                       abortRequested, switchCount, syncVars, program>>
    PROVE  SyncInv'
<1>1. UNCHANGED <<queue, blocked, timed, timedOut, op, obj, granted, failure, exception, pc,
                  deadlocked, abortRequested, switchCount, touched, nativePermits, permits,
                  nativeCount, count, nativeBarrier, barrier, permit, value, token, arg, program>>
  BY DEF callVars, failVars, syncVars, semaphoreVars, latchVars, barrierVars
<1>2. FailInv'
  BY <1>1 DEF SyncInv, FailInv, RunReport, AbortReport, DeadlockReport, Failing, Idle, OverBudget
<1>3. TypeOK'
  BY <1>1 DEF SyncInv, TypeOK, CallOK
<1>4. DeadInv' /\ QueuesInv' /\ TimedInv'
  BY <1>1 DEF SyncInv, DeadInv, QueuesInv, TimedInv, QueueOf
<1>5. SemInv'
  BY <1>1 DEF SyncInv, SemInv, Granted
<1>6. GateInv' /\ LatchInv' /\ BarrierInv' /\ ParkInv'
  BY <1>1 DEF SyncInv, GateInv, LatchInv, BarrierInv, ParkInv, Passed, TokenOK
<1>7. QED
  BY <1>2, <1>3, <1>4, <1>5, <1>6 DEF SyncInv

LEMMA SyncInvHolds == Spec => []SyncInv
<1>1. Init => SyncInv
  BY SyncInit
<1>2. SyncInv /\ [Next]_vars => SyncInv'
  <2> SUFFICES ASSUME SyncInv, [Next]_vars PROVE SyncInv'
    OBVIOUS
  <2>1. CoreTypeOK /\ WaitInv
    BY DEF SyncInv, TypeOK
  <2>2. CASE WaitUntilReady /\ UNCHANGED syncVars /\ UNCHANGED program
    <3>1. CoreTypeOK' /\ WaitInv'
      BY <2>1, <2>2, WaitUntilReadyCore, WaitUntilReadyWait
    <3>2. UNCHANGED <<queue, blocked, timed, timedOut, callVars, failVars, pc, deadlocked,
                      abortRequested, switchCount, syncVars, program>>
      BY <2>2 DEF WaitUntilReady, waitVars
    <3>3. QED
      BY <3>1, <3>2, SyncUnchanged
  <2>3. CASE (\E t \in Threads : Step(t)) /\ UNCHANGED program
    BY <2>3, CoreStepSync, SyncStepSync DEF Step
  <2>4. CASE UNCHANGED vars
    <3>1. UNCHANGED coreVars /\ UNCHANGED syncVars /\ UNCHANGED program
      BY <2>4 DEF vars
    <3>2. CoreTypeOK' /\ WaitInv'
      BY <2>1, <3>1, CoreUnchanged, WaitUnchanged
    <3>3. UNCHANGED <<queue, blocked, timed, timedOut, callVars, failVars, pc, deadlocked,
                      abortRequested, switchCount, syncVars, program>>
      BY <3>1 DEF coreVars, waitVars, tokenVars
    <3>4. QED
      BY <3>2, <3>3, SyncUnchanged
  <2>5. QED
    BY <2>2, <2>3, <2>4 DEF Next, Terminated
<1>3. QED
  BY <1>1, <1>2, PTL DEF Spec

-----------------------------------------------------------------------------
(* What follows.                                                           *)

\* No permit, count or phase ever leaves its range, and every call works on an
\* object of its kind, over all interleavings of the wrappers
THEOREM SyncTypeCorrect == Spec => []TypeOK
BY SyncInvHolds, PTL DEF SyncInv

\* The two permit counts of a semaphore differ by exactly the waiters that own
\* a permit and have not taken the native one: hand-over, time-out and first
\* observation lose none and make up none
THEOREM PermitsStayTogether == Spec => []PermitsAgree
<1>1. SyncInv => PermitsAgree
  BY DEF SyncInv, SemInv, PermitsAgree
<1>2. QED
  BY <1>1, SyncInvHolds, PTL

\* count_down and arrive are accepted by the native object and the managed one,
\* or by neither, and leave both alike
THEOREM GatesStayTogether == Spec => []GatesAgree
<1>1. SyncInv => GatesAgree
  BY DEF SyncInv, GateInv, GatesAgree
<1>2. QED
  BY <1>1, SyncInvHolds, PTL

\* Nobody sleeps on a permit that is there, on an open latch, or for a phase
\* that is over or that nobody is left to complete
THEOREM NobodySleepsOnAPermit == Spec => []NoIdlePermit
<1>1. SyncInv => NoIdlePermit
  BY DEF SyncInv, SemInv, LatchInv, BarrierInv, ParkInv, NoIdlePermit
<1>2. QED
  BY <1>1, SyncInvHolds, PTL

\* Nobody passes a latch that is closed or a barrier in the phase of its token
THEOREM GatesHold == Spec => []PassedMeansOpen
<1>1. SyncInv => PassedMeansOpen
  <2> SUFFICES ASSUME SyncInv, NEW t \in Threads, pc[t] \in {"after", "afterWait"}
               PROVE  /\ op[t] = "wait_latch" \/ (op[t] = "try_wait" /\ granted[t]) => nativeCount[obj[t]] = 0
                      /\ op[t] = "wait_barrier" => nativeBarrier[obj[t]].phase > arg[t]
    BY DEF PassedMeansOpen
  <2>1. Passed(t)
    BY DEF Passed
  <2>2. nativeCount = count /\ nativeBarrier = barrier
    BY DEF SyncInv, GateInv
  <2>3. op[t] = "wait_latch" \/ (op[t] = "try_wait" /\ granted[t]) => nativeCount[obj[t]] = 0
    BY <2>1, <2>2 DEF SyncInv, LatchInv
  <2>4. ASSUME op[t] = "wait_barrier" PROVE nativeBarrier[obj[t]].phase > arg[t]
    <3>1. arg[t] < barrier[obj[t]].phase
      BY <2>1, <2>4 DEF SyncInv, BarrierInv
    <3>2. obj[t] \in Barriers /\ arg[t] \in Nat
      BY <2>4, CallObject DEF BarrierCalls, SyncInv
    <3>3. barrier[obj[t]].phase \in Nat
      BY <3>2, ManagedBarriers DEF BarrierStates
    <3>4. QED
      BY <2>2, <3>1, <3>2, <3>3
  <2>5. QED
    BY <2>3, <2>4
<1>2. QED
  BY <1>1, SyncInvHolds, PTL

\* With these wrappers, too, one thread runs user code, a waiter has one place
\* in the queues, nobody sleeps past a notification, and the failure that
\* run_schedule keeps is what happened
THEOREM WrappersKeepTheScheduler ==
    Spec => [](TokenExclusive /\ AbortReachesPeers /\ TokenNotLost /\ QueuedOnceIffBlocked
                  /\ NoMissedNotify /\ FailureReported)
<1>1. SyncInv => QueuedOnceIffBlocked
  BY QueuedOnceCounts DEF SyncInv, TypeOK, CoreTypeOK, WaitInv
<1>2. SyncInv => FailureReported
  BY FailReported DEF SyncInv
<1>3. SyncInv => TokenExclusive /\ AbortReachesPeers /\ TokenNotLost /\ NoMissedNotify
  BY DEF SyncInv, WaitInv, AliveInv, TokenInv
<1>4. QED
  BY <1>1, <1>2, <1>3, SyncInvHolds, PTL

\* A deadlock is declared only when nobody can run and no timed acquire is
\* pending
THEOREM SyncDeadlocksAreReal == Spec => DeadlockIsReal
<1>1. SyncInv /\ [Next]_vars =>
        [~deadlocked /\ deadlocked' =>
            Active(finished, blocked)' = {} /\ Expirable(queue, timed, finished)' = {}]_vars
  <2> SUFFICES ASSUME SyncInv, [Next]_vars, ~deadlocked, deadlocked' PROVE Stuck'
    BY DEF Stuck
  <2>1. ~WaitUntilReady /\ ~UNCHANGED vars
    BY DEF WaitUntilReady, vars, coreVars
  <2>2. PICK t \in Threads : Step(t)
    BY <2>1 DEF Next, Terminated
  <2>3. CASE CoreStep(t)
    BY <2>3, CoreStepStuck
  <2>4. CASE SyncStep(t)
    <3>1. Blocks(t)
      BY <2>4, SyncMoves DEF Moves
    <3>2. ~abortRequested
      BY <3>1, ActsAlone DEF Blocks, Block, Acts
    <3>3. QED
      BY <3>1, <3>2, BlockStuck DEF Blocks
  <2>5. QED
    BY <2>2, <2>3, <2>4 DEF Step
<1>2. QED
  BY <1>1, SyncInvHolds, PTL DEF Spec, DeadlockIsReal

-----------------------------------------------------------------------------
(* One unpark, one park.                                                   *)

\* What is owed on parker x: its waiters, less the permit it has stored
Owed(x) == Len(queue[Parker(x)]) - (IF permit[x] THEN 1 ELSE 0)

LEMMA OwedStays ==
    ASSUME SyncInv, NEW x \in Parkers, queue' \in [Queues -> Seq(Threads)],
           permit'[x] = permit[x],
           \/ queue'[Parker(x)] = queue[Parker(x)]
           \/ \E u : queue'[Parker(x)] = Enqueue(queue[Parker(x)], u)
    PROVE  Owed(x)' >= Owed(x) - 1
<1>1. PICK s \in Seq(Threads) : s = queue[Parker(x)]
  BY OtherQueue DEF OtherQueuesKnown, SyncInv, TypeOK, CoreTypeOK
<1>2. PICK r \in Seq(Threads) : r = queue'[Parker(x)]
  BY OtherQueue DEF OtherQueuesKnown
<1>3. Len(r) >= Len(s)
  <2>1. ASSUME NEW u, r = Enqueue(s, u) PROVE Len(r) >= Len(s)
    BY <2>1 DEF Enqueue
  <2>2. QED
    BY <1>1, <1>2, <2>1
<1>4. PICK p \in {0, 1} : p = (IF permit[x] THEN 1 ELSE 0)
  OBVIOUS
<1>5. Owed(x) = Len(s) - p /\ Owed(x)' = Len(r) - p /\ Len(s) \in Nat /\ Len(r) \in Nat
  BY <1>1, <1>2, <1>4 DEF Owed
<1>6. QED
  BY <1>3, <1>5

\* A hand-over times out nobody who is parked
LEMMA ParkedStay ==
    ASSUME NEW t \in Threads, NEW f, NEW b \in SUBSET Threads,
           NEW q \in [Queues -> Seq(Threads)], NEW tm, NEW to \in SUBSET Threads,
           QueuedOnce(q, b), HandOff(t, f, b, q, tm, to), NEW x \in Parkers
    PROVE  queue'[Parker(x)] = q[Parker(x)]
<1>1. /\ \A u \in Threads :
             /\ u \in b /\ u \notin blocked' => u \in tm /\ u \in timedOut'
             /\ u \in timedOut' /\ u \notin to => u \in b /\ u \in tm
             /\ u \in to => u \in timedOut'
      /\ \A j \in Queues :
             j \notin UNION {ConditionQueues, LockQueues, SharedQueues, SemaphoreQueues}
                => queue'[j] = q[j]
  BY HandOffTimed
<1>2. Parker(x) \in Queues
  BY OtherQueue DEF OtherQueuesKnown
<1>3. Parker(x) \notin UNION {ConditionQueues, LockQueues, SharedQueues, SemaphoreQueues}
  BY DEF Parker, ConditionQueues, LockQueues, SharedQueues, SemaphoreQueues
<1>4. QED
  BY <1>1, <1>2, <1>3

LEMMA CoreOwed ==
    ASSUME SyncInv, NEW t \in Threads, CoreStep(t), UNCHANGED syncVars, NEW x \in Parkers
    PROVE  Owed(x)' >= Owed(x) - 1
<1>1. CoreTypeOK'
  BY CoreWait
<1>2. queue'[Parker(x)] = queue[Parker(x)]
  <2>1. CASE FinishThread(t)
    <3>1. CASE UNCHANGED queue
      BY <3>1
    <3>2. CASE HandOff(t, finished', blocked, queue, timed, timedOut)
      <4>1. PICK f : f = finished'
        OBVIOUS
      <4>2. HandOff(t, f, blocked, queue, timed, timedOut)
        BY <3>2, <4>1
      <4>3. /\ queue \in [Queues -> Seq(Threads)] /\ blocked \in SUBSET Threads
            /\ timedOut \in SUBSET Threads /\ QueuedOnce(queue, blocked)
        BY DEF SyncInv, TypeOK, CoreTypeOK, WaitInv
      <4>4. QED
        BY <4>2, <4>3, ParkedStay
    <3>3. QED
      BY <2>1, <3>1, <3>2 DEF FinishThread
  <2>2. CASE ~FinishThread(t)
    BY <2>2 DEF CoreStep, WorkerReady, ReadyWake, SwitchStay, SwitchTo, SwitchLivelock, SwitchWake,
         CallInterrupted, UserReturn, UserThrow, SwallowException, RecordFailure,
         RequestAbort, BlockedInterrupted, waitVars
  <2>3. QED
    BY <2>1, <2>2
<1>3. permit' = permit
  BY DEF syncVars
<1>4. QED
  BY <1>1, <1>2, <1>3, OwedStays DEF CoreTypeOK

LEMMA BlocksOwed ==
    ASSUME SyncInv, NEW t \in Threads, Blocks(t), UNCHANGED permit, NEW x \in Parkers
    PROVE  Owed(x)' >= Owed(x) - 1
<1>1. CoreTypeOK'
  BY BlocksFrame
<1>2. PICK k \in Queues : k = QueueOf(t)
  BY QueueOfType DEF Blocks, SyncInv, DeadlockChecked
<1>3. PICK w \in BOOLEAN : w = (op[t] = "try_acquire_for")
  OBVIOUS
<1>4. /\ queue \in [Queues -> Seq(Threads)] /\ blocked \in SUBSET Threads
      /\ timedOut \in SUBSET Threads /\ QueuedOnce(queue, blocked)
  BY DEF SyncInv, TypeOK, CoreTypeOK, WaitInv
<1>5. t \notin blocked
  BY ActsAlone DEF Blocks, Acts
<1> DEFINE q1 == [queue EXCEPT ![k] = Enqueue(queue[k], t)]
           b1 == blocked \cup {t}
           tm1 == IF w THEN timed \cup {t} ELSE timed
           to1 == IF w THEN timedOut \ {t} ELSE timedOut
<1>6. queue' = q1 \/ HandOff(t, finished, b1, q1, tm1, to1)
  BY <1>2, <1>3 DEF Blocks, Block
<1>7. QueuedOnce(q1, b1) /\ q1 \in [Queues -> Seq(Threads)]
  BY <1>4, <1>5, EnqueueQueued, EnqueueType
<1>8. q1[Parker(x)] = queue[Parker(x)] \/ q1[Parker(x)] = Enqueue(queue[Parker(x)], t)
  <2>1. Parker(x) \in Queues
    BY OtherQueue DEF OtherQueuesKnown
  <2>2. QED
    BY <1>4, <2>1
<1>9. b1 \in SUBSET Threads /\ to1 \in SUBSET Threads
  BY <1>4
<1> HIDE DEF q1, b1, tm1, to1
<1>10. queue'[Parker(x)] = q1[Parker(x)]
  <2>1. CASE HandOff(t, finished, b1, q1, tm1, to1)
    BY <1>7, <1>9, <2>1, ParkedStay
  <2>2. QED
    BY <1>6, <2>1
<1>11. QED
  BY <1>1, <1>8, <1>10, OwedStays DEF CoreTypeOK

LEMMA MovesOwed ==
    ASSUME SyncInv, NEW t \in Threads, NEW W, Moves(t, W), UNCHANGED permit, NEW x \in Parkers,
           op[t] # "none" => op[t] \notin ParkerCalls
    PROVE  Owed(x)' >= Owed(x) - 1
<1>1. CoreTypeOK' /\ queue \in [Queues -> Seq(Threads)]
  BY MovesFrame DEF SyncInv, TypeOK, CoreTypeOK
<1>2. QueueOf(t) # Parker(x) \/ op[t] = "none"
  BY QueueOfKind
<1>3. queue'[Parker(x)] = queue[Parker(x)]
  <2>1. Parker(x) \in Queues
    BY OtherQueue DEF OtherQueuesKnown
  <2>2. QED
    BY <1>1, <1>2, <2>1 DEF Moves, Leave
<1>4. QED
  BY <1>1, <1>3, OwedStays DEF CoreTypeOK

LEMMA ParkOwed ==
    ASSUME SyncInv, NEW t \in Threads, ParkStep(t), NEW x \in Parkers
    PROVE  Owed(x)' >= Owed(x) - 1
<1>1. op[t] \in ParkerCalls
  BY ParkCallsKept
<1>2. PICK y \in Parkers : y = obj[t]
  BY <1>1, CallObject DEF SyncInv
<1>3. /\ permit \in [Parkers -> BOOLEAN] /\ queue \in [Queues -> Seq(Threads)]
      /\ Parker(x) \in Queues /\ Parker(y) \in Queues /\ (Parker(y) = Parker(x) => y = x)
      /\ queue[Parker(x)] # <<>> => ~permit[x]
  BY OtherQueue DEF OtherQueuesKnown, Parker, SyncInv, TypeOK, CoreTypeOK, ParkInv
<1>4. CASE ParkBlock(t)
  <2>1. Blocks(t) /\ permit' = permit
    BY <1>4 DEF ParkBlock, BlockOn, Blocks, DeadlockChecked, Called, QueueOf, syncVars,
        ParkerCalls, BarrierCalls, LatchCalls, SemaphoreCalls
  <2>2. QED
    BY <2>1, BlocksOwed
<1>5. CASE ParkPass(t) \/ ParkWake(t)
  <2>1. queue' = queue /\ (permit' = permit \/ permit' = [permit EXCEPT ![y] = FALSE])
    BY <1>2, <1>5 DEF ParkPass, ParkWake, NoWaitChange, Resume, syncVars
  <2>2. queue'[Parker(x)] = queue[Parker(x)] /\ queue' \in [Queues -> Seq(Threads)]
    BY <1>3, <2>1
  <2>3. CASE permit'[x] = permit[x]
    BY <2>2, <2>3, OwedStays
  <2>4. CASE permit[x] = TRUE /\ permit'[x] = FALSE
    <3>1. Owed(x) = Len(queue[Parker(x)]) - 1 /\ Owed(x)' = Len(queue[Parker(x)]) - 0
      BY <2>2, <2>4 DEF Owed
    <3>2. Len(queue[Parker(x)]) \in Nat
      BY <1>3
    <3>3. QED
      BY <3>1, <3>2
  <2>5. permit[x] \in BOOLEAN /\ (permit'[x] = permit[x] \/ permit'[x] = FALSE)
    BY <1>3, <2>1
  <2>6. QED
    BY <2>3, <2>4, <2>5
<1>6. CASE Unpark(t)
  <2>1. PICK s \in Seq(Threads) : s = queue[Parker(y)]
    BY <1>3
  <2>2. /\ permit' = [permit EXCEPT ![y] = permit[y] \/ s = <<>>]
        /\ queue' = [queue EXCEPT ![Parker(y)] = IF s = <<>> THEN s ELSE Tail(s)]
    BY <1>2, <1>6, <2>1 DEF Unpark, KeepsPermit, Wake
  <2>3. CASE x # y
    <3>1. queue'[Parker(x)] = queue[Parker(x)] /\ permit'[x] = permit[x]
      BY <1>3, <2>2, <2>3
    <3>2. queue' \in [Queues -> Seq(Threads)]
      BY <1>3, <2>1, <2>2
    <3>3. QED
      BY <3>1, <3>2, OwedStays
  <2>4. CASE x = y /\ s = <<>>
    <3>1. queue'[Parker(x)] = <<>> /\ queue[Parker(x)] = <<>> /\ Len(<<>>) = 0
      BY <1>3, <2>1, <2>2, <2>4
    <3>2. QED
      BY <3>1 DEF Owed
  <2>5. CASE x = y /\ s # <<>>
    <3>1. permit'[x] = FALSE /\ permit[x] = FALSE
      BY <1>3, <2>1, <2>2, <2>5
    <3>2. queue'[Parker(x)] = Tail(s) /\ queue[Parker(x)] = s
      BY <1>3, <2>1, <2>2, <2>5
    <3>3. Len(Tail(s)) = Len(s) - 1 /\ Len(s) \in Nat
      BY <2>1, <2>5
    <3>4. Owed(x) = Len(s) - 0 /\ Owed(x)' = Len(Tail(s)) - 0
      BY <3>1, <3>2 DEF Owed
    <3>5. QED
      BY <3>3, <3>4
  <2>6. QED
    BY <2>3, <2>4, <2>5
<1>7. QED
  BY <1>4, <1>5, <1>6 DEF ParkStep

LEMMA StepOwed ==
    ASSUME SyncInv, NEW t \in Threads, Step(t), NEW x \in Parkers
    PROVE  Owed(x)' >= Owed(x) - 1
<1>1. CASE CoreStep(t) /\ UNCHANGED syncVars
  BY <1>1, CoreOwed
<1>2. CASE ParkStep(t)
  BY <1>2, ParkOwed
<1>3. CASE SemaphoreStep(t) \/ LatchStep(t) \/ BarrierStep(t) \/ AtomicStep(t)
  <2>1. permit' = permit /\ op[t] \notin ParkerCalls
    BY <1>3, SemaphoreCallsKept, LatchCallsKept, BarrierCallsKept, AtomicCallsKept
       DEF SemaphoreCalls, LatchCalls, BarrierCalls, AtomicCalls, ParkerCalls
  <2>2. QED
    BY <1>3, <2>1, SyncMoves, BlocksOwed, MovesOwed DEF SyncStep
<1>4. CASE \E c \in program : \E n \in ArgumentsOf(c[1]) : Begin(t, c[1], c[2], n)
  <2>1. queue' = queue /\ permit' = permit
    BY <1>4 DEF Begin, waitVars
  <2>2. queue' \in [Queues -> Seq(Threads)]
    BY <2>1 DEF SyncInv, TypeOK, CoreTypeOK
  <2>3. QED
    BY <2>1, <2>2, OwedStays
<1>5. QED
  BY <1>1, <1>2, <1>3, <1>4 DEF Step, SyncStep

\* One unpark lets at most one park through
THEOREM OneUnparkOnePark == Spec => OneParkPerUnpark
<1>1. SyncInv /\ [Next]_vars =>
        [\A x \in Parkers :
            LET waiters == Len(queue[Parker(x)]) - (IF permit[x] THEN 1 ELSE 0)
                waitersNext == Len(queue'[Parker(x)]) - (IF permit'[x] THEN 1 ELSE 0)
            IN  waitersNext >= waiters - 1]_vars
  <2> SUFFICES ASSUME SyncInv, Next, NEW x \in Parkers
               PROVE  Owed(x)' >= Owed(x) - 1
    BY DEF Owed
  <2>1. ASSUME UNCHANGED <<queue, permit>> PROVE Owed(x)' >= Owed(x) - 1
    <3>1. queue' \in [Queues -> Seq(Threads)]
      BY <2>1 DEF SyncInv, TypeOK, CoreTypeOK
    <3>2. QED
      BY <2>1, <3>1, OwedStays
  <2>2. CASE WaitUntilReady /\ UNCHANGED syncVars
    BY <2>1, <2>2 DEF WaitUntilReady, waitVars, syncVars
  <2>3. CASE UNCHANGED vars
    BY <2>1, <2>3 DEF vars, coreVars, waitVars, syncVars
  <2>4. QED
    BY <2>2, <2>3, StepOwed DEF Next, Terminated
<1>2. QED
  BY <1>1, SyncInvHolds, PTL DEF Spec, OneParkPerUnpark
=============================================================================
