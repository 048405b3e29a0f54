---------------------------- MODULE StressRunProofs ----------------------------
(***************************************************************************)
(* The stress mode, for any options, any number of threads and any         *)
(* sequential model.  First the verifier: its search answers what          *)
(* linearizability means, with a memo and without one.  Then the run: what *)
(* is judged is whole, the verdict is the definition of linearizability,   *)
(* an atomic object is never accused, and the generated scenarios are      *)
(* accepted and as long as they can be.                                    *)
(***************************************************************************)
EXTENDS StressRun, FiniteSetTheorems, WellFoundedInduction, TLAPS

-----------------------------------------------------------------------------
(* Counting up.  An induction is a set of numbers that has the first one   *)
(* and with each the next.                                                 *)

LEMMA Least ==
    ASSUME NEW T \in SUBSET Nat, T # {}
    PROVE  \E m \in T : \A n \in T : m <= n
<1> DEFINE R == {ss \in Nat \X Nat : ss[1] < ss[2]}
<1>1. IsWellFoundedOn(R, Nat)
  BY NatLessThanWellFounded DEF OpToRel
<1>2. PICK m \in T : \A n \in T : ~(<<n, m>> \in R)
  BY <1>1, WFMin
<1>3. ASSUME NEW n \in T, n < m PROVE FALSE
  <2>1. n \in Nat /\ m \in Nat
    OBVIOUS
  <2>2. <<n, m>> \in R
    BY <1>3, <2>1
  <2>3. QED
    BY <1>2, <2>2
<1>4. QED
  BY <1>2, <1>3

LEMMA Climb ==
    ASSUME NEW n \in Nat, NEW T, 0 \in T, \A i \in 1 .. n : i - 1 \in T => i \in T
    PROVE  0 .. n \subseteq T
<1> DEFINE U == (0 .. n) \ T
<1> SUFFICES ASSUME U # {} PROVE FALSE
  OBVIOUS
<1>1. PICK m \in U : \A k \in U : m <= k
  <2>1. U \in SUBSET Nat
    OBVIOUS
  <2>2. QED
    BY <2>1, Least
<1>2. m \in 1 .. n /\ m - 1 \notin U
  BY <1>1
<1>3. QED
  BY <1>2

\* A loop of n rounds on values in S, and what it makes of a
Rounds(n, S) == [1 .. n -> [S -> S]]
Follows(f, n, S, a, step) ==
    f \in [0 .. n -> S] /\ f[0] = a /\ \A i \in 1 .. n : f[i] = step[i][f[i - 1]]

LEMMA Iterate ==
    ASSUME NEW n \in Nat, NEW S, NEW a \in S, NEW step \in Rounds(n, S)
    PROVE  \E f : Follows(f, n, S, a, step)
<1> USE DEF Rounds, Follows
<1> DEFINE Loop(f, m) == /\ f \in [0 .. m -> S]
                         /\ f[0] = a
                         /\ \A i \in 1 .. m : f[i] = step[i][f[i - 1]]
           T == {m \in 0 .. n : \E f : Loop(f, m)}
<1>1. 0 \in T
  <2>1. /\ [i \in 0 .. 0 |-> a] \in [0 .. 0 -> S]
        /\ [i \in 0 .. 0 |-> a][0] = a
        /\ 1 .. 0 = {}
    OBVIOUS
  <2>2. \E f : Loop(f, 0)
    BY <2>1
  <2>3. QED
    BY <2>2
<1>2. ASSUME NEW m \in 1 .. n, m - 1 \in T PROVE m \in T
  <2>1. PICK f : Loop(f, m - 1)
    BY <1>2
  <2>2. PICK g : g = [i \in 0 .. m |-> IF i = m THEN step[m][f[m - 1]] ELSE f[i]]
    OBVIOUS
  <2>3. f[m - 1] \in S
    BY <2>1
  <2>4. step[m][f[m - 1]] \in S
    BY <2>3
  <2>5. g \in [0 .. m -> S] /\ g[0] = a
    BY <2>1, <2>2, <2>4
  <2>6. ASSUME NEW i \in 1 .. m PROVE g[i] = step[i][g[i - 1]]
    BY <2>1, <2>2
  <2>7. \E h : Loop(h, m)
    BY <2>5, <2>6
  <2>8. m \in 0 .. n
    OBVIOUS
  <2>9. QED
    <3> HIDE DEF Loop
    <3>1. QED
      BY <2>7, <2>8
<1>3. n \in T
  <2> HIDE DEF T
  <2>1. 0 .. n \subseteq T
    BY <1>1, <1>2, Climb
  <2>2. QED
    BY <2>1
<1>4. QED
  BY <1>3

\* e makes of a function another one, whose value at x depends on its values where m is less
Descends(e, S, A, m) ==
    /\ e \in [[S -> A] -> [S -> A]]
    /\ \A f, g \in [S -> A], x \in S :
          (\A y \in S : m[y] < m[x] => f[y] = g[y]) => e[f][x] = e[g][x]

Fixed(f, e, S, A) == f \in [S -> A] /\ e[f] = f

\* A function may be defined by recursion on a measure
LEMMA Recursion ==
    ASSUME NEW S, NEW A, NEW a \in A, NEW M \in Nat, NEW m \in [S -> 0 .. M],
           NEW e, Descends(e, S, A, m)
    PROVE  \E f : Fixed(f, e, S, A)
<1> USE DEF Descends, Fixed
<1> DEFINE F == [S -> A]
           base == [x \in S |-> a]
           step == [i \in 1 .. M + 2 |-> e]
<1>1. PICK fs \in [0 .. M + 2 -> F] : \A i \in 1 .. M + 2 : fs[i] = e[fs[i - 1]]
  <2>1. base \in F /\ step \in Rounds(M + 2, F) /\ M + 2 \in Nat
    BY DEF Rounds
  <2> HIDE DEF base, step
  <2>2. PICK fs : Follows(fs, M + 2, F, base, step)
    BY <2>1, Iterate
  <2>3. fs \in [0 .. M + 2 -> F] /\ \A i \in 1 .. M + 2 : fs[i] = step[i][fs[i - 1]]
    BY <2>2 DEF Follows
  <2>4. ASSUME NEW i \in 1 .. M + 2 PROVE fs[i] = e[fs[i - 1]]
    <3>1. step[i] = e
      BY DEF step
    <3>2. QED
      BY <2>3, <3>1
  <2> HIDE DEF F
  <2>5. QED
    BY <2>3, <2>4
<1> DEFINE T == {i \in 0 .. M + 1 : \A x \in S : m[x] < i => fs[i][x] = fs[i + 1][x]}
<1>2. 0 \in T
  BY DEF T
<1>3. ASSUME NEW i \in 1 .. M + 1, i - 1 \in T PROVE i \in T
  <2>1. /\ i \in 1 .. M + 2 /\ i + 1 \in 1 .. M + 2 /\ (i + 1) - 1 = i
        /\ i - 1 \in 0 .. M + 2 /\ i \in 0 .. M + 2 /\ (i - 1) + 1 = i
    OBVIOUS
  <2>2. fs[i] = e[fs[i - 1]] /\ fs[i + 1] = e[fs[i]] /\ fs[i - 1] \in F /\ fs[i] \in F
    BY <1>1, <2>1
  <2>3. \A y \in S : m[y] < i - 1 => fs[i - 1][y] = fs[i][y]
    BY <1>3, <2>1 DEF T
  <2>4. ASSUME NEW x \in S, m[x] < i PROVE fs[i][x] = fs[i + 1][x]
    <3>1. \A y \in S : m[y] < m[x] => fs[i - 1][y] = fs[i][y]
      BY <2>3, <2>4
    <3>2. e[fs[i - 1]][x] = e[fs[i]][x]
      BY <2>2, <3>1
    <3>3. QED
      BY <2>2, <3>2
  <2>5. QED
    BY <2>4 DEF T
<1>4. M + 1 \in T
  <2> HIDE DEF T
  <2>1. M + 1 \in Nat /\ M + 1 \in 0 .. M + 1
    OBVIOUS
  <2>2. 0 .. M + 1 \subseteq T
    BY <1>2, <1>3, <2>1, Climb
  <2>3. QED
    BY <2>1, <2>2
<1>5. fs[M + 1] \in F /\ fs[M + 2] = e[fs[M + 1]] /\ fs[M + 2] \in F
  <2>1. M + 2 \in 1 .. M + 2 /\ (M + 2) - 1 = M + 1 /\ M + 1 \in 0 .. M + 2 /\ M + 2 \in 0 .. M + 2
    OBVIOUS
  <2>2. QED
    BY <1>1, <2>1
<1>6. \A x \in S : fs[M + 1][x] = fs[M + 2][x]
  <2>1. \A x \in S : m[x] < M + 1 /\ (M + 1) + 1 = M + 2
    OBVIOUS
  <2>2. QED
    BY <1>4, <2>1 DEF T
<1>7. fs[M + 1] = fs[M + 2]
  BY <1>5, <1>6
<1>8. QED
  BY <1>5, <1>7

-----------------------------------------------------------------------------
(* Whole runs, and how much of one is still to place.                      *)

Actors(run) == DOMAIN run.operations
Threads(run) == DOMAIN run.scenario.parallel
Interval == [invocation : Nat \ {0}, response : Nat \ {0}]
Answers(run) ==
    [verdict : {"yes", "no", "throws"}, failed : SUBSET (Positions(run) \X States)]

\* Every actor of the scenario has its result, and in the parallel part its interval
WholeRun(run) ==
    /\ \A a \in Actors(run) : /\ run.operations[a].name \in Names
                              /\ run.operations[a].exceptionResults \in BOOLEAN
    /\ run.scenario.init \in Seq(Actors(run)) /\ run.scenario.post \in Seq(Actors(run))
    /\ run.results.init \in Seq(Values) /\ run.results.post \in Seq(Values)
    /\ run.scenario.parallel \in Seq(Seq(Actors(run)))
    /\ DOMAIN run.intervals = Threads(run)
    /\ \A t \in Threads(run) :
          /\ run.results.parallel[t] \in Seq(Values) /\ run.intervals[t] \in Seq(Interval)
          /\ Len(run.results.parallel[t]) = Len(run.scenario.parallel[t])
          /\ Len(run.intervals[t]) = Len(run.scenario.parallel[t])
    /\ run.keyed \in BOOLEAN /\ run.report \in BOOLEAN

\* The places not yet placed, and how many they are
Open(run, positions) == {p \in ParallelPlaces(run) : p[2] >= positions[p[1]]}
Left(run, positions) == Cardinality(Open(run, positions))

\* The positions after the next actor of thread t is placed
Placed(positions, t) == [positions EXCEPT ![t] = @ + 1]

LEMMA ThreadFacts ==
    ASSUME NEW run, WholeRun(run)
    PROVE  /\ Len(run.scenario.parallel) \in Nat
           /\ Threads(run) = 1 .. Len(run.scenario.parallel)
           /\ \A t \in Threads(run) :
                 /\ run.scenario.parallel[t] \in Seq(Actors(run))
                 /\ Len(run.scenario.parallel[t]) \in Nat
                 /\ DOMAIN run.scenario.parallel[t] = 1 .. Len(run.scenario.parallel[t])
                 /\ \A i \in 1 .. Len(run.scenario.parallel[t]) :
                       /\ run.scenario.parallel[t][i] \in Actors(run)
                       /\ run.results.parallel[t][i] \in Values
                       /\ run.intervals[t][i] \in Interval
<1>1. run.scenario.parallel \in Seq(Seq(Actors(run)))
  BY DEF WholeRun
<1>2. /\ Len(run.scenario.parallel) \in Nat
      /\ Threads(run) = 1 .. Len(run.scenario.parallel)
  BY <1>1 DEF Threads
<1>3. ASSUME NEW t \in Threads(run)
      PROVE  /\ run.scenario.parallel[t] \in Seq(Actors(run))
             /\ Len(run.scenario.parallel[t]) \in Nat
             /\ DOMAIN run.scenario.parallel[t] = 1 .. Len(run.scenario.parallel[t])
             /\ \A i \in 1 .. Len(run.scenario.parallel[t]) :
                       /\ run.scenario.parallel[t][i] \in Actors(run)
                       /\ run.results.parallel[t][i] \in Values
                       /\ run.intervals[t][i] \in Interval
  <2>1. PICK s : s = run.scenario.parallel[t]
    OBVIOUS
  <2>2. s \in Seq(Actors(run))
    BY <1>1, <1>2, <2>1 DEF Threads
  <2>3. PICK r : r = run.results.parallel[t]
    OBVIOUS
  <2>4. PICK v : v = run.intervals[t]
    OBVIOUS
  <2>5. r \in Seq(Values) /\ v \in Seq(Interval) /\ Len(r) = Len(s) /\ Len(v) = Len(s)
    BY <2>1, <2>3, <2>4 DEF WholeRun
  <2>6. Len(s) \in Nat /\ DOMAIN s = 1 .. Len(s) /\ \A i \in 1 .. Len(s) :
            s[i] \in Actors(run) /\ r[i] \in Values /\ v[i] \in Interval
    BY <2>2, <2>5
  <2>7. QED
    BY <2>1, <2>2, <2>3, <2>4, <2>6
<1>4. QED
  BY <1>1, <1>2, <1>3

LEMMA PlaceFacts ==
    ASSUME NEW run, WholeRun(run)
    PROVE  /\ \A p \in ParallelPlaces(run) :
                 /\ p = <<p[1], p[2]>> /\ p[1] \in Threads(run)
                 /\ p[2] \in 1 .. Len(run.scenario.parallel[p[1]])
           /\ \A t \in Threads(run) : \A i \in 1 .. Len(run.scenario.parallel[t]) :
                 <<t, i>> \in ParallelPlaces(run)
<1>1. \A t \in Threads(run) : DOMAIN run.scenario.parallel[t] = 1 .. Len(run.scenario.parallel[t])
  BY ThreadFacts
<1>2. QED
  BY <1>1 DEF ParallelPlaces, Threads

LEMMA PlacesFinite ==
    ASSUME NEW run, WholeRun(run)
    PROVE  IsFiniteSet(ParallelPlaces(run))
<1> DEFINE n == Len(run.scenario.parallel)
           Of(t) == {t} \X DOMAIN run.scenario.parallel[t]
           Up(k) == UNION {Of(t) : t \in 1 .. k}
           T == {k \in 0 .. n : IsFiniteSet(Up(k))}
<1>0. /\ n \in Nat /\ Threads(run) = 1 .. n
      /\ \A t \in 1 .. n : /\ Len(run.scenario.parallel[t]) \in Nat
                           /\ DOMAIN run.scenario.parallel[t] = 1 .. Len(run.scenario.parallel[t])
  BY ThreadFacts
<1>1. 0 \in T
  <2>1. Up(0) = {}
    OBVIOUS
  <2>2. IsFiniteSet(Up(0))
    BY <2>1, FS_EmptySet
  <2>3. 0 \in 0 .. n
    BY <1>0
  <2>4. QED
    BY <2>2, <2>3
<1>2. ASSUME NEW k \in 1 .. n, k - 1 \in T PROVE k \in T
  <2>1. PICK L \in Nat : DOMAIN run.scenario.parallel[k] = 1 .. L
    BY <1>0
  <2>2. IsFiniteSet(Of(k))
    <3>1. IsFiniteSet({k})
      BY FS_Singleton
    <3>2. IsFiniteSet(1 .. L)
      BY FS_Interval
    <3> HIDE DEF T
    <3>3. IsFiniteSet({k} \X (1 .. L))
      BY <3>1, <3>2, FS_Product
    <3>4. QED
      BY <2>1, <3>3
  <2>3. Up(k) = Up(k - 1) \cup Of(k)
    <3>1. 1 .. k = (1 .. k - 1) \cup {k}
      BY <1>0
    <3>2. QED
      BY <3>1
  <2>4. IsFiniteSet(Up(k - 1))
    BY <1>2
  <2>5. IsFiniteSet(Up(k - 1) \cup Of(k))
    <3> HIDE DEF Up, Of
    <3>1. QED
      BY <2>2, <2>4, FS_Union
  <2>6. k \in 0 .. n
    BY <1>0
  <2>7. QED
    <3> HIDE DEF Up, Of
    <3>1. QED
      BY <2>3, <2>5, <2>6
<1>3. n \in T
  <2>1. n \in 0 .. n
    BY <1>0
  <2> HIDE DEF T
  <2>2. 0 .. n \subseteq T
    BY <1>0, <1>1, <1>2, Climb
  <2>3. QED
    BY <2>1, <2>2
<1>4. ParallelPlaces(run) = Up(n)
  BY <1>0 DEF ParallelPlaces, Threads
<1>5. QED
  BY <1>3, <1>4

LEMMA OpenFacts ==
    ASSUME NEW run, WholeRun(run), NEW positions \in Positions(run)
    PROVE  /\ IsFiniteSet(Open(run, positions))
           /\ Left(run, positions) \in 0 .. Cardinality(ParallelPlaces(run))
           /\ Cardinality(ParallelPlaces(run)) \in Nat
           /\ (\A t \in Threads(run) : ~Pending(run, positions, t)) <=> Open(run, positions) = {}
           /\ \A t \in Threads(run) :
                 /\ positions[t] \in Nat \ {0}
                 /\ Placed(positions, t) \in Positions(run)
                 /\ Placed(positions, t)[t] = positions[t] + 1
                 /\ \A u \in Threads(run) \ {t} : Placed(positions, t)[u] = positions[u]
<1>1. IsFiniteSet(ParallelPlaces(run)) /\ Open(run, positions) \in SUBSET ParallelPlaces(run)
  BY PlacesFinite DEF Open
<1>2. /\ IsFiniteSet(Open(run, positions))
      /\ Left(run, positions) <= Cardinality(ParallelPlaces(run))
  BY <1>1, FS_Subset DEF Left
<1>3. Left(run, positions) \in Nat /\ Cardinality(ParallelPlaces(run)) \in Nat
  BY <1>1, <1>2, FS_CardinalityType DEF Left
<1>4. \A t \in Threads(run) : positions[t] \in Nat \ {0}
  BY DEF Positions, Threads
<1>5. (\A t \in Threads(run) : ~Pending(run, positions, t)) <=> Open(run, positions) = {}
  <2>1. \A t \in Threads(run) : Len(run.scenario.parallel[t]) \in Nat
    BY ThreadFacts
  <2>2. ASSUME NEW t \in Threads(run), Pending(run, positions, t)
        PROVE  <<t, positions[t]>> \in Open(run, positions)
    <3>1. positions[t] \in 1 .. Len(run.scenario.parallel[t])
      BY <1>4, <2>1, <2>2 DEF Pending
    <3>2. QED
      BY <3>1, PlaceFacts DEF Open
  <2>3. ASSUME NEW p \in Open(run, positions)
        PROVE  p[1] \in Threads(run) /\ Pending(run, positions, p[1])
    <3>1. p[1] \in Threads(run) /\ p[2] \in 1 .. Len(run.scenario.parallel[p[1]]) /\ p[2] >= positions[p[1]]
      BY PlaceFacts DEF Open
    <3>2. QED
      BY <1>4, <2>1, <3>1 DEF Pending
  <2>4. QED
    BY <2>2, <2>3
<1>6. \A t \in Threads(run) :
                 /\ Placed(positions, t) \in Positions(run)
                 /\ Placed(positions, t)[t] = positions[t] + 1
                 /\ \A u \in Threads(run) \ {t} : Placed(positions, t)[u] = positions[u]
  BY <1>4 DEF Placed, Positions, Threads
<1>7. QED
  BY <1>2, <1>3, <1>4, <1>5, <1>6

\* Placing an actor leaves one less to place
LEMMA PlacedFacts ==
    ASSUME NEW run, WholeRun(run), NEW positions \in Positions(run),
           NEW t \in Threads(run), Pending(run, positions, t)
    PROVE  /\ <<t, positions[t]>> \in Open(run, positions)
           /\ positions[t] \in 1 .. Len(run.scenario.parallel[t])
           /\ Open(run, Placed(positions, t)) = Open(run, positions) \ {<<t, positions[t]>>}
           /\ Left(run, Placed(positions, t)) = Left(run, positions) - 1
<1>1. positions[t] \in 1 .. Len(run.scenario.parallel[t])
  BY OpenFacts, ThreadFacts DEF Pending
<1>2. <<t, positions[t]>> \in Open(run, positions)
  BY <1>1, PlaceFacts DEF Open
<1>3. Open(run, Placed(positions, t)) = Open(run, positions) \ {<<t, positions[t]>>}
  <2>1. ASSUME NEW p \in ParallelPlaces(run)
        PROVE  p[2] >= Placed(positions, t)[p[1]] <=>
                  p[2] >= positions[p[1]] /\ p # <<t, positions[t]>>
    <3>1. p = <<p[1], p[2]>> /\ p[1] \in Threads(run) /\ p[2] \in Nat
      BY PlaceFacts, ThreadFacts
    <3>2. positions[p[1]] \in Nat
      BY <3>1, OpenFacts
    <3>3. CASE p[1] = t
      <4>1. Placed(positions, t)[p[1]] = positions[p[1]] + 1
        BY <3>3, OpenFacts
      <4>2. p # <<t, positions[t]>> <=> p[2] # positions[p[1]]
        BY <3>1, <3>3
      <4>3. QED
        BY <3>1, <3>2, <4>1, <4>2
    <3>4. CASE p[1] # t
      <4>1. Placed(positions, t)[p[1]] = positions[p[1]]
        BY <3>1, <3>4, OpenFacts
      <4>2. QED
        BY <3>4, <4>1
    <3>5. QED
      BY <3>3, <3>4
  <2>2. QED
    BY <2>1 DEF Open
<1>4. Left(run, Placed(positions, t)) = Left(run, positions) - 1
  <2>1. IsFiniteSet(Open(run, positions))
    BY OpenFacts
  <2>2. PICK S : S = Open(run, positions)
    OBVIOUS
  <2>3. Cardinality(S \ {<<t, positions[t]>>}) = Cardinality(S) - 1
    BY <1>2, <2>1, <2>2, FS_RemoveElement
  <2>4. QED
    BY <1>3, <2>2, <2>3 DEF Left
<1>5. QED
  BY <1>1, <1>2, <1>3, <1>4

-----------------------------------------------------------------------------
(* The search is a function: TryThreads and VerifyParallel unfolded.       *)

LEMMA RunSequentialFacts ==
    ASSUME NEW run, WholeRun(run), NEW a \in Actors(run), NEW state \in States
    PROVE  RunSequential(run.operations[a], state) \in
              [throws : BOOLEAN, value : Values, next : States]
<1>1. /\ run.operations[a].name \in Names /\ run.operations[a].exceptionResults \in BOOLEAN
  BY DEF WholeRun
<1>2. PICK answer : answer = Sequential(run.operations[a].name, state)
  OBVIOUS
<1>3. answer \in [throws : BOOLEAN, value : Values, next : States] /\ Thrown \in Values
  BY <1>1, <1>2, SequentialAssumption
<1>4. [answer EXCEPT !.throws = FALSE, !.value = Thrown] \in
          [throws : BOOLEAN, value : Values, next : States]
  BY <1>3
<1>5. QED
  BY <1>2, <1>3, <1>4 DEF RunSequential

\* The candidate of thread t, what it does, and what it leaves to ask
Candidate(run, q, t) == run.scenario.parallel[t][q.positions[t]]
Did(run, q, t) == RunSequential(run.operations[Candidate(run, q, t)], q.state)
Rest(run, q, t, failed) ==
    [positions |-> Placed(q.positions, t), state |-> Did(run, q, t).next, failed |-> failed]

\* It may come next, and gives the result that was observed
Fits(run, q, t) ==
    /\ Pending(run, q.positions, t) /\ ~Blocked(run, q.positions, t)
    /\ ~Did(run, q, t).throws
    /\ Did(run, q, t).value = run.results.parallel[t][q.positions[t]]

\* It may come next, and throws
Throws(run, q, t) ==
    /\ Pending(run, q.positions, t) /\ ~Blocked(run, q.positions, t)
    /\ Did(run, q, t).throws

LEMMA CandidateFacts ==
    ASSUME NEW run, WholeRun(run), NEW q \in Questions(run), NEW t \in Threads(run),
           Pending(run, q.positions, t), NEW failed \in SUBSET (Positions(run) \X States)
    PROVE  /\ Candidate(run, q, t) \in Actors(run)
           /\ Did(run, q, t) \in [throws : BOOLEAN, value : Values, next : States]
           /\ q.positions[t] <= Len(run.results.parallel[t])
           /\ Rest(run, q, t, failed) \in Questions(run)
           /\ Left(run, Rest(run, q, t, failed).positions) = Left(run, q.positions) - 1
<1>1. q.positions \in Positions(run) /\ q.state \in States
  BY DEF Questions
<1>2. q.positions[t] \in 1 .. Len(run.scenario.parallel[t])
  BY <1>1, PlacedFacts
<1>3. Candidate(run, q, t) \in Actors(run)
  BY <1>2, ThreadFacts DEF Candidate
<1>4. Did(run, q, t) \in [throws : BOOLEAN, value : Values, next : States]
  BY <1>1, <1>3, RunSequentialFacts DEF Did
<1>5. q.positions[t] <= Len(run.results.parallel[t])
  BY <1>2 DEF WholeRun
<1>6. Placed(q.positions, t) \in Positions(run) /\ Did(run, q, t).next \in States
  BY <1>1, <1>4, OpenFacts
<1>7. Rest(run, q, t, failed) \in Questions(run)
  BY <1>6 DEF Rest, Questions
<1>8. Left(run, Placed(q.positions, t)) = Left(run, q.positions) - 1
  BY <1>1, PlacedFacts
<1>9. QED
  BY <1>3, <1>4, <1>5, <1>7, <1>8 DEF Rest

\* What comes of a candidate: it is passed over, it throws, or the rest is asked for
LEMMA TryThreadCases ==
    ASSUME NEW run, WholeRun(run), NEW q \in Questions(run), NEW t \in Threads(run),
           NEW before \in Answers(run), NEW g
    PROVE  \/ /\ before.verdict # "no" \/ ~(Fits(run, q, t) \/ Throws(run, q, t))
              /\ TryThread(run, g, q, t, before) = before
           \/ /\ before.verdict = "no" /\ Throws(run, q, t)
              /\ TryThread(run, g, q, t, before) = [before EXCEPT !.verdict = "throws"]
           \/ /\ before.verdict = "no" /\ Fits(run, q, t)
              /\ TryThread(run, g, q, t, before) = g[Rest(run, q, t, before.failed)]
<1>1. Pending(run, q.positions, t) => ~(q.positions[t] > Len(run.results.parallel[t]))
  <2> SUFFICES ASSUME Pending(run, q.positions, t)
               PROVE  ~(q.positions[t] > Len(run.results.parallel[t]))
    OBVIOUS
  <2>1. q.positions[t] <= Len(run.results.parallel[t])
    BY CandidateFacts
  <2>2. q.positions[t] \in Nat /\ Len(run.results.parallel[t]) \in Nat
    BY OpenFacts, ThreadFacts DEF Questions, WholeRun
  <2>3. QED
    BY <2>1, <2>2
<1>2. PICK d : d = Did(run, q, t)
  OBVIOUS
<1>3. TryThread(run, g, q, t, before) =
        IF \/ before.verdict # "no"
           \/ ~Pending(run, q.positions, t)
           \/ q.positions[t] > Len(run.results.parallel[t])
           \/ Blocked(run, q.positions, t)
        THEN before
        ELSE IF d.throws THEN [before EXCEPT !.verdict = "throws"]
        ELSE IF d.value # run.results.parallel[t][q.positions[t]] THEN before
        ELSE g[[positions |-> [q.positions EXCEPT ![t] = @ + 1], state |-> d.next,
                failed |-> before.failed]]
  BY <1>2 DEF TryThread, Did, Candidate
<1>4. Rest(run, q, t, before.failed) =
        [positions |-> [q.positions EXCEPT ![t] = @ + 1], state |-> d.next,
         failed |-> before.failed]
  BY <1>2 DEF Rest, Placed
<1>5. Pending(run, q.positions, t) => d.throws \in BOOLEAN
  BY <1>2, CandidateFacts
<1>6. Fits(run, q, t) <=>
        /\ Pending(run, q.positions, t) /\ ~Blocked(run, q.positions, t)
        /\ ~d.throws /\ d.value = run.results.parallel[t][q.positions[t]]
  BY <1>2 DEF Fits
<1>7. Throws(run, q, t) <=>
        Pending(run, q.positions, t) /\ ~Blocked(run, q.positions, t) /\ d.throws
  BY <1>2 DEF Throws
<1>8. QED
  BY <1>1, <1>3, <1>4, <1>5, <1>6, <1>7, Zenon

\* Two functions that agree on what has less left to place than q
Agree(run, q, f, g) ==
    \A y \in Questions(run) : Left(run, y.positions) < Left(run, q.positions) => g[y] = f[y]

LEMMA TryThreadAgrees ==
    ASSUME NEW run, WholeRun(run), NEW q \in Questions(run), NEW t \in Threads(run),
           NEW before \in Answers(run),
           NEW f \in [Questions(run) -> Answers(run)], NEW g, Agree(run, q, f, g)
    PROVE  /\ TryThread(run, g, q, t, before) = TryThread(run, f, q, t, before)
           /\ TryThread(run, f, q, t, before) \in Answers(run)
<1>1. [before EXCEPT !.verdict = "throws"] \in Answers(run) /\ before.failed \in SUBSET (Positions(run) \X States)
  BY DEF Answers
<1>2. ASSUME Fits(run, q, t)
      PROVE  /\ g[Rest(run, q, t, before.failed)] = f[Rest(run, q, t, before.failed)]
             /\ f[Rest(run, q, t, before.failed)] \in Answers(run)
  <2>1. PICK r : r = Rest(run, q, t, before.failed)
    OBVIOUS
  <2>2. r \in Questions(run) /\ Left(run, r.positions) = Left(run, q.positions) - 1
    BY <1>1, <1>2, <2>1, CandidateFacts DEF Fits
  <2>3. Left(run, q.positions) \in Nat
    BY OpenFacts DEF Questions
  <2>4. QED
    BY <2>1, <2>2, <2>3 DEF Agree
<1>3. \/ /\ before.verdict # "no" \/ ~(Fits(run, q, t) \/ Throws(run, q, t))
         /\ TryThread(run, g, q, t, before) = before
      \/ /\ before.verdict = "no" /\ Throws(run, q, t)
         /\ TryThread(run, g, q, t, before) = [before EXCEPT !.verdict = "throws"]
      \/ /\ before.verdict = "no" /\ Fits(run, q, t)
         /\ TryThread(run, g, q, t, before) = g[Rest(run, q, t, before.failed)]
  BY TryThreadCases
<1>4. \/ /\ before.verdict # "no" \/ ~(Fits(run, q, t) \/ Throws(run, q, t))
         /\ TryThread(run, f, q, t, before) = before
      \/ /\ before.verdict = "no" /\ Throws(run, q, t)
         /\ TryThread(run, f, q, t, before) = [before EXCEPT !.verdict = "throws"]
      \/ /\ before.verdict = "no" /\ Fits(run, q, t)
         /\ TryThread(run, f, q, t, before) = f[Rest(run, q, t, before.failed)]
  BY TryThreadCases
<1>5. TryThread(run, f, q, t, before) \in Answers(run)
  BY <1>1, <1>2, <1>4
<1>6. Throws(run, q, t) => ~Fits(run, q, t)
  BY DEF Fits, Throws
<1>7. TryThread(run, g, q, t, before) = TryThread(run, f, q, t, before)
  BY <1>2, <1>3, <1>4, <1>6
<1>8. QED
  BY <1>5, <1>7

\* What came of the candidates of the first t threads is tr[t]
Tries(run, f, q, tr) ==
    /\ tr \in [0 .. Len(run.scenario.parallel) -> Answers(run)]
    /\ tr[0] = [verdict |-> "no", failed |-> q.failed]
    /\ \A t \in Threads(run) : tr[t] = TryThread(run, f, q, t, tr[t - 1])
    /\ TryThreads(run, f, q) = tr[Len(run.scenario.parallel)]

LEMMA TriedLoop ==
    ASSUME NEW run, WholeRun(run), NEW q \in Questions(run),
           NEW f \in [Questions(run) -> Answers(run)], NEW g, Agree(run, q, f, g)
    PROVE  \E tr : /\ Tries(run, f, q, tr)
                   /\ TryThreads(run, g, q) = tr[Len(run.scenario.parallel)]
<1> USE DEF Agree, Tries
<1> DEFINE n == Len(run.scenario.parallel)
           A == Answers(run)
           a == [verdict |-> "no", failed |-> q.failed]
           step == [t \in 1 .. n |-> [before \in A |-> TryThread(run, f, q, t, before)]]
<1>0. n \in Nat /\ Threads(run) = 1 .. n
  BY ThreadFacts
<1>1. a \in A
  BY DEF Questions, Answers
<1>2. \A t \in 1 .. n, before \in A : TryThread(run, f, q, t, before) \in A
  BY <1>0, TryThreadAgrees
<1>3. step \in Rounds(n, A)
  BY <1>2 DEF Rounds
<1>4. PICK tr \in [0 .. n -> A] : tr[0] = a /\ \A t \in 1 .. n : tr[t] = step[t][tr[t - 1]]
  <2>1. \E tr : Follows(tr, n, A, a, step)
    <3> HIDE DEF n, A, a, step
    <3>1. QED
      BY <1>0, <1>1, <1>3, Iterate
  <2>2. QED
    BY <2>1 DEF Follows
<1>5. ASSUME NEW t \in 1 .. n
      PROVE  tr[t - 1] \in A /\ tr[t] = TryThread(run, f, q, t, tr[t - 1])
  <2>1. tr[t - 1] \in A
    BY <1>0, <1>4
  <2>2. QED
    BY <1>4, <2>1
<1>6. ASSUME NEW k, \A y \in Questions(run) :
                       Left(run, y.positions) < Left(run, q.positions) => k[y] = f[y]
      PROVE  TryThreads(run, k, q) = tr[n]
  <2> DEFINE Loop(l) == l = [t \in 0 .. n |->
                              IF t = 0 THEN a ELSE TryThread(run, k, q, t, l[t - 1])]
             h == CHOOSE l : Loop(l)
  <2>1. ASSUME NEW t \in 1 .. n PROVE tr[t] = TryThread(run, k, q, t, tr[t - 1])
    <3>1. t \in Threads(run) /\ tr[t - 1] \in Answers(run)
      BY <1>0, <1>5
    <3>2. TryThread(run, k, q, t, tr[t - 1]) = TryThread(run, f, q, t, tr[t - 1])
      BY <1>6, <3>1, TryThreadAgrees
    <3>3. QED
      BY <1>5, <3>2
  <2>2. Loop(tr)
    <3>1. \A t \in 0 .. n : t = 0 \/ t \in 1 .. n
      BY <1>0
    <3>2. \A t \in 0 .. n : tr[t] = IF t = 0 THEN a ELSE TryThread(run, k, q, t, tr[t - 1])
      BY <1>4, <2>1, <3>1
    <3>3. QED
      BY <1>4, <3>2
  <2>3. Loop(h)
    BY <2>2
  <2>4. TryThreads(run, k, q) = h[n]
    BY DEF TryThreads
  <2> HIDE DEF h
  <2> DEFINE T == {t \in 0 .. n : h[t] = tr[t]}
  <2>5. 0 \in T
    BY <1>0, <1>4, <2>3
  <2>6. ASSUME NEW t \in 1 .. n, t - 1 \in T PROVE t \in T
    <3>1. t \in 0 .. n /\ t # 0
      BY <1>0
    <3>2. h[t] = TryThread(run, k, q, t, h[t - 1])
      BY <2>3, <3>1
    <3>3. QED
      BY <2>1, <2>6, <3>1, <3>2
  <2>7. 0 .. n \subseteq T
    <3> HIDE DEF T, n
    <3>1. QED
      BY <1>0, <2>5, <2>6, Climb
  <2>8. n \in 0 .. n
    BY <1>0
  <2>9. QED
    BY <2>4, <2>7, <2>8
<1>7. TryThreads(run, f, q) = tr[n] /\ TryThreads(run, g, q) = tr[n]
  BY <1>6
<1>8. QED
  BY <1>0, <1>4, <1>5, <1>7

-----------------------------------------------------------------------------
(* One after the other.                                                    *)

\* Some operation of the run may throw what it does not document
MayThrow(run) ==
    \E a \in Actors(run), state \in States : RunSequential(run.operations[a], state).throws

LEMMA StatesFacts ==
    ASSUME NEW run, WholeRun(run), NEW actors \in Seq(Actors(run)), NEW state \in States
    PROVE  /\ StatesFrom(run.operations, actors, state) \in [0 .. Len(actors) -> States]
           /\ StatesFrom(run.operations, actors, state)[0] = state
           /\ \A i \in 1 .. Len(actors) :
                 StatesFrom(run.operations, actors, state)[i] =
                    RunSequential(run.operations[actors[i]],
                                  StatesFrom(run.operations, actors, state)[i - 1]).next
<1> DEFINE n == Len(actors)
           Following(i, s) == RunSequential(run.operations[actors[i]], s).next
           step == [i \in 1 .. n |-> [s \in States |-> Following(i, s)]]
<1>0. n \in Nat /\ \A i \in 1 .. n : actors[i] \in Actors(run)
  OBVIOUS
<1>1. \A i \in 1 .. n, s \in States : Following(i, s) \in States
  BY <1>0, RunSequentialFacts
<1>2. step \in Rounds(n, States)
  BY <1>1 DEF Rounds
<1>3. PICK f \in [0 .. n -> States] : f[0] = state /\ \A i \in 1 .. n : f[i] = step[i][f[i - 1]]
  <2>1. \E f : Follows(f, n, States, state, step)
    <3> HIDE DEF n, step
    <3>1. QED
      BY <1>0, <1>2, Iterate
  <2>2. QED
    BY <2>1 DEF Follows
<1> HIDE DEF Following
<1>4. ASSUME NEW i \in 1 .. n PROVE f[i] = Following(i, f[i - 1])
  <2>1. f[i - 1] \in States
    BY <1>0, <1>3
  <2>2. QED
    BY <1>3, <2>1
<1> DEFINE Loop(l) == l = [i \in 0 .. n |-> IF i = 0 THEN state ELSE Following(i, l[i - 1])]
           h == CHOOSE l : Loop(l)
<1>5. Loop(f)
  <2>1. \A i \in 0 .. n : i = 0 \/ i \in 1 .. n
    BY <1>0
  <2>2. \A i \in 0 .. n : f[i] = IF i = 0 THEN state ELSE Following(i, f[i - 1])
    BY <1>3, <1>4, <2>1
  <2>3. QED
    BY <1>3, <2>2
<1>6. Loop(h)
  BY <1>5
<1>7. StatesFrom(run.operations, actors, state) = h
  BY DEF StatesFrom, Following
<1> HIDE DEF h
<1> DEFINE T == {i \in 0 .. n : h[i] = f[i]}
<1>8. 0 \in T
  BY <1>0, <1>3, <1>6
<1>9. ASSUME NEW i \in 1 .. n, i - 1 \in T PROVE i \in T
  <2>1. i \in 0 .. n /\ i # 0
    BY <1>0
  <2>2. h[i] = Following(i, h[i - 1])
    BY <1>6, <2>1
  <2>3. QED
    BY <1>4, <1>9, <2>1, <2>2
<1>10. 0 .. n \subseteq T
  <2> HIDE DEF T, n
  <2>1. QED
    BY <1>0, <1>8, <1>9, Climb
<1>11. h = f
  BY <1>3, <1>6, <1>10
<1>12. QED
  BY <1>3, <1>4, <1>7, <1>11 DEF Following

\* apply_sequence says "yes" where the actors are legal, and leaves the model in their last state
LEMMA ApplyFacts ==
    ASSUME NEW run, WholeRun(run), NEW actors \in Seq(Actors(run)),
           NEW expected \in Seq(Values), NEW state \in States
    PROVE  \E r \in [verdict : {"yes", "no", "throws"}, state : States] :
              /\ r = ApplySequence(run.operations, actors, expected, state)
              /\ r.verdict = "yes" <=> Legal(run.operations, actors, expected, state)
              /\ r.verdict = "yes" => r.state = StatesFrom(run.operations, actors, state)[Len(actors)]
              /\ r.verdict = "throws" => MayThrow(run)
<1> DEFINE n == Len(actors)
           R == [verdict : {"yes", "no", "throws"}, state : States]
           a == [verdict |-> "yes", state |-> state]
           Following(i, r) == ApplyActor(run.operations[actors[i]], expected[i], r)
           Ran(i, s) == RunSequential(run.operations[actors[i]], s)
           step == [i \in 1 .. n |-> [r \in R |-> Following(i, r)]]
<1>0. n \in Nat /\ Len(expected) \in Nat /\ \A i \in 1 .. n : actors[i] \in Actors(run)
  OBVIOUS
<1>1. ASSUME NEW i \in 1 .. n, NEW r \in R
      PROVE  /\ Following(i, r) \in R
             /\ Following(i, r).verdict = "yes" <=>
                  /\ r.verdict = "yes" /\ ~Ran(i, r.state).throws
                  /\ Ran(i, r.state).value = expected[i]
             /\ Following(i, r).verdict = "yes" => Following(i, r).state = Ran(i, r.state).next
             /\ Following(i, r).verdict = "throws" => r.verdict = "throws" \/ MayThrow(run)
  <2>1. PICK d : d = Ran(i, r.state)
    OBVIOUS
  <2>2. d \in [throws : BOOLEAN, value : Values, next : States]
    BY <1>0, <2>1, RunSequentialFacts
  <2>3. Following(i, r) = IF r.verdict # "yes" THEN r
                     ELSE IF d.throws THEN [r EXCEPT !.verdict = "throws"]
                     ELSE IF d.value # expected[i] THEN [r EXCEPT !.verdict = "no"]
                     ELSE [r EXCEPT !.state = d.next]
    BY <2>1 DEF ApplyActor
  <2>4. d.throws => MayThrow(run)
    BY <1>0, <2>1 DEF MayThrow
  <2>5. PICK x : x = Following(i, r)
    OBVIOUS
  <2> HIDE DEF Following, Ran
  <2>6. CASE r.verdict # "yes"
    BY <2>1, <2>3, <2>6
  <2>7. CASE r.verdict = "yes" /\ d.throws
    BY <2>1, <2>2, <2>3, <2>4, <2>7
  <2>8. CASE r.verdict = "yes" /\ ~d.throws /\ d.value # expected[i]
    BY <2>1, <2>2, <2>3, <2>8
  <2>9. CASE r.verdict = "yes" /\ ~d.throws /\ d.value = expected[i]
    BY <2>1, <2>2, <2>3, <2>9
  <2>10. QED
    BY <2>2, <2>6, <2>7, <2>8, <2>9
<1>2. step \in Rounds(n, R)
  BY <1>1 DEF Rounds
<1>3. a \in R
  OBVIOUS
<1>4. PICK f \in [0 .. n -> R] : f[0] = a /\ \A i \in 1 .. n : f[i] = step[i][f[i - 1]]
  <2>1. \E f : Follows(f, n, R, a, step)
    <3> HIDE DEF n, step, R, a
    <3>1. QED
      BY <1>0, <1>2, <1>3, Iterate
  <2>2. QED
    BY <2>1 DEF Follows
<1> HIDE DEF Following, Ran
<1>5. ASSUME NEW i \in 1 .. n PROVE f[i - 1] \in R /\ f[i] \in R /\ f[i] = Following(i, f[i - 1])
  <2>1. i - 1 \in 0 .. n /\ i \in 0 .. n
    BY <1>0
  <2> HIDE DEF R
  <2>2. f[i - 1] \in R /\ f[i] \in R
    BY <1>4, <2>1
  <2>3. QED
    BY <1>4, <2>2
<1> DEFINE Loop(l) == l = [i \in 0 .. n |-> IF i = 0 THEN a ELSE Following(i, l[i - 1])]
           h == CHOOSE l : Loop(l)
<1>6. Loop(f)
  <2>1. \A i \in 0 .. n : i = 0 \/ i \in 1 .. n
    BY <1>0
  <2>2. \A i \in 0 .. n : f[i] = IF i = 0 THEN a ELSE Following(i, f[i - 1])
    BY <1>4, <1>5, <2>1
  <2>3. QED
    BY <1>4, <2>2
<1>7. Loop(h)
  BY <1>6
<1>8. ApplySequence(run.operations, actors, expected, state) =
          IF Len(actors) # Len(expected) THEN [verdict |-> "no", state |-> state] ELSE h[n]
  BY DEF ApplySequence, Following
<1> HIDE DEF h
<1>9. h = f
  <2> DEFINE T == {i \in 0 .. n : h[i] = f[i]}
  <2>1. 0 \in T
    BY <1>0, <1>4, <1>7
  <2>2. ASSUME NEW i \in 1 .. n, i - 1 \in T PROVE i \in T
    <3>1. i \in 0 .. n /\ i # 0
      BY <1>0
    <3>2. h[i] = Following(i, h[i - 1])
      BY <1>7, <3>1
    <3>3. QED
      BY <1>5, <2>2, <3>1, <3>2
  <2>3. 0 .. n \subseteq T
    <3> HIDE DEF T, n
    <3>1. QED
      BY <1>0, <2>1, <2>2, Climb
  <2>4. QED
    BY <1>4, <1>7, <2>3
<1>10. PICK g \in [0 .. n -> States] :
          /\ g = StatesFrom(run.operations, actors, state) /\ g[0] = state
          /\ \A i \in 1 .. n : g[i] = Ran(i, g[i - 1]).next
  BY StatesFacts DEF Ran
<1> DEFINE Right(i) == ~Ran(i, g[i - 1]).throws /\ Ran(i, g[i - 1]).value = expected[i]
           U == {i \in 0 .. n : /\ f[i].verdict = "yes" <=> \A j \in 1 .. i : Right(j)
                                /\ f[i].verdict = "yes" => f[i].state = g[i]
                                /\ f[i].verdict = "throws" => MayThrow(run)}
<1>11. 0 \in U
  BY <1>0, <1>4, <1>10
<1>12. ASSUME NEW i \in 1 .. n, i - 1 \in U PROVE i \in U
  <2>1. i \in 0 .. n /\ i \in Nat
    BY <1>0
  <2>2. 1 .. i = (1 .. i - 1) \cup {i}
    BY <1>0
  <2>3. (\A j \in 1 .. i : Right(j)) <=> (\A j \in 1 .. i - 1 : Right(j)) /\ Right(i)
    <3> HIDE DEF Right
    <3>1. QED
      BY <2>2
  <2>4. PICK r \in R : r = f[i - 1] /\ f[i] = Following(i, r)
    BY <1>5
  <2>5. /\ f[i].verdict = "yes" <=>
              /\ r.verdict = "yes" /\ ~Ran(i, r.state).throws
              /\ Ran(i, r.state).value = expected[i]
        /\ f[i].verdict = "yes" => f[i].state = Ran(i, r.state).next
        /\ f[i].verdict = "throws" => r.verdict = "throws" \/ MayThrow(run)
    BY <1>1, <2>4
  <2>6. /\ r.verdict = "yes" <=> \A j \in 1 .. i - 1 : Right(j)
        /\ r.verdict = "yes" => r.state = g[i - 1]
        /\ r.verdict = "throws" => MayThrow(run)
    BY <1>12, <2>4
  <2>7. g[i] = Ran(i, g[i - 1]).next
    BY <1>10
  <2>8. f[i].verdict = "yes" <=> (\A j \in 1 .. i - 1 : Right(j)) /\ Right(i)
    <3>1. r.verdict = "yes" => (Right(i) <=> /\ ~Ran(i, r.state).throws
                                            /\ Ran(i, r.state).value = expected[i])
      BY <2>6
    <3> HIDE DEF Right
    <3>2. QED
      BY <2>5, <2>6, <3>1
  <2>9. f[i].verdict = "yes" => f[i].state = g[i]
    BY <2>5, <2>6, <2>7
  <2>10. f[i].verdict = "throws" => MayThrow(run)
    BY <2>5, <2>6
  <2>11. QED
    <3> HIDE DEF Right
    <3>1. QED
      BY <2>1, <2>3, <2>8, <2>9, <2>10
<1>13. n \in U
  <2>1. n \in 0 .. n
    BY <1>0
  <2> HIDE DEF U
  <2>2. 0 .. n \subseteq U
    BY <1>0, <1>11, <1>12, Climb
  <2>3. QED
    BY <2>1, <2>2
<1>14. Legal(run.operations, actors, expected, state) <=>
          Len(actors) = Len(expected) /\ \A i \in 1 .. n : Right(i)
  BY <1>10 DEF Legal, Ran
<1> HIDE DEF Right
<1>15. f[n] \in R
  BY <1>0, <1>4
<1>16. CASE Len(actors) # Len(expected)
  <2>1. PICK r \in R : r = [verdict |-> "no", state |-> state]
    OBVIOUS
  <2>2. r = ApplySequence(run.operations, actors, expected, state) /\ r.verdict = "no"
    BY <1>8, <1>16, <2>1
  <2>3. QED
    BY <1>14, <1>16, <2>2
<1>17. CASE Len(actors) = Len(expected)
  <2>1. f[n] = ApplySequence(run.operations, actors, expected, state)
    BY <1>8, <1>9, <1>17
  <2>2. /\ f[n].verdict = "yes" <=> Legal(run.operations, actors, expected, state)
        /\ f[n].verdict = "yes" => f[n].state = StatesFrom(run.operations, actors, state)[Len(actors)]
        /\ f[n].verdict = "throws" => MayThrow(run)
    BY <1>10, <1>13, <1>14, <1>17
  <2>3. QED
    BY <1>15, <2>1, <2>2
<1>18. QED
  BY <1>16, <1>17

-----------------------------------------------------------------------------
(* The search answers every question.                                      *)

LEMMA AnswerAgrees ==
    ASSUME NEW run, WholeRun(run), NEW q \in Questions(run),
           NEW f \in [Questions(run) -> Answers(run)], NEW g, Agree(run, q, f, g)
    PROVE  Answer(run, g, q) = Answer(run, f, q) /\ Answer(run, f, q) \in Answers(run)
<1>1. q.positions \in Positions(run) /\ q.state \in States /\ q.failed \in SUBSET (Positions(run) \X States)
  BY DEF Questions
<1>2. PICK r \in [verdict : {"yes", "no", "throws"}, state : States] :
          r = ApplySequence(run.operations, run.scenario.post, run.results.post, q.state)
  <2>1. run.scenario.post \in Seq(Actors(run)) /\ run.results.post \in Seq(Values)
    BY DEF WholeRun
  <2>2. QED
    BY <1>1, <2>1, ApplyFacts
<1>3. PICK tried \in Answers(run) :
          tried = TryThreads(run, f, q) /\ tried = TryThreads(run, g, q)
  <2>1. Len(run.scenario.parallel) \in 0 .. Len(run.scenario.parallel)
    BY ThreadFacts
  <2>2. PICK tr : /\ Tries(run, f, q, tr)
                  /\ TryThreads(run, g, q) = tr[Len(run.scenario.parallel)]
    BY TriedLoop
  <2>3. /\ tr[Len(run.scenario.parallel)] \in Answers(run)
        /\ TryThreads(run, f, q) = tr[Len(run.scenario.parallel)]
    BY <2>1, <2>2 DEF Tries
  <2>4. QED
    BY <2>2, <2>3
<1>4. [tried EXCEPT !.failed = @ \cup {CacheKey(q.positions, q.state)}] \in Answers(run)
  BY <1>1 DEF Answers, CacheKey
<1>5. /\ [verdict |-> r.verdict, failed |-> q.failed] \in Answers(run)
      /\ [verdict |-> "no", failed |-> q.failed] \in Answers(run)
  BY <1>1 DEF Answers
<1>6. QED
  BY <1>2, <1>3, <1>4, <1>5 DEF Answer

\* VerifyParallel is the function that its recursion describes
LEMMA SearchFacts ==
    ASSUME NEW run, WholeRun(run)
    PROVE  /\ VerifyParallel(run) \in [Questions(run) -> Answers(run)]
           /\ \A q \in Questions(run) : VerifyParallel(run)[q] = Answer(run, VerifyParallel(run), q)
<1> DEFINE Q == Questions(run)
           A == Answers(run)
           M == Cardinality(ParallelPlaces(run))
           m == [q \in Q |-> Left(run, q.positions)]
           e == [f \in [Q -> A] |-> [q \in Q |-> Answer(run, f, q)]]
<1>1. M \in Nat /\ m \in [Q -> 0 .. M]
  <2>1. IsFiniteSet(ParallelPlaces(run))
    BY PlacesFinite
  <2>2. M \in Nat
    BY <2>1, FS_CardinalityType
  <2>3. \A q \in Q : Left(run, q.positions) \in 0 .. M
    BY OpenFacts DEF Questions
  <2>4. QED
    BY <2>2, <2>3
<1>2. \A f \in [Q -> A], q \in Q : Answer(run, f, q) \in A
  BY AnswerAgrees DEF Agree
<1>3. e \in [[Q -> A] -> [Q -> A]]
  BY <1>2
<1>4. ASSUME NEW f \in [Q -> A], NEW g \in [Q -> A], NEW q \in Q,
             \A y \in Q : m[y] < m[q] => f[y] = g[y]
      PROVE  e[f][q] = e[g][q]
  <2>1. \A y \in Q : Left(run, y.positions) < Left(run, q.positions) => f[y] = g[y]
    BY <1>4
  <2>2. Answer(run, f, q) = Answer(run, g, q)
    BY <2>1, AnswerAgrees DEF Agree
  <2>3. QED
    BY <2>2
<1>5. [verdict |-> "no", failed |-> {}] \in A
  BY DEF Answers
<1>6. PICK f \in [Q -> A] : e[f] = f
  <2>1. PICK a \in A : TRUE
    BY <1>5
  <2>2. \A f, g \in [Q -> A], q \in Q :
            (\A y \in Q : m[y] < m[q] => f[y] = g[y]) => e[f][q] = e[g][q]
    <3> HIDE DEF e, m
    <3>1. QED
      BY <1>4
  <2>3. Descends(e, Q, A, m)
    <3> HIDE DEF e, m
    <3>1. QED
      BY <1>3, <2>2 DEF Descends
  <2>4. \E f : Fixed(f, e, Q, A)
    <3> HIDE DEF Q, A, M, m, e
    <3>1. QED
      BY <1>1, <2>1, <2>3, Recursion
  <2>5. QED
    <3> HIDE DEF Q, A, M, m, e
    <3>1. QED
      BY <2>4 DEF Fixed
<1> DEFINE Search(s) == s = [q \in Q |-> Answer(run, s, q)]
           h == CHOOSE s : Search(s)
<1>7. \A q \in Q : f[q] = Answer(run, f, q)
  BY <1>6
<1>8. Search(f)
  BY <1>6
<1>9. Search(h)
  BY <1>8
<1>10. VerifyParallel(run) = h
  BY DEF VerifyParallel
<1> HIDE DEF h
<1> DEFINE T == {i \in 0 .. M + 1 : \A q \in Q : m[q] < i => h[q] = f[q]}
<1>11. 0 \in T
  BY <1>1
<1>12. ASSUME NEW i \in 1 .. M + 1, i - 1 \in T PROVE i \in T
  <2>1. i \in 0 .. M + 1
    BY <1>1
  <2>2. ASSUME NEW q \in Q, m[q] < i PROVE h[q] = f[q]
    <3>1. ASSUME NEW y \in Q, Left(run, y.positions) < Left(run, q.positions)
          PROVE  h[y] = f[y]
      <4>1. m[y] < m[q] /\ m[y] \in Int /\ m[q] \in Int
        BY <1>1, <3>1
      <4>2. m[y] < i - 1
        BY <2>2, <4>1
      <4>3. QED
        BY <1>12, <4>2
    <3>2. Answer(run, h, q) = Answer(run, f, q)
      BY <3>1, AnswerAgrees DEF Agree
    <3>3. h[q] = Answer(run, h, q)
      BY <1>9
    <3>4. QED
      BY <1>7, <3>2, <3>3
  <2>3. QED
    BY <2>1, <2>2
<1>13. M + 1 \in T
  <2>1. M + 1 \in Nat /\ M + 1 \in 0 .. M + 1
    BY <1>1
  <2> HIDE DEF T
  <2>2. 0 .. M + 1 \subseteq T
    BY <1>11, <1>12, <2>1, Climb
  <2>3. QED
    BY <2>1, <2>2
<1>14. \A q \in Q : h[q] = f[q]
  <2>1. \A q \in Q : m[q] < M + 1
    <3> HIDE DEF m, M
    <3>1. QED
      BY <1>1
  <2>2. QED
    BY <1>13, <2>1
<1>15. h = f
  BY <1>9, <1>14
<1>16. QED
  BY <1>7, <1>10, <1>15

-----------------------------------------------------------------------------
(* What is left of a run can be completed.                                 *)

\* f puts the places S in an order that real time and the threads allow
Ordered(run, S, f) ==
    /\ f \in [1 .. Cardinality(S) -> S]
    /\ \A i, j \in 1 .. Cardinality(S) : i # j => f[i] # f[j]
    /\ \A i, j \in 1 .. Cardinality(S) : i < j => ~Before(run, f[j], f[i])

\* The operation at place p gives its result in this state
At(run, p, state) ==
    RunSequential(run.operations[run.scenario.parallel[p[1]][p[2]]], state)
Gives(run, p, state) ==
    /\ ~At(run, p, state).throws
    /\ At(run, p, state).value = run.results.parallel[p[1]][p[2]]

\* The n places of f run through the states s
RunsThrough(run, f, n, s) ==
    /\ s \in [0 .. n -> States]
    /\ \A i \in 1 .. n : Gives(run, f[i], s[i - 1]) /\ s[i] = At(run, f[i], s[i - 1]).next

\* An order of the places S and states that it runs through from this state to the end of post
Finishes(run, S, state, f, s) ==
    /\ Ordered(run, S, f) /\ RunsThrough(run, f, Cardinality(S), s) /\ s[0] = state
    /\ Legal(run.operations, run.scenario.post, run.results.post, s[Cardinality(S)])

Completes(run, positions, state) == \E f, s : Finishes(run, Open(run, positions), state, f, s)

LEMMA OrderOnto ==
    ASSUME NEW run, NEW S, IsFiniteSet(S), NEW f, Ordered(run, S, f), NEW p \in S
    PROVE  \E i \in 1 .. Cardinality(S) : f[i] = p
<1> DEFINE n == Cardinality(S)
<1>1. n \in Nat
  BY FS_CardinalityType
<1>2. f \in Injection(1 .. n, S)
  BY DEF Ordered, Injection, IsInjective
<1>3. IsFiniteSet(1 .. n) /\ Cardinality(1 .. n) = n
  BY <1>1, FS_Interval
<1>4. f \in Surjection(1 .. n, S)
  BY <1>2, <1>3, FS_Injection
<1>5. QED
  BY <1>4 DEF Surjection

\* Blocked says that some other place that is left ended before
LEMMA BlockedFacts ==
    ASSUME NEW run, WholeRun(run), NEW positions \in Positions(run),
           NEW t \in Threads(run), Pending(run, positions, t)
    PROVE  Blocked(run, positions, t) <=>
              \E p \in Open(run, positions) \ {<<t, positions[t]>>} :
                 run.intervals[p[1]][p[2]].response < run.intervals[t][positions[t]].invocation
<1>1. CompleteIntervals(run)
  BY DEF WholeRun, CompleteIntervals, Threads
<1>2. DOMAIN positions = Threads(run)
  BY DEF Positions, Threads
<1>3. ASSUME Blocked(run, positions, t)
      PROVE  \E p \in Open(run, positions) \ {<<t, positions[t]>>} :
                 run.intervals[p[1]][p[2]].response < run.intervals[t][positions[t]].invocation
  <2>0. PICK u \in Threads(run) : \E i \in positions[u] .. Len(run.intervals[u]) :
          /\ <<u, i>> # <<t, positions[t]>>
          /\ run.intervals[u][i].response < run.intervals[t][positions[t]].invocation
    BY <1>2, <1>3 DEF Blocked
  <2>1. PICK i \in positions[u] .. Len(run.intervals[u]) :
          /\ <<u, i>> # <<t, positions[t]>>
          /\ run.intervals[u][i].response < run.intervals[t][positions[t]].invocation
    BY <2>0
  <2>2. i \in 1 .. Len(run.scenario.parallel[u]) /\ i >= positions[u]
    <3>1. Len(run.intervals[u]) = Len(run.scenario.parallel[u])
      BY DEF WholeRun
    <3>2. positions[u] \in Nat \ {0} /\ Len(run.scenario.parallel[u]) \in Nat
      BY OpenFacts, ThreadFacts
    <3>3. QED
      BY <3>1, <3>2
  <2>3. PICK p : p = <<u, i>>
    OBVIOUS
  <2>4. p \in Open(run, positions)
    BY <2>2, <2>3, PlaceFacts DEF Open
  <2>5. QED
    BY <2>1, <2>3, <2>4
<1>4. ASSUME NEW p \in Open(run, positions) \ {<<t, positions[t]>>},
             run.intervals[p[1]][p[2]].response < run.intervals[t][positions[t]].invocation
      PROVE  Blocked(run, positions, t)
  <2>1. /\ p = <<p[1], p[2]>> /\ p[1] \in Threads(run)
        /\ p[2] \in 1 .. Len(run.scenario.parallel[p[1]]) /\ p[2] >= positions[p[1]]
    BY PlaceFacts DEF Open
  <2>2. PICK u, i : u = p[1] /\ i = p[2]
    OBVIOUS
  <2>3. u \in Threads(run) /\ i \in positions[u] .. Len(run.intervals[u])
    <3>1. Len(run.intervals[u]) = Len(run.scenario.parallel[u]) /\ positions[u] \in Nat
      BY <2>1, <2>2, OpenFacts DEF WholeRun
    <3>2. QED
      BY <2>1, <2>2, <3>1, ThreadFacts
  <2>4. run.intervals[u][i].response # 0
    <3>1. run.intervals[u][i] \in Interval
      BY <2>1, <2>2, ThreadFacts
    <3>2. QED
      BY <3>1 DEF Interval
  <2>5. <<u, i>> # <<t, positions[t]>>
    BY <2>1, <2>2
  <2>6. QED
    BY <1>1, <1>2, <1>4, <2>2, <2>3, <2>4, <2>5 DEF Blocked
<1>5. QED
  BY <1>3, <1>4

\* The first of an order fits, and the others complete the rest
LEMMA CompletesNext ==
    ASSUME NEW run, WholeRun(run), NEW q \in Questions(run),
           Completes(run, q.positions, q.state), Open(run, q.positions) # {}
    PROVE  \E t \in Threads(run) :
              Fits(run, q, t) /\ Completes(run, Placed(q.positions, t), Did(run, q, t).next)
<1> DEFINE S == Open(run, q.positions)
           n == Cardinality(S)
<1>1. q.positions \in Positions(run) /\ q.state \in States
  BY DEF Questions
<1>2. IsFiniteSet(S) /\ n \in Nat /\ n # 0
  BY <1>1, OpenFacts, FS_CardinalityType, FS_EmptySet
<1>3. PICK f, s : Finishes(run, S, q.state, f, s)
  BY DEF Completes
<1>4. /\ f \in [1 .. n -> S] /\ s \in [0 .. n -> States] /\ s[0] = q.state
      /\ \A i, j \in 1 .. n : i # j => f[i] # f[j]
      /\ \A i, j \in 1 .. n : i < j => ~Before(run, f[j], f[i])
      /\ \A i \in 1 .. n : Gives(run, f[i], s[i - 1]) /\ s[i] = At(run, f[i], s[i - 1]).next
      /\ Legal(run.operations, run.scenario.post, run.results.post, s[n])
  BY <1>3 DEF Finishes, Ordered, RunsThrough
<1> HIDE DEF S
<1>5. 1 \in 1 .. n /\ f[1] \in S
  BY <1>2, <1>4
<1>6. PICK t, i : f[1] = <<t, i>> /\ t \in Threads(run) /\ i \in 1 .. Len(run.scenario.parallel[t])
                   /\ i >= q.positions[t]
  <2>1. f[1] \in ParallelPlaces(run) /\ f[1][2] >= q.positions[f[1][1]]
    BY <1>5 DEF S, Open
  <2>2. QED
    BY <2>1, PlaceFacts
<1>7. Pending(run, q.positions, t)
  BY <1>1, <1>6, OpenFacts, ThreadFacts DEF Pending
<1>8. PICK c : c = <<t, q.positions[t]>>
  OBVIOUS
<1>9. c \in S /\ q.positions[t] \in Nat
  BY <1>1, <1>6, <1>7, <1>8, PlacedFacts, OpenFacts DEF S
<1>10. \A p \in S : \E j \in 1 .. n : f[j] = p
  <2>1. Ordered(run, S, f)
    BY <1>3 DEF Finishes
  <2>2. QED
    BY <1>2, <2>1, OrderOnto
<1>11. f[1] = c
  <2>1. PICK j \in 1 .. n : f[j] = c
    BY <1>9, <1>10
  <2>2. SUFFICES ASSUME f[1] # c PROVE FALSE
    OBVIOUS
  <2>3. 1 < j
    BY <2>1, <2>2
  <2>4. ~Before(run, f[j], f[1])
    BY <1>4, <1>5, <2>3
  <2>5. c[1] = f[1][1] /\ c[2] < f[1][2]
    BY <1>6, <1>8, <1>9, <2>2
  <2>6. QED
    BY <2>1, <2>4, <2>5 DEF Before
<1>12. ~Blocked(run, q.positions, t)
  <2>1. ASSUME NEW p \in S \ {c},
               run.intervals[p[1]][p[2]].response < run.intervals[c[1]][c[2]].invocation
        PROVE  FALSE
    <3>1. PICK j \in 1 .. n : f[j] = p
      BY <1>10
    <3>2. 1 < j
      BY <1>11, <2>1, <3>1
    <3>3. ~Before(run, f[j], f[1])
      BY <1>4, <1>5, <3>2
    <3>4. QED
      BY <1>11, <2>1, <3>1, <3>3 DEF Before
  <2>2. c[1] = t /\ c[2] = q.positions[t]
    BY <1>8
  <2>3. QED
    BY <1>1, <1>6, <1>7, <1>8, <2>1, <2>2, BlockedFacts DEF S
<1>13. At(run, f[1], s[0]) = Did(run, q, t)
  <2>1. f[1][1] = t /\ f[1][2] = q.positions[t] /\ s[0] = q.state
    BY <1>4, <1>8, <1>11
  <2>2. QED
    BY <2>1 DEF At, Did, Candidate
<1>14. Fits(run, q, t) /\ s[1] = Did(run, q, t).next
  BY <1>4, <1>5, <1>7, <1>8, <1>11, <1>12, <1>13 DEF Fits, Gives
<1>15. Completes(run, Placed(q.positions, t), Did(run, q, t).next)
  <2> DEFINE T == Open(run, Placed(q.positions, t))
             g == [j \in 1 .. n - 1 |-> f[j + 1]]
             r == [j \in 0 .. n - 1 |-> s[j + 1]]
  <2>1. T = S \ {c} /\ Cardinality(T) = n - 1
    <3>1. /\ T = S \ {c}
          /\ Left(run, Placed(q.positions, t)) = Left(run, q.positions) - 1
      BY <1>1, <1>6, <1>7, <1>8, PlacedFacts DEF S
    <3>2. QED
      BY <3>1 DEF Left, S
  <2> HIDE DEF T
  <2>2. \A j \in 1 .. n - 1 : j + 1 \in 1 .. n /\ j + 1 # 1
    BY <1>2
  <2>3. g \in [1 .. n - 1 -> T]
    <3>1. \A j \in 1 .. n - 1 : f[j + 1] \in S \ {c}
      BY <1>4, <1>5, <1>11, <2>2
    <3>2. QED
      BY <2>1, <3>1
  <2>4. \A i1, j \in 1 .. n - 1 : i1 # j => g[i1] # g[j]
    <3> SUFFICES ASSUME NEW i1 \in 1 .. n - 1, NEW j \in 1 .. n - 1, i1 # j
                 PROVE  f[i1 + 1] # f[j + 1]
      OBVIOUS
    <3>1. i1 + 1 # j + 1
      BY <1>2
    <3>2. QED
      BY <1>4, <2>2, <3>1
  <2>5. \A i1, j \in 1 .. n - 1 : i1 < j => ~Before(run, g[j], g[i1])
    <3> SUFFICES ASSUME NEW i1 \in 1 .. n - 1, NEW j \in 1 .. n - 1, i1 < j
                 PROVE  ~Before(run, f[j + 1], f[i1 + 1])
      OBVIOUS
    <3>1. i1 + 1 < j + 1
      BY <1>2
    <3>2. QED
      BY <1>4, <2>2, <3>1
  <2>6. r \in [0 .. n - 1 -> States]
    <3>1. \A j \in 0 .. n - 1 : j + 1 \in 0 .. n
      BY <1>2
    <3>2. QED
      BY <1>4, <3>1
  <2>7. ASSUME NEW j \in 1 .. n - 1
        PROVE  Gives(run, g[j], r[j - 1]) /\ r[j] = At(run, g[j], r[j - 1]).next
    <3>1. g[j] = f[j + 1] /\ r[j] = s[j + 1] /\ r[j - 1] = s[(j + 1) - 1]
      <4>1. j - 1 \in 0 .. n - 1 /\ j \in 0 .. n - 1 /\ (j - 1) + 1 = (j + 1) - 1
        BY <1>2
      <4>2. QED
        BY <4>1
    <3>2. QED
      BY <1>4, <2>2, <3>1
  <2>8. r[0] = s[1] /\ r[n - 1] = s[n]
    BY <1>2
  <2> HIDE DEF g, r
  <2>9. Finishes(run, T, s[1], g, r)
    BY <1>4, <2>1, <2>3, <2>4, <2>5, <2>6, <2>7, <2>8 DEF Finishes, Ordered, RunsThrough
  <2>10. QED
    BY <1>14, <2>9 DEF Completes, T
<1>16. QED
  BY <1>6, <1>14, <1>15

\* A candidate that fits, before a completion of the rest, completes the whole
LEMMA CompletesBefore ==
    ASSUME NEW run, WholeRun(run), NEW q \in Questions(run), NEW t \in Threads(run),
           Fits(run, q, t), Completes(run, Placed(q.positions, t), Did(run, q, t).next)
    PROVE  Completes(run, q.positions, q.state)
<1> DEFINE S == Open(run, q.positions)
           T == Open(run, Placed(q.positions, t))
           m == Cardinality(T)
<1>1. q.positions \in Positions(run) /\ q.state \in States /\ Pending(run, q.positions, t)
  BY DEF Questions, Fits
<1>2. PICK c : c = <<t, q.positions[t]>>
  OBVIOUS
<1>3. /\ c \in S /\ T = S \ {c} /\ q.positions[t] \in Nat
      /\ Cardinality(S) = m + 1 /\ m \in Nat
  <2>1. /\ c \in S /\ T = S \ {c} /\ q.positions[t] \in Nat
        /\ Left(run, Placed(q.positions, t)) = Left(run, q.positions) - 1
    BY <1>1, <1>2, PlacedFacts, OpenFacts
  <2>2. Left(run, q.positions) \in Nat /\ Left(run, Placed(q.positions, t)) \in Nat
    BY <1>1, OpenFacts
  <2>3. QED
    BY <2>1, <2>2 DEF Left
<1>4. PICK g, r : Finishes(run, T, Did(run, q, t).next, g, r)
  BY DEF Completes
<1> HIDE DEF S, T
<1>5. /\ g \in [1 .. m -> T] /\ r \in [0 .. m -> States] /\ r[0] = Did(run, q, t).next
      /\ \A i, j \in 1 .. m : i # j => g[i] # g[j]
      /\ \A i, j \in 1 .. m : i < j => ~Before(run, g[j], g[i])
      /\ \A i \in 1 .. m : Gives(run, g[i], r[i - 1]) /\ r[i] = At(run, g[i], r[i - 1]).next
      /\ Legal(run.operations, run.scenario.post, run.results.post, r[m])
  BY <1>4 DEF Finishes, Ordered, RunsThrough
<1> HIDE DEF m
<1> DEFINE f == [i \in 1 .. m + 1 |-> IF i = 1 THEN c ELSE g[i - 1]]
           s == [i \in 0 .. m + 1 |-> IF i = 0 THEN q.state ELSE r[i - 1]]
<1>6. \A i \in 1 .. m + 1 : i = 1 \/ i - 1 \in 1 .. m
  BY <1>3
<1>7. /\ f[1] = c /\ \A i \in 1 .. m + 1 : i # 1 => f[i] = g[i - 1] /\ f[i] \in S \ {c}
      /\ f \in [1 .. m + 1 -> S]
  <2>1. 1 \in 1 .. m + 1
    BY <1>3
  <2>2. \A i \in 1 .. m : g[i] \in S \ {c}
    BY <1>3, <1>5
  <2>3. QED
    BY <1>3, <1>6, <2>1, <2>2
<1>8. s \in [0 .. m + 1 -> States] /\ s[0] = q.state /\ s[1] = r[0] /\ s[m + 1] = r[m]
  <2>1. \A i \in 0 .. m + 1 : i = 0 \/ i - 1 \in 0 .. m
    BY <1>3
  <2>2. QED
    BY <1>1, <1>3, <1>5, <2>1
<1>9. c[1] = t /\ c[2] = q.positions[t]
  BY <1>2
<1>10. At(run, f[1], s[0]) = Did(run, q, t)
  BY <1>7, <1>8, <1>9 DEF At, Did, Candidate
<1>11. ASSUME NEW i \in 1 .. m + 1
       PROVE  Gives(run, f[i], s[i - 1]) /\ s[i] = At(run, f[i], s[i - 1]).next
  <2>1. CASE i = 1
    <3>1. Gives(run, f[1], s[0])
      BY <1>7, <1>9, <1>10 DEF Gives, Fits
    <3>2. s[1] = At(run, f[1], s[0]).next
      BY <1>5, <1>8, <1>10
    <3>3. QED
      BY <2>1, <3>1, <3>2
  <2>2. CASE i # 1
    <3>1. i - 1 \in 1 .. m /\ f[i] = g[i - 1]
      BY <1>6, <1>7, <2>2
    <3>2. s[i] = r[i - 1] /\ s[i - 1] = r[(i - 1) - 1]
      <4>1. i \in 0 .. m + 1 /\ i - 1 \in 0 .. m + 1 /\ i # 0 /\ i - 1 # 0
        BY <1>3, <3>1
      <4>2. QED
        BY <4>1
    <3> HIDE DEF f, s
    <3>3. QED
      BY <1>5, <3>1, <3>2
  <2>3. QED
    BY <2>1, <2>2
<1> HIDE DEF f, s
<1>12. \A i, j \in 1 .. m + 1 : i # j => f[i] # f[j]
  <2> SUFFICES ASSUME NEW i \in 1 .. m + 1, NEW j \in 1 .. m + 1, i # j, f[i] = f[j] PROVE FALSE
    OBVIOUS
  <2>1. CASE i = 1 \/ j = 1
    BY <1>7, <2>1
  <2>2. CASE i # 1 /\ j # 1
    <3>1. i - 1 \in 1 .. m /\ j - 1 \in 1 .. m /\ i - 1 # j - 1
      BY <1>3, <1>6, <2>2
    <3>2. QED
      BY <1>5, <1>7, <2>2, <3>1
  <2>3. QED
    BY <2>1, <2>2
<1>13. \A i, j \in 1 .. m + 1 : i < j => ~Before(run, f[j], f[i])
  <2> SUFFICES ASSUME NEW i \in 1 .. m + 1, NEW j \in 1 .. m + 1, i < j PROVE ~Before(run, f[j], f[i])
    OBVIOUS
  <2>1. j # 1 /\ f[j] = g[j - 1] /\ f[j] \in S \ {c} /\ j - 1 \in 1 .. m
    <3>1. j # 1
      OBVIOUS
    <3>2. QED
      BY <1>6, <1>7, <3>1
  <2>2. CASE i = 1
    <3>1. ~(run.intervals[f[j][1]][f[j][2]].response < run.intervals[t][q.positions[t]].invocation)
      BY <1>1, <1>2, <2>1, BlockedFacts DEF Fits, S
    <3>2. ~(f[j][1] = t /\ f[j][2] < q.positions[t])
      <4>1. /\ f[j] = <<f[j][1], f[j][2]>> /\ f[j][2] >= q.positions[f[j][1]]
            /\ f[j][1] \in Threads(run) /\ f[j][2] \in 1 .. Len(run.scenario.parallel[f[j][1]])
        BY <2>1, PlaceFacts DEF S, Open
      <4>2. f[j][2] \in Nat
        BY <4>1, ThreadFacts
      <4>3. QED
        BY <1>3, <4>1, <4>2
    <3>3. QED
      BY <1>7, <1>9, <2>2, <3>1, <3>2 DEF Before
  <2>3. CASE i # 1
    <3>1. i - 1 \in 1 .. m /\ f[i] = g[i - 1] /\ i - 1 < j - 1
      BY <1>6, <1>7, <2>3
    <3>2. QED
      BY <1>5, <2>1, <3>1
  <2>4. QED
    BY <2>2, <2>3
<1>14. Finishes(run, S, q.state, f, s)
  BY <1>3, <1>5, <1>7, <1>8, <1>11, <1>12, <1>13 DEF Finishes, Ordered, RunsThrough
<1>15. QED
  BY <1>14 DEF Completes, S

\* When nothing is left, what is to complete is post
LEMMA CompletesPost ==
    ASSUME NEW run, WholeRun(run), NEW q \in Questions(run), Open(run, q.positions) = {}
    PROVE  Completes(run, q.positions, q.state) <=>
              Legal(run.operations, run.scenario.post, run.results.post, q.state)
<1> DEFINE S == Open(run, q.positions)
<1>1. Cardinality(S) = 0 /\ q.state \in States
  BY FS_EmptySet DEF Questions
<1>2. ASSUME Completes(run, q.positions, q.state)
      PROVE  Legal(run.operations, run.scenario.post, run.results.post, q.state)
  BY <1>1, <1>2 DEF Completes, Finishes
<1>3. ASSUME Legal(run.operations, run.scenario.post, run.results.post, q.state)
      PROVE  Completes(run, q.positions, q.state)
  <2> DEFINE f == [i \in 1 .. 0 |-> q.state]
             s == [i \in 0 .. 0 |-> q.state]
  <2>1. 1 .. 0 = {} /\ f \in [1 .. 0 -> S] /\ s \in [0 .. 0 -> States] /\ s[0] = q.state
    BY <1>1
  <2>2. Finishes(run, S, q.state, f, s)
    BY <1>1, <1>3, <2>1 DEF Finishes, Ordered, RunsThrough
  <2>3. QED
    BY <2>2 DEF Completes
<1>4. QED
  BY <1>2, <1>3


-----------------------------------------------------------------------------
(* The search answers the truth.                                           *)

\* What the memo says has failed cannot be completed
Sound(run, failed) == \A key \in failed : ~Completes(run, key[1], key[2])

\* The answer to what is left when this state is reached at these positions
Truthful(run, positions, state, answer) ==
    /\ answer.verdict = "yes" => Completes(run, positions, state)
    /\ answer.verdict = "no" => ~Completes(run, positions, state)
    /\ answer.verdict = "throws" => MayThrow(run)
    /\ Sound(run, answer.failed)

\* f answers the truth where less is left than for q
TruthfulBelow(run, q, f) ==
    \A y \in Questions(run) :
        Left(run, y.positions) < Left(run, q.positions) /\ Sound(run, y.failed)
           => Truthful(run, y.positions, y.state, f[y])

LEMMA TryThreadsTrue ==
    ASSUME NEW run, WholeRun(run), NEW q \in Questions(run), Sound(run, q.failed),
           Open(run, q.positions) # {},
           NEW f \in [Questions(run) -> Answers(run)], TruthfulBelow(run, q, f)
    PROVE  Truthful(run, q.positions, q.state, TryThreads(run, f, q))
<1> DEFINE n == Len(run.scenario.parallel)
           Leads(t) == /\ Fits(run, q, t)
                       /\ Completes(run, Placed(q.positions, t), Did(run, q, t).next)
           Whole == Completes(run, q.positions, q.state)
<1>1. PICK tr : Tries(run, f, q, tr)
  <2>1. Agree(run, q, f, f)
    BY DEF Agree
  <2>2. QED
    BY <2>1, TriedLoop
<1>2. /\ tr \in [0 .. n -> Answers(run)]
      /\ tr[0] = [verdict |-> "no", failed |-> q.failed]
      /\ \A t \in Threads(run) : tr[t] = TryThread(run, f, q, t, tr[t - 1])
      /\ TryThreads(run, f, q) = tr[n]
  BY <1>1 DEF Tries
<1>3. n \in Nat /\ Threads(run) = 1 .. n
  BY ThreadFacts
<1> DEFINE T == {t \in 0 .. n : /\ Sound(run, tr[t].failed)
                                /\ tr[t].verdict = "yes" => Whole
                                /\ tr[t].verdict = "throws" => MayThrow(run)
                                /\ tr[t].verdict = "no" => \A u \in 1 .. t : ~Leads(u)}
<1>4. 0 \in T
  <2>1. 0 \in 0 .. n /\ 1 .. 0 = {}
    BY <1>3
  <2>2. QED
    BY <1>2, <2>1
<1>5. ASSUME NEW t \in 1 .. n, t - 1 \in T PROVE t \in T
  <2>1. t \in 0 .. n /\ t \in Threads(run) /\ t - 1 \in 0 .. n
    BY <1>3
  <2>2. PICK before \in Answers(run) : before = tr[t - 1]
    BY <1>2, <2>1
  <2>3. tr[t] = TryThread(run, f, q, t, before)
    BY <1>2, <2>1, <2>2
  <2>4. /\ Sound(run, before.failed)
        /\ before.verdict = "yes" => Whole
        /\ before.verdict = "throws" => MayThrow(run)
        /\ before.verdict = "no" => \A u \in 1 .. t - 1 : ~Leads(u)
    BY <1>5, <2>2
  <2>5. \A u \in 1 .. t : u = t \/ u \in 1 .. t - 1
    BY <1>3
  <2>6. CASE /\ before.verdict # "no" \/ ~(Fits(run, q, t) \/ Throws(run, q, t))
             /\ tr[t] = before
    <3> HIDE DEF Whole
    <3>1. before.verdict = "no" => ~Leads(t)
      BY <2>6
    <3> HIDE DEF Leads
    <3>2. QED
      BY <2>1, <2>4, <2>5, <2>6, <3>1
  <2>7. CASE /\ before.verdict = "no" /\ Throws(run, q, t)
             /\ tr[t] = [before EXCEPT !.verdict = "throws"]
    <3>1. tr[t].verdict = "throws" /\ tr[t].failed = before.failed
      BY <2>7 DEF Answers
    <3>2. MayThrow(run)
      <4>1. Candidate(run, q, t) \in Actors(run)
        BY <2>1, <2>7, CandidateFacts DEF Throws, Answers
      <4>2. Did(run, q, t).throws /\ q.state \in States
        BY <2>7 DEF Throws, Questions
      <4>3. QED
        BY <4>1, <4>2 DEF Did, MayThrow
    <3> HIDE DEF Whole, Leads
    <3>3. QED
      BY <2>1, <2>4, <3>1, <3>2
  <2>8. CASE /\ before.verdict = "no" /\ Fits(run, q, t)
             /\ tr[t] = f[Rest(run, q, t, before.failed)]
    <3>1. PICK y : y = Rest(run, q, t, before.failed)
      OBVIOUS
    <3>2. /\ y \in Questions(run) /\ Left(run, y.positions) = Left(run, q.positions) - 1
          /\ y.positions = Placed(q.positions, t) /\ y.state = Did(run, q, t).next
          /\ y.failed = before.failed
      <4>1. before.failed \in SUBSET (Positions(run) \X States)
        BY DEF Answers
      <4>2. y \in Questions(run) /\ Left(run, y.positions) = Left(run, q.positions) - 1
        BY <2>1, <2>8, <3>1, <4>1, CandidateFacts DEF Fits
      <4>3. QED
        BY <3>1, <4>2 DEF Rest
    <3>3. Left(run, q.positions) \in Nat
      BY OpenFacts DEF Questions
    <3>4. Truthful(run, y.positions, y.state, f[y])
      BY <2>4, <3>2, <3>3 DEF TruthfulBelow
    <3>5. /\ tr[t].verdict = "yes" => Leads(t)
          /\ tr[t].verdict = "no" => ~Leads(t)
          /\ tr[t].verdict = "throws" => MayThrow(run)
          /\ Sound(run, tr[t].failed)
      BY <2>8, <3>1, <3>2, <3>4 DEF Truthful
    <3>6. Leads(t) => Whole
      BY <2>1, CompletesBefore
    <3> HIDE DEF Leads, Whole
    <3>7. QED
      BY <2>1, <2>4, <2>5, <2>8, <3>5, <3>6
  <2>9. QED
    <3> HIDE DEF T
    <3>1. QED
      BY <2>1, <2>3, <2>6, <2>7, <2>8, TryThreadCases
<1>6. n \in T
  <2>1. n \in 0 .. n
    BY <1>3
  <2> HIDE DEF T
  <2>2. 0 .. n \subseteq T
    BY <1>3, <1>4, <1>5, Climb
  <2>3. QED
    BY <2>1, <2>2
<1>7. Whole => \E t \in 1 .. n : Leads(t)
  BY <1>3, CompletesNext
<1>8. QED
  BY <1>2, <1>6, <1>7 DEF Truthful

LEMMA AnswerTrue ==
    ASSUME NEW run, WholeRun(run), NEW q \in Questions(run), Sound(run, q.failed),
           NEW f \in [Questions(run) -> Answers(run)], TruthfulBelow(run, q, f)
    PROVE  Truthful(run, q.positions, q.state, Answer(run, f, q))
<1>1. q.positions \in Positions(run) /\ q.state \in States /\ DOMAIN q.positions = Threads(run)
  BY DEF Questions, Positions, Threads
<1>2. (\A t \in Threads(run) : ~Pending(run, q.positions, t)) <=> Open(run, q.positions) = {}
  BY <1>1, OpenFacts
<1>3. CASE Open(run, q.positions) = {}
  <2>1. PICK r \in [verdict : {"yes", "no", "throws"}, state : States] :
          /\ r = ApplySequence(run.operations, run.scenario.post, run.results.post, q.state)
          /\ r.verdict = "yes" <=>
                Legal(run.operations, run.scenario.post, run.results.post, q.state)
          /\ r.verdict = "throws" => MayThrow(run)
    <3>1. run.scenario.post \in Seq(Actors(run)) /\ run.results.post \in Seq(Values)
      BY DEF WholeRun
    <3>2. QED
      BY <1>1, <3>1, ApplyFacts
  <2>2. Answer(run, f, q) = [verdict |-> r.verdict, failed |-> q.failed]
    BY <1>1, <1>2, <1>3, <2>1 DEF Answer
  <2>3. Completes(run, q.positions, q.state) <=> r.verdict = "yes"
    BY <1>3, <2>1, CompletesPost
  <2>4. QED
    BY <2>1, <2>2, <2>3 DEF Truthful
<1>4. CASE Open(run, q.positions) # {} /\ Remembered(run, q)
  <2>1. Answer(run, f, q) = [verdict |-> "no", failed |-> q.failed]
    BY <1>1, <1>2, <1>4 DEF Answer
  <2>2. ~Completes(run, q.positions, q.state)
    BY <1>4 DEF Remembered, CacheKey, Sound
  <2>3. QED
    BY <2>1, <2>2 DEF Truthful
<1>5. CASE Open(run, q.positions) # {} /\ ~Remembered(run, q)
  <2>1. PICK a \in Answers(run) : a = TryThreads(run, f, q)
    <3>1. PICK tr : Tries(run, f, q, tr)
      <4>1. Agree(run, q, f, f)
        BY DEF Agree
      <4>2. QED
        BY <4>1, TriedLoop
    <3>2. Len(run.scenario.parallel) \in 0 .. Len(run.scenario.parallel)
      BY ThreadFacts
    <3>3. QED
      BY <3>1, <3>2 DEF Tries
  <2>2. Truthful(run, q.positions, q.state, a)
    BY <1>5, <2>1, TryThreadsTrue
  <2>3. Answer(run, f, q) = IF a.verdict = "no" /\ run.keyed
                            THEN [a EXCEPT !.failed = @ \cup {CacheKey(q.positions, q.state)}]
                            ELSE a
    BY <1>1, <1>2, <1>5, <2>1 DEF Answer
  <2>4. CASE a.verdict = "no" /\ run.keyed
    <3>1. PICK b : b = Answer(run, f, q)
      OBVIOUS
    <3>2. b.verdict = "no" /\ b.failed = a.failed \cup {<<q.positions, q.state>>}
      BY <2>3, <2>4, <3>1 DEF Answers, CacheKey
    <3>3. ~Completes(run, q.positions, q.state) /\ Sound(run, a.failed)
      BY <2>2, <2>4 DEF Truthful
    <3>4. Sound(run, b.failed)
      BY <3>2, <3>3 DEF Sound
    <3>5. QED
      BY <3>1, <3>2, <3>3, <3>4 DEF Truthful
  <2>5. CASE ~(a.verdict = "no" /\ run.keyed)
    BY <2>2, <2>3, <2>5
  <2>6. QED
    BY <2>4, <2>5
<1>6. QED
  BY <1>3, <1>4, <1>5

LEMMA SearchTrue ==
    ASSUME NEW run, WholeRun(run), NEW q \in Questions(run), Sound(run, q.failed)
    PROVE  Truthful(run, q.positions, q.state, VerifyParallel(run)[q])
<1> DEFINE h == VerifyParallel(run)
           M == Cardinality(ParallelPlaces(run))
           AnsweredTruly(y) == Sound(run, y.failed) => Truthful(run, y.positions, y.state, h[y])
           T == {i \in 0 .. M + 1 : \A y \in Questions(run) :
                                       Left(run, y.positions) < i => AnsweredTruly(y)}
<1>1. M \in Nat /\ \A y \in Questions(run) : Left(run, y.positions) \in 0 .. M
  BY OpenFacts DEF Questions
<1>2. h \in [Questions(run) -> Answers(run)] /\ \A y \in Questions(run) : h[y] = Answer(run, h, y)
  BY SearchFacts
<1> HIDE DEF h, M
<1>3. 0 \in T
  BY <1>1
<1>4. ASSUME NEW i \in 1 .. M + 1, i - 1 \in T PROVE i \in T
  <2>1. i \in 0 .. M + 1
    BY <1>1
  <2>2. ASSUME NEW y \in Questions(run), Left(run, y.positions) < i PROVE AnsweredTruly(y)
    <3>1. ASSUME NEW z \in Questions(run), Left(run, z.positions) < Left(run, y.positions)
          PROVE  AnsweredTruly(z)
      <4>1. Left(run, z.positions) < i - 1
        BY <1>1, <2>2, <3>1
      <4>2. QED
        BY <1>4, <4>1
    <3>2. TruthfulBelow(run, y, h)
      BY <3>1 DEF TruthfulBelow
    <3>3. QED
      BY <1>2, <3>2, AnswerTrue
  <2>3. QED
    BY <2>1, <2>2
<1>5. M + 1 \in T
  <2>1. M + 1 \in Nat /\ M + 1 \in 0 .. M + 1
    BY <1>1
  <2> HIDE DEF T
  <2>2. 0 .. M + 1 \subseteq T
    BY <1>3, <1>4, <2>1, Climb
  <2>3. QED
    BY <2>1, <2>2
<1>6. Left(run, q.positions) < M + 1
  BY <1>1
<1>7. QED
  BY <1>5, <1>6 DEF h

-----------------------------------------------------------------------------
(* What the search looks for is a linearisation.                           *)

FirstPositions(run) == [t \in Threads(run) |-> 1]

LEMMA FirstFacts ==
    ASSUME NEW run, WholeRun(run)
    PROVE  /\ FirstPositions(run) \in Positions(run)
           /\ Open(run, FirstPositions(run)) = ParallelPlaces(run)
<1>1. FirstPositions(run) \in Positions(run)
  BY DEF FirstPositions, Positions, Threads
<1>2. ASSUME NEW p \in ParallelPlaces(run) PROVE p[2] >= FirstPositions(run)[p[1]]
  <2>1. p[1] \in Threads(run) /\ p[2] \in 1 .. Len(run.scenario.parallel[p[1]])
    BY PlaceFacts
  <2>2. p[2] \in Nat /\ p[2] >= 1
    BY <2>1, ThreadFacts
  <2>3. QED
    BY <2>1, <2>2 DEF FirstPositions
<1>3. QED
  BY <1>1, <1>2 DEF Open

\* The actors of an order, and what they gave
ActorsOf(run, order) ==
    [i \in DOMAIN order |-> run.scenario.parallel[order[i][1]][order[i][2]]]
ResultsOf(run, order) ==
    [i \in DOMAIN order |-> run.results.parallel[order[i][1]][order[i][2]]]

\* An order is legal when it runs through some states, which are those that its actors lead through
LEMMA OrderFacts ==
    ASSUME NEW run, WholeRun(run), NEW n \in Nat, NEW order \in [1 .. n -> ParallelPlaces(run)],
           NEW state \in States
    PROVE  \E s : /\ s = StatesFrom(run.operations, ActorsOf(run, order), state)
                  /\ s[0] = state /\ Len(ActorsOf(run, order)) = n
                  /\ Legal(run.operations, ActorsOf(run, order), ResultsOf(run, order), state)
                        <=> RunsThrough(run, order, n, s)
                  /\ \A r : RunsThrough(run, order, n, r) /\ r[0] = state => r = s
<1> DEFINE actors == ActorsOf(run, order)
           results == ResultsOf(run, order)
<1>1. ASSUME NEW i \in 1 .. n
      PROVE  /\ actors[i] = run.scenario.parallel[order[i][1]][order[i][2]]
             /\ results[i] = run.results.parallel[order[i][1]][order[i][2]]
             /\ actors[i] \in Actors(run)
  <2>1. PICK p \in ParallelPlaces(run) : p = order[i]
    OBVIOUS
  <2>2. p[1] \in Threads(run) /\ p[2] \in 1 .. Len(run.scenario.parallel[p[1]])
    BY PlaceFacts
  <2>3. run.scenario.parallel[p[1]][p[2]] \in Actors(run)
    BY <2>2, ThreadFacts
  <2>4. QED
    BY <2>1, <2>3 DEF ActorsOf, ResultsOf
<1>2. actors \in Seq(Actors(run)) /\ Len(actors) = n /\ Len(results) = n
  <2>1. actors \in [1 .. n -> Actors(run)] /\ results = [i \in 1 .. n |-> results[i]]
    BY <1>1 DEF ActorsOf, ResultsOf
  <2> HIDE DEF actors, results
  <2>2. QED
    BY <2>1
<1>3. PICK s \in [0 .. n -> States] :
          /\ s = StatesFrom(run.operations, actors, state) /\ s[0] = state
          /\ \A i \in 1 .. n : s[i] = RunSequential(run.operations[actors[i]], s[i - 1]).next
  <2> HIDE DEF actors, results
  <2>1. /\ StatesFrom(run.operations, actors, state) \in [0 .. n -> States]
        /\ StatesFrom(run.operations, actors, state)[0] = state
        /\ \A i \in 1 .. n :
              StatesFrom(run.operations, actors, state)[i] =
                 RunSequential(run.operations[actors[i]],
                               StatesFrom(run.operations, actors, state)[i - 1]).next
    <3>1. PICK a \in Seq(Actors(run)) : a = actors
      BY <1>2
    <3>2. Len(a) = n
      BY <1>2, <3>1
    <3>3. /\ StatesFrom(run.operations, a, state) \in [0 .. Len(a) -> States]
          /\ StatesFrom(run.operations, a, state)[0] = state
          /\ \A i \in 1 .. Len(a) :
                StatesFrom(run.operations, a, state)[i] =
                   RunSequential(run.operations[a[i]],
                                 StatesFrom(run.operations, a, state)[i - 1]).next
      BY StatesFacts
    <3>4. QED
      BY <3>1, <3>2, <3>3
  <2>2. QED
    BY <2>1
<1>4. \A i \in 1 .. n : \A x : RunSequential(run.operations[actors[i]], x) = At(run, order[i], x)
  BY <1>1 DEF At
<1>5. Legal(run.operations, actors, results, state) <=> \A i \in 1 .. n : Gives(run, order[i], s[i - 1])
  <2>1. Legal(run.operations, actors, results, state) <=>
            \A i \in 1 .. n : /\ ~RunSequential(run.operations[actors[i]], s[i - 1]).throws
                              /\ RunSequential(run.operations[actors[i]], s[i - 1]).value = results[i]
    BY <1>2, <1>3 DEF Legal
  <2>2. ASSUME NEW i \in 1 .. n
        PROVE  /\ RunSequential(run.operations[actors[i]], s[i - 1]) = At(run, order[i], s[i - 1])
               /\ results[i] = run.results.parallel[order[i][1]][order[i][2]]
    BY <1>1, <1>4
  <2> HIDE DEF actors, results
  <2>3. QED
    BY <2>1, <2>2 DEF Gives
<1>6. Legal(run.operations, actors, results, state) <=> RunsThrough(run, order, n, s)
  BY <1>3, <1>4, <1>5 DEF RunsThrough
<1>7. ASSUME NEW r, RunsThrough(run, order, n, r), r[0] = state PROVE r = s
  <2>1. /\ r \in [0 .. n -> States]
        /\ \A i \in 1 .. n : r[i] = At(run, order[i], r[i - 1]).next
    BY <1>7 DEF RunsThrough
  <2> DEFINE T == {i \in 0 .. n : r[i] = s[i]}
  <2>2. 0 \in T
    BY <1>3, <1>7
  <2>3. ASSUME NEW i \in 1 .. n, i - 1 \in T PROVE i \in T
    <3>1. r[i - 1] = s[i - 1] /\ i \in 0 .. n
      BY <2>3
    <3>2. r[i] = At(run, order[i], r[i - 1]).next
      BY <2>1
    <3>3. s[i] = RunSequential(run.operations[actors[i]], s[i - 1]).next
      BY <1>3
    <3>4. RunSequential(run.operations[actors[i]], s[i - 1]) = At(run, order[i], s[i - 1])
      BY <1>4
    <3>5. QED
      BY <3>1, <3>2, <3>3, <3>4
  <2>4. 0 .. n \subseteq T
    <3> HIDE DEF T
    <3>1. QED
      BY <2>2, <2>3, Climb
  <2>5. QED
    BY <1>3, <2>1, <2>4
<1> HIDE DEF actors, results
<1>8. QED
  BY <1>2, <1>3, <1>6, <1>7 DEF actors, results

\* Where a run begins: in the state init leads to
Begun(run) == StatesFrom(run.operations, run.scenario.init, Fresh)[Len(run.scenario.init)]

LEMMA LinearizableIsCompletes ==
    ASSUME NEW run, WholeRun(run)
    PROVE  Linearizable(run) <=>
              /\ Legal(run.operations, run.scenario.init, run.results.init, Fresh)
              /\ Completes(run, FirstPositions(run), Begun(run))
<1> DEFINE places == ParallelPlaces(run)
           n == Cardinality(places)
           post(x) == Legal(run.operations, run.scenario.post, run.results.post, x)
           After(order) == StatesFrom(run.operations, ActorsOf(run, order), Begun(run))[Len(ActorsOf(run, order))]
<1>1. n \in Nat /\ Open(run, FirstPositions(run)) = places
  BY FirstFacts, PlacesFinite, FS_CardinalityType
<1>2. Begun(run) \in States
  <2>1. run.scenario.init \in Seq(Actors(run)) /\ Fresh \in States
    BY SequentialAssumption DEF WholeRun
  <2>2. Len(run.scenario.init) \in 0 .. Len(run.scenario.init)
    BY <2>1
  <2>3. QED
    BY <2>1, <2>2, StatesFacts DEF Begun
<1> DEFINE Ways == {f \in [1 .. n -> places] : \A i, j \in 1 .. n : i # j => f[i] # f[j]}
<1>3. ASSUME NEW order
      PROVE  Replays(run, order) <=>
                /\ Legal(run.operations, run.scenario.init, run.results.init, Fresh)
                /\ Legal(run.operations, ActorsOf(run, order), ResultsOf(run, order), Begun(run))
                /\ post(After(order))
  BY DEF Replays, ActorsOf, ResultsOf, Begun
<1>4. Linearizable(run) <=>
          \E order \in Ways : /\ \A i, j \in 1 .. n : i < j => ~Before(run, order[j], order[i])
                              /\ Replays(run, order)
  BY DEF Linearizable
<1> HIDE DEF places, n, post
<1>5. ASSUME Linearizable(run)
      PROVE  /\ Legal(run.operations, run.scenario.init, run.results.init, Fresh)
             /\ Completes(run, FirstPositions(run), Begun(run))
  <2>1. PICK order \in Ways : /\ \A i, j \in 1 .. n : i < j => ~Before(run, order[j], order[i])
                              /\ Replays(run, order)
    BY <1>4, <1>5
  <2>2. order \in [1 .. n -> places] /\ Ordered(run, places, order)
    BY <2>1 DEF Ordered, n
  <2>3. PICK s : /\ s = StatesFrom(run.operations, ActorsOf(run, order), Begun(run))
                 /\ s[0] = Begun(run) /\ Len(ActorsOf(run, order)) = n
                 /\ Legal(run.operations, ActorsOf(run, order), ResultsOf(run, order), Begun(run))
                        <=> RunsThrough(run, order, n, s)
    BY <1>1, <1>2, <2>2, OrderFacts DEF places
  <2>4. RunsThrough(run, order, n, s) /\ post(s[n])
    BY <1>3, <2>1, <2>3
  <2>5. Finishes(run, places, Begun(run), order, s)
    BY <2>2, <2>3, <2>4 DEF Finishes, n, post
  <2>6. QED
    BY <1>1, <1>3, <2>1, <2>5 DEF Completes
<1>6. ASSUME Legal(run.operations, run.scenario.init, run.results.init, Fresh),
             Completes(run, FirstPositions(run), Begun(run))
      PROVE  Linearizable(run)
  <2>1. PICK order, r : Finishes(run, places, Begun(run), order, r)
    BY <1>1, <1>6 DEF Completes
  <2>2. /\ order \in [1 .. n -> places]
        /\ \A i, j \in 1 .. n : i # j => order[i] # order[j]
        /\ \A i, j \in 1 .. n : i < j => ~Before(run, order[j], order[i])
        /\ RunsThrough(run, order, n, r) /\ r[0] = Begun(run) /\ post(r[n])
    BY <2>1 DEF Finishes, Ordered, n, post
  <2>3. /\ r = StatesFrom(run.operations, ActorsOf(run, order), Begun(run))
        /\ Len(ActorsOf(run, order)) = n
        /\ Legal(run.operations, ActorsOf(run, order), ResultsOf(run, order), Begun(run))
    BY <1>1, <1>2, <2>2, OrderFacts DEF places
  <2>4. Replays(run, order)
    BY <1>3, <1>6, <2>2, <2>3
  <2>5. QED
    BY <1>4, <2>2, <2>4
<1>7. QED
  BY <1>5, <1>6

-----------------------------------------------------------------------------
(* To show that actors are legal, name the states they lead through.       *)

LeadThrough(run, actors, results, states) ==
    /\ Len(results) = Len(actors) /\ states \in [0 .. Len(actors) -> States]
    /\ \A i \in 1 .. Len(actors) :
          /\ ~RunSequential(run.operations[actors[i]], states[i - 1]).throws
          /\ RunSequential(run.operations[actors[i]], states[i - 1]).value = results[i]
          /\ RunSequential(run.operations[actors[i]], states[i - 1]).next = states[i]

LEMMA LegalFrom ==
    ASSUME NEW run, WholeRun(run), NEW actors \in Seq(Actors(run)), NEW results, NEW states,
           LeadThrough(run, actors, results, states)
    PROVE  /\ Legal(run.operations, actors, results, states[0])
           /\ StatesFrom(run.operations, actors, states[0]) = states
<1> DEFINE n == Len(actors)
<1>0. /\ Len(results) = n /\ states \in [0 .. n -> States]
      /\ \A i \in 1 .. n :
            /\ ~RunSequential(run.operations[actors[i]], states[i - 1]).throws
            /\ RunSequential(run.operations[actors[i]], states[i - 1]).value = results[i]
            /\ RunSequential(run.operations[actors[i]], states[i - 1]).next = states[i]
  BY DEF LeadThrough
<1>1. n \in Nat /\ states[0] \in States
  BY <1>0
<1>2. PICK s \in [0 .. n -> States] :
          /\ s = StatesFrom(run.operations, actors, states[0]) /\ s[0] = states[0]
          /\ \A i \in 1 .. n : s[i] = RunSequential(run.operations[actors[i]], s[i - 1]).next
  BY <1>1, StatesFacts
<1> DEFINE T == {i \in 0 .. n : s[i] = states[i]}
<1>3. 0 \in T
  BY <1>1, <1>2
<1>4. ASSUME NEW i \in 1 .. n, i - 1 \in T PROVE i \in T
  <2>1. s[i - 1] = states[i - 1] /\ i \in 0 .. n
    BY <1>1, <1>4
  <2>2. QED
    BY <1>0, <1>2, <2>1
<1>5. 0 .. n \subseteq T
  <2> HIDE DEF T, n
  <2>1. QED
    BY <1>1, <1>3, <1>4, Climb
<1>6. s = states
  BY <1>0, <1>2, <1>5
<1>7. QED
  BY <1>0, <1>2, <1>6 DEF Legal

\* An increasing order of 1 .. k is the order of counting
LEMMA Counting ==
    ASSUME NEW k \in Nat, NEW n \in Nat, NEW f \in [1 .. n -> 1 .. k],
           \A m \in 1 .. k : \E i \in 1 .. n : f[i] = m,
           \A i, j \in 1 .. n : i < j => f[i] < f[j]
    PROVE  n = k /\ \A i \in 1 .. n : f[i] = i
<1> DEFINE T == {i \in 0 .. n : \A m \in 1 .. i : f[m] = m}
<1>1. 0 \in T
  OBVIOUS
<1>2. ASSUME NEW i \in 1 .. n, i - 1 \in T PROVE i \in T
  <2>1. \A m \in 1 .. i - 1 : f[m] = m
    BY <1>2
  <2>2. f[i] \in 1 .. k /\ f[i] >= i
    <3>1. CASE i = 1
      BY <3>1
    <3>2. CASE i > 1
      <4>1. i - 1 \in 1 .. i - 1 /\ i - 1 \in 1 .. n /\ i - 1 < i
        BY <3>2
      <4>2. f[i - 1] = i - 1 /\ f[i - 1] < f[i]
        BY <2>1, <4>1
      <4>3. QED
        BY <4>2
    <3>3. QED
      BY <3>1, <3>2
  <2>3. PICK j \in 1 .. n : f[j] = i
    <3>1. i \in 1 .. k
      BY <2>2
    <3> HIDE DEF T
    <3>2. QED
      BY <3>1
  <2>4. ~(j < i)
    BY <2>1, <2>3
  <2>5. ~(i < j)
    BY <2>2, <2>3
  <2>6. j = i
    BY <2>4, <2>5
  <2>7. \A m \in 1 .. i : m = i \/ m \in 1 .. i - 1
    OBVIOUS
  <2>8. QED
    BY <2>1, <2>3, <2>6, <2>7
<1>3. n \in T
  <2>1. n \in 0 .. n
    OBVIOUS
  <2> HIDE DEF T
  <2>2. 0 .. n \subseteq T
    BY <1>1, <1>2, Climb
  <2>3. QED
    BY <2>1, <2>2
<1>4. \A i \in 1 .. n : f[i] = i
  BY <1>3
<1>5. n <= k
  <2>1. n = 0 \/ n \in 1 .. n
    OBVIOUS
  <2>2. QED
    BY <1>4, <2>1
<1>6. k <= n
  <2>1. k = 0 \/ k \in 1 .. k
    OBVIOUS
  <2>2. QED
    BY <1>4, <2>1
<1>7. QED
  BY <1>4, <1>5, <1>6

-----------------------------------------------------------------------------
(* The verdict.                                                            *)

\* LinearizabilityVerifier::verify, for a run that has a result and an interval for every actor:
\* it says yes to the linearizable runs only and no to the others only, with a state key and
\* without one, with a report and without one, and it fails to answer only where some operation
\* of the sequential model may throw what it does not document.
THEOREM VerifyIsLinearizability ==
    ASSUME NEW run, WholeRun(run)
    PROVE  /\ Verify(run) \in {"yes", "no", "throws"}
           /\ Verify(run) = "yes" => Linearizable(run)
           /\ Verify(run) = "no" => ~Linearizable(run)
           /\ Verify(run) = "throws" => MayThrow(run)
<1>1. PICK r \in [verdict : {"yes", "no", "throws"}, state : States] :
          /\ r = ApplySequence(run.operations, run.scenario.init, run.results.init, Fresh)
          /\ r.verdict = "yes" <=> Legal(run.operations, run.scenario.init, run.results.init, Fresh)
          /\ r.verdict = "yes" => r.state = Begun(run)
          /\ r.verdict = "throws" => MayThrow(run)
  <2>1. /\ run.scenario.init \in Seq(Actors(run)) /\ run.results.init \in Seq(Values)
        /\ Fresh \in States
    BY SequentialAssumption DEF WholeRun
  <2>2. QED
    BY <2>1, ApplyFacts DEF Begun
<1>2. PICK q : q = [positions |-> FirstPositions(run), state |-> r.state, failed |-> {}]
  OBVIOUS
<1>3. Verify(run) = IF r.verdict # "yes" THEN r.verdict ELSE VerifyParallel(run)[q].verdict
  BY <1>1, <1>2 DEF Verify, FirstPositions, Threads
<1>4. q \in Questions(run) /\ Sound(run, q.failed)
  BY <1>2, FirstFacts DEF Questions, Sound
<1>5. PICK a \in Answers(run) : a = VerifyParallel(run)[q]
  BY <1>4, SearchFacts
<1>6. Truthful(run, FirstPositions(run), r.state, a)
  BY <1>2, <1>4, <1>5, SearchTrue
<1>7. CASE r.verdict # "yes"
  BY <1>1, <1>3, <1>7, LinearizableIsCompletes
<1>8. CASE r.verdict = "yes"
  <2>1. Verify(run) = a.verdict /\ a.verdict \in {"yes", "no", "throws"} /\ r.state = Begun(run)
    BY <1>1, <1>3, <1>5, <1>8 DEF Answers
  <2>2. Legal(run.operations, run.scenario.init, run.results.init, Fresh)
    BY <1>1, <1>8
  <2>3. QED
    BY <1>6, <2>1, <2>2, LinearizableIsCompletes DEF Truthful
<1>9. QED
  BY <1>7, <1>8

-----------------------------------------------------------------------------
(* The invariant.                                                          *)

Phases == {"generate", "init", "parallel", "post", "verify", "done"}
Running == {"init", "parallel", "post"}

\* An operation is under way
Live == {"called", "loaded", "thrown", "returned"}
Ats == Live \cup {"idle", "asleep", "next", "failing", "failed"}

SectionType ==
    [at : Ats, actor : Nat \ {0}, value : Values \cup {TimeoutValue}, invoked : Nat \ {0},
     loaded : States, results : Seq(Values), intervals : Seq(Interval)]

TypeOK ==
    /\ config \in Configs /\ phase \in Phases /\ invocation \in Nat
    /\ lists \in [Sections -> Seq(DOMAIN config.operations)]
    /\ object \in States /\ clock \in Nat \ {0} /\ expired \in BOOLEAN
    /\ section \in [Sections -> SectionType]
    /\ exception \in {"none", "timeout", "unexpected_exception"}

\* The intervals of a thread follow one another, and none ends after this clock
Orderly(intervals, limit) ==
    \A i \in 1 .. Len(intervals) :
        /\ intervals[i].invocation <= intervals[i].response
        /\ intervals[i].response <= limit
        /\ i > 1 => intervals[i - 1].response <= intervals[i].invocation

\* A section that has come to an actor has the results and the intervals of those before
Progress(sec, list) ==
    /\ Len(sec.results) = sec.actor - 1 /\ sec.actor <= Len(list) + 1
    /\ sec.at \in Live => sec.actor <= Len(list)
    /\ sec.at \notin {"failing", "failed"} => Len(sec.intervals) = sec.actor - 1

\* What is recorded happened in order; the operation under way began after it
Timely(sec, limit) ==
    /\ Orderly(sec.intervals, limit)
    /\ sec.at \in Live =>
          /\ sec.invoked <= limit
          /\ \A i \in 1 .. Len(sec.intervals) : sec.intervals[i].response <= sec.invoked

Fine(sec, list, limit, late, object_) ==
    /\ Progress(sec, list) /\ Timely(sec, limit)
    /\ sec.value = TimeoutValue => late
    /\ sec.at = "loaded" => object_ = "racy"

SectionsFine == \A s \in Sections : Fine(section[s], lists[s], clock, expired, config.object)

\* Which sections may be under way in which phase
Control ==
    /\ phase \in {"generate", "verify"} => \A s \in Sections : section[s] = Idle
    /\ phase = "init" => exception = "none" /\ \A s \in Sections \ {0} : section[s] = Idle
    /\ phase \in {"parallel", "post"} => Finished(0)
    /\ phase = "parallel" => section[Post] = Idle
    /\ phase = "post" => \A t \in Workers : Finished(t)
    /\ (phase = "parallel" /\ exception = "none") => \A t \in Workers : section[t].at # "failed"
    /\ phase = "generate" => invocation = 0
    /\ phase \in Running \cup {"verify"} => invocation \in 1 .. config.invocations

-----------------------------------------------------------------------------
(* The sections of a scenario.                                             *)

LEMMA ConfigFacts ==
    ASSUME TypeOK
    PROVE  /\ config.threads \in Nat \ {0} /\ Post = config.threads + 1
           /\ Sections = 0 .. Post /\ Workers = 1 .. config.threads
           /\ 0 \in Sections /\ Post \in Sections /\ Workers \subseteq Sections
           /\ 0 \notin Workers /\ Post \notin Workers /\ Post # 0
           /\ Workers \subseteq 1 .. MaxThreads
           /\ \A s \in Sections : s = 0 \/ s = Post \/ s \in Workers
           /\ config.object \in {"atomic", "racy"}
           /\ config.invocations \in Nat
           /\ config.operations \in Seq(OperationOptions)
<1>1. /\ config.threads \in 1 .. MaxThreads /\ MaxThreads \in Nat
      /\ config.object \in {"atomic", "racy"} /\ config.invocations \in Nat
      /\ config.operations \in Seq(OperationOptions)
  BY ConfigsAssumption DEF TypeOK
<1>2. QED
  BY <1>1 DEF Post, Sections, Workers

\* The operation a section is at
LEMMA OperationFacts ==
    ASSUME TypeOK, NEW s \in Sections, section[s].actor <= Len(lists[s])
    PROVE  Operation(s) \in OperationOptions /\ lists[s][section[s].actor] \in DOMAIN config.operations
<1>1. section[s].actor \in Nat \ {0} /\ lists[s] \in Seq(DOMAIN config.operations)
  BY DEF TypeOK, SectionType
<1>2. lists[s][section[s].actor] \in DOMAIN config.operations
  BY <1>1
<1>3. config.operations \in Seq(OperationOptions)
  BY ConfigFacts
<1>4. \A i \in DOMAIN config.operations : config.operations[i] \in OperationOptions
  BY <1>3
<1>5. QED
  BY <1>2, <1>4 DEF Operation

LEMMA SequentialFacts ==
    ASSUME TypeOK, NEW s \in Sections, section[s].actor <= Len(lists[s]), NEW state \in States
    PROVE  Sequential(Operation(s).name, state) \in [throws : BOOLEAN, value : Values, next : States]
<1>1. Operation(s).name \in Names
  BY OperationFacts DEF OperationOptions
<1>2. QED
  BY <1>1, SequentialAssumption

LEMMA IdleFacts ==
    /\ Idle \in SectionType /\ Idle.at = "idle"
    /\ \A list \in Seq(Nat) : \A limit, late, object_ : Fine(Idle, list, limit, late, object_)
<1>1. Idle \in SectionType /\ Idle.at = "idle" /\ Idle.value = Thrown
  BY SequentialAssumption DEF Idle, SectionType, Ats
<1>2. Thrown # TimeoutValue
  BY SequentialAssumption, TimeoutValueAssumption
<1>3. ASSUME NEW list \in Seq(Nat), NEW limit, NEW late, NEW object_
      PROVE  Fine(Idle, list, limit, late, object_)
  <2>1. Len(<<>>) = 0 /\ 1 .. 0 = {} /\ Len(list) \in Nat
    OBVIOUS
  <2>2. Progress(Idle, list)
    BY <2>1 DEF Idle, Progress, Live
  <2>3. Timely(Idle, limit)
    BY <2>1 DEF Idle, Timely, Orderly, Live
  <2>4. QED
    BY <1>1, <1>2, <2>2, <2>3 DEF Fine
<1>4. QED
  BY <1>1, <1>3

LEMMA SectionFacts ==
    ASSUME NEW sec \in SectionType
    PROVE  /\ sec.at \in Ats /\ sec.actor \in Nat \ {0} /\ sec.value \in Values \cup {TimeoutValue}
           /\ sec.invoked \in Nat \ {0} /\ sec.loaded \in States
           /\ sec.results \in Seq(Values) /\ sec.intervals \in Seq(Interval)
           /\ \A i \in 1 .. Len(sec.results) : sec.results[i] \in Values
           /\ \A i \in 1 .. Len(sec.intervals) : /\ sec.intervals[i] \in Interval
                                                 /\ sec.intervals[i].invocation \in Nat
                                                 /\ sec.intervals[i].response \in Nat
<1>1. /\ sec.at \in Ats /\ sec.actor \in Nat \ {0} /\ sec.value \in Values \cup {TimeoutValue}
      /\ sec.invoked \in Nat \ {0} /\ sec.loaded \in States
      /\ sec.results \in Seq(Values) /\ sec.intervals \in Seq(Interval)
  BY DEF SectionType
<1>2. PICK r, v : r = sec.results /\ v = sec.intervals
  OBVIOUS
<1>3. \A i \in 1 .. Len(r) : r[i] \in Values
  BY <1>1, <1>2
<1>4. \A i \in 1 .. Len(v) : v[i] \in Interval
  BY <1>1, <1>2
<1>5. \A i \in 1 .. Len(v) : v[i].invocation \in Nat /\ v[i].response \in Nat
  BY <1>4 DEF Interval
<1>6. QED
  BY <1>1, <1>2, <1>3, <1>4, <1>5

\* Time that passes harms nothing
LEMMA FineLater ==
    ASSUME NEW sec \in SectionType, NEW list, NEW limit \in Nat, NEW later \in Nat, limit <= later,
           NEW late \in BOOLEAN, NEW latest \in BOOLEAN, late => latest, NEW object_,
           Fine(sec, list, limit, late, object_)
    PROVE  Fine(sec, list, later, latest, object_)
<1>1. \A i \in 1 .. Len(sec.intervals) : sec.intervals[i].response \in Nat
  BY SectionFacts
<1>2. sec.invoked \in Nat
  BY SectionFacts
<1>3. Orderly(sec.intervals, limit) => Orderly(sec.intervals, later)
  BY <1>1 DEF Orderly
<1>4. QED
  BY <1>2, <1>3 DEF Fine, Timely

-----------------------------------------------------------------------------
(* The steps of an operation.                                              *)

\* One more interval, from an invocation after those before
LEMMA OrderlyAppend ==
    ASSUME NEW sec \in SectionType, NEW limit \in Nat, NEW later \in Nat \ {0}, limit <= later,
           Timely(sec, limit), sec.at \in Live
    PROVE  /\ Append(sec.intervals, [invocation |-> sec.invoked, response |-> later]) \in Seq(Interval)
           /\ Orderly(Append(sec.intervals, [invocation |-> sec.invoked, response |-> later]), later)
<1> DEFINE new == [invocation |-> sec.invoked, response |-> later]
           v == sec.intervals
           w == Append(v, new)
<1>1. /\ v \in Seq(Interval) /\ sec.invoked \in Nat \ {0}
      /\ \A i \in 1 .. Len(v) : v[i].invocation \in Nat /\ v[i].response \in Nat
  BY SectionFacts
<1>2. new \in Interval /\ new.invocation = sec.invoked /\ new.response = later
  BY <1>1 DEF Interval
<1>3. /\ sec.invoked <= limit
      /\ \A i \in 1 .. Len(v) : v[i].response <= sec.invoked
      /\ \A i \in 1 .. Len(v) : /\ v[i].invocation <= v[i].response /\ v[i].response <= limit
                                /\ i > 1 => v[i - 1].response <= v[i].invocation
  BY DEF Timely, Orderly
<1> HIDE DEF new, v
<1>4. /\ w \in Seq(Interval) /\ Len(w) = Len(v) + 1 /\ Len(v) \in Nat
      /\ w[Len(v) + 1] = new /\ \A i \in 1 .. Len(v) : w[i] = v[i]
  BY <1>1, <1>2
<1> HIDE DEF w
<1>5. ASSUME NEW i \in 1 .. Len(w)
      PROVE  /\ w[i].invocation <= w[i].response /\ w[i].response <= later
             /\ i > 1 => w[i - 1].response <= w[i].invocation
  <2>1. CASE i \in 1 .. Len(v)
    <3>1. w[i] = v[i] /\ (i > 1 => w[i - 1] = v[i - 1])
      BY <1>4, <2>1
    <3>2. QED
      BY <1>1, <1>3, <2>1, <3>1
  <2>2. CASE i = Len(v) + 1
    <3>1. w[i] = new /\ (i > 1 => i - 1 \in 1 .. Len(v) /\ w[i - 1] = v[i - 1])
      BY <1>4, <2>2
    <3>2. QED
      BY <1>1, <1>2, <1>3, <3>1
  <2>3. QED
    BY <1>4, <2>1, <2>2
<1>6. QED
  BY <1>4, <1>5 DEF w, v, new, Orderly

\* What a step of an operation does to its section, and to everything the sections share
Operated(s, sec, new) ==
    /\ new \in SectionType /\ section' = [section EXCEPT ![s] = new]
    /\ sec = section[s] /\ sec \in SectionType
    /\ Fine(new, lists[s], clock', expired, config.object)
    /\ sec.at \in Live \cup {"next"} /\ sec.actor <= Len(lists[s])
    /\ new.at \in Live \cup {"next", "failing"}
    /\ clock' \in Nat \ {0} /\ clock <= clock' /\ object' \in States

LEMMA SetSection ==
    ASSUME TypeOK, NEW s \in Sections
    PROVE  section[s] \in SectionType /\ lists[s] \in Seq(DOMAIN config.operations) /\ Len(lists[s]) \in Nat
  BY DEF TypeOK

LEMMA InvokeFacts ==
    ASSUME TypeOK, NEW s \in Sections, Fine(section[s], lists[s], clock, expired, config.object),
           Invoke(s)
    PROVE  \E sec, new :
              /\ Operated(s, sec, new) /\ sec.at = "next" /\ object' = object
              /\ new = [sec EXCEPT !.invoked = clock', !.value = IF expired THEN TimeoutValue ELSE @,
                                   !.at = IF expired THEN "failing" ELSE "called"]
<1>1. PICK sec \in SectionType : sec = section[s]
  BY SetSection
<1>2. PICK new : new = [sec EXCEPT !.invoked = clock', !.value = IF expired THEN TimeoutValue ELSE @,
                                   !.at = IF expired THEN "failing" ELSE "called"]
  OBVIOUS
<1>3. /\ sec.at = "next" /\ sec.actor <= Len(lists[s]) /\ object' = object
      /\ clock' \in {clock, clock + 1} /\ clock \in Nat \ {0} /\ expired \in BOOLEAN /\ object \in States
  BY <1>1 DEF Invoke, ReadClock, TypeOK
<1>4. section' = [section EXCEPT ![s] = new]
  BY <1>1, <1>2 DEF Invoke, TypeOK
<1>5. clock' \in Nat \ {0} /\ clock <= clock'
  BY <1>3
<1>6. /\ new \in SectionType
      /\ new.at = (IF expired THEN "failing" ELSE "called") /\ new.actor = sec.actor
      /\ new.invoked = clock' /\ new.results = sec.results /\ new.intervals = sec.intervals
      /\ new.value = (IF expired THEN TimeoutValue ELSE sec.value)
  BY <1>2, <1>3, <1>5 DEF SectionType, Ats, Live
<1>7. Progress(new, lists[s])
  BY <1>1, <1>3, <1>6 DEF Fine, Progress, Live
<1>8. Timely(new, clock')
  <2>1. \A i \in 1 .. Len(sec.intervals) : sec.intervals[i].response \in Nat
    BY SectionFacts
  <2>2. Orderly(sec.intervals, clock)
    BY <1>1 DEF Fine, Timely
  <2>3. Orderly(sec.intervals, clock') /\ \A i \in 1 .. Len(sec.intervals) : sec.intervals[i].response <= clock'
    <3>1. \A x \in Nat : x <= clock => x <= clock'
      BY <1>3, <1>5
    <3>2. QED
      BY <2>1, <2>2, <3>1 DEF Orderly
  <2>4. QED
    BY <1>5, <1>6, <2>3 DEF Timely
<1>9. Fine(new, lists[s], clock', expired, config.object)
  <2>1. sec.value = TimeoutValue => expired
    BY <1>1 DEF Fine
  <2>2. QED
    BY <1>6, <1>7, <1>8, <2>1 DEF Fine
<1>10. Operated(s, sec, new)
  BY <1>1, <1>3, <1>4, <1>5, <1>6, <1>9 DEF Operated, Live
<1>11. QED
  BY <1>2, <1>3, <1>10

\* An operation that goes on in its section, at the same time
LEMMA GoesOn ==
    ASSUME TypeOK, NEW s \in Sections, NEW sec \in SectionType, NEW new, NEW at \in Live,
           NEW value \in Values \cup {TimeoutValue}, NEW loaded \in States,
           Fine(sec, lists[s], clock, expired, config.object), sec = section[s], sec.at \in Live,
           new = [sec EXCEPT !.at = at, !.value = value, !.loaded = loaded],
           value = TimeoutValue => expired, at = "loaded" => config.object = "racy",
           section' = [section EXCEPT ![s] = new], clock' = clock, object' \in States
    PROVE  Operated(s, sec, new)
<1>1. /\ new \in SectionType /\ new.at = at /\ new.value = value /\ new.actor = sec.actor
      /\ new.invoked = sec.invoked /\ new.results = sec.results /\ new.intervals = sec.intervals
  BY DEF SectionType, Ats
<1>2. sec.actor <= Len(lists[s]) /\ clock \in Nat \ {0}
  BY DEF Fine, Progress, TypeOK
<1>3. Fine(new, lists[s], clock, expired, config.object)
  BY <1>1, <1>2 DEF Fine, Progress, Timely, Live
<1>4. QED
  BY <1>1, <1>2, <1>3 DEF Operated

\* Perform and Store give an answer of the sequential model, from this state
Answers_(s, sec, new, state, answer) ==
    /\ Operated(s, sec, new) /\ clock' = clock
    /\ answer = Sequential(Operation(s).name, state)
    /\ object' = answer.next
    /\ new = [sec EXCEPT !.at = IF answer.throws THEN "thrown" ELSE "returned",
                         !.value = IF answer.throws THEN Thrown ELSE answer.value]

LEMMA AnsweredFacts ==
    ASSUME TypeOK, NEW s \in Sections, Fine(section[s], lists[s], clock, expired, config.object),
           section[s].at \in Live, NEW state \in States, clock' = clock,
           Answered(s, Sequential(Operation(s).name, state)),
           object' = Sequential(Operation(s).name, state).next
    PROVE  \E sec, new, answer : Answers_(s, sec, new, state, answer)
<1>1. PICK sec \in SectionType : sec = section[s]
  BY SetSection
<1>2. sec.actor <= Len(lists[s])
  BY <1>1 DEF Fine, Progress
<1>3. PICK answer \in [throws : BOOLEAN, value : Values, next : States] :
          answer = Sequential(Operation(s).name, state)
  BY <1>1, <1>2, SequentialFacts
<1>4. PICK at, value : /\ at = (IF answer.throws THEN "thrown" ELSE "returned")
                       /\ value = (IF answer.throws THEN Thrown ELSE answer.value)
  OBVIOUS
<1>5. at \in Live /\ at # "loaded" /\ value \in Values /\ value # TimeoutValue
  BY <1>3, <1>4, SequentialAssumption, TimeoutValueAssumption DEF Live
<1>6. PICK new : new = [sec EXCEPT !.at = at, !.value = value, !.loaded = @]
  OBVIOUS
<1>7. new = [sec EXCEPT !.at = at, !.value = value] /\ sec.loaded \in States
  BY <1>6, SectionFacts DEF SectionType
<1>8. section' = [section EXCEPT ![s] = new]
  BY <1>1, <1>3, <1>4, <1>7 DEF Answered, TypeOK
<1>9. object' \in States
  BY <1>3
<1>10. Operated(s, sec, new)
  <2>1. new = [sec EXCEPT !.at = at, !.value = value, !.loaded = sec.loaded]
    BY <1>6
  <2>2. QED
    BY <1>1, <1>5, <1>7, <1>8, <1>9, <2>1, GoesOn
<1>11. QED
  BY <1>3, <1>4, <1>7, <1>10 DEF Answers_

LEMMA PerformFacts ==
    ASSUME TypeOK, NEW s \in Sections, Fine(section[s], lists[s], clock, expired, config.object),
           Perform(s)
    PROVE  config.object = "atomic" /\ \E sec, new, answer :
              Answers_(s, sec, new, object, answer) /\ sec.at = "called"
<1>1. section[s].at = "called" /\ config.object = "atomic" /\ object \in States
  BY DEF Perform, TypeOK
<1>2. /\ Answered(s, Sequential(Operation(s).name, object)) /\ clock' = clock
      /\ object' = Sequential(Operation(s).name, object).next
  BY DEF Perform
<1>3. PICK sec, new, answer : Answers_(s, sec, new, object, answer)
  BY <1>1, <1>2, AnsweredFacts DEF Live
<1>4. QED
  BY <1>1, <1>3 DEF Answers_, Operated

LEMMA StoreFacts ==
    ASSUME TypeOK, NEW s \in Sections, Fine(section[s], lists[s], clock, expired, config.object),
           Store(s)
    PROVE  config.object = "racy" /\ \E sec, new : Operated(s, sec, new)
<1>1. section[s].at = "loaded" /\ section[s].loaded \in States /\ config.object = "racy"
  BY SetSection, SectionFacts DEF Store, Fine
<1>2. /\ Answered(s, Sequential(Operation(s).name, section[s].loaded)) /\ clock' = clock
      /\ object' = Sequential(Operation(s).name, section[s].loaded).next
  BY DEF Store
<1>3. PICK sec, new, answer : Answers_(s, sec, new, section[s].loaded, answer)
  BY <1>1, <1>2, AnsweredFacts DEF Live
<1>4. QED
  BY <1>1, <1>3 DEF Answers_

LEMMA LoadFacts ==
    ASSUME TypeOK, NEW s \in Sections, Fine(section[s], lists[s], clock, expired, config.object),
           Load(s)
    PROVE  config.object = "racy" /\ \E sec, new : Operated(s, sec, new)
<1>1. PICK sec \in SectionType : sec = section[s]
  BY SetSection
<1>2. sec.at = "called" /\ config.object = "racy" /\ clock' = clock /\ object' = object /\ object \in States
  BY <1>1 DEF Load, TypeOK
<1>3. PICK new : new = [sec EXCEPT !.at = "loaded", !.value = sec.value, !.loaded = object]
  OBVIOUS
<1>4. section' = [section EXCEPT ![s] = new]
  <2>1. new = [sec EXCEPT !.at = "loaded", !.loaded = object]
    BY <1>3 DEF SectionType
  <2>2. QED
    BY <1>1, <2>1 DEF Load, TypeOK
<1>5. sec.value \in Values \cup {TimeoutValue} /\ (sec.value = TimeoutValue => expired)
  BY <1>1, SectionFacts DEF Fine
<1>6. sec.at \in Live /\ "loaded" \in Live
  BY <1>2 DEF Live
<1>7. Operated(s, sec, new)
  BY <1>1, <1>2, <1>3, <1>4, <1>5, <1>6, GoesOn
<1>8. QED
  BY <1>2, <1>7

LEMMA DieInsideFacts ==
    ASSUME TypeOK, NEW s \in Sections, Fine(section[s], lists[s], clock, expired, config.object),
           DieInside(s)
    PROVE  expired /\ \E sec, new : Operated(s, sec, new)
<1>1. PICK sec \in SectionType : sec = section[s]
  BY SetSection
<1>2. sec.at \in Live /\ expired /\ clock' = clock /\ object' = object /\ object \in States
  BY <1>1 DEF DieInside, TypeOK, Live
<1>3. PICK new : new = [sec EXCEPT !.at = "thrown", !.value = TimeoutValue, !.loaded = sec.loaded]
  OBVIOUS
<1>4. section' = [section EXCEPT ![s] = new]
  <2>1. new = [sec EXCEPT !.at = "thrown", !.value = TimeoutValue]
    BY <1>3 DEF SectionType
  <2>2. QED
    BY <1>1, <2>1 DEF DieInside, TypeOK
<1>5. sec.loaded \in States /\ "thrown" \in Live /\ "thrown" # "loaded"
  BY SectionFacts DEF Live
<1>6. Operated(s, sec, new)
  BY <1>1, <1>2, <1>3, <1>4, <1>5, GoesOn
<1>7. QED
  BY <1>2, <1>6

\* The interval of the operation under way, with a response at this time
Span(sec, time) == [invocation |-> sec.invoked, response |-> time]

\* Reading the clock
LEMMA ClockFacts ==
    ASSUME TypeOK, ReadClock
    PROVE  clock' \in Nat \ {0} /\ clock \in Nat \ {0} /\ clock <= clock'
<1>1. clock' \in {clock, clock + 1} /\ clock \in Nat \ {0}
  BY DEF ReadClock, TypeOK
<1>2. QED
  BY <1>1

\* A section that dies with or without the interval of its operation
LEMMA Dies ==
    ASSUME TypeOK, NEW s \in Sections, NEW sec \in SectionType, NEW new,
           NEW value \in Values \cup {TimeoutValue}, NEW intervals \in {sec.intervals, Append(sec.intervals, Span(sec, clock'))},
           Fine(sec, lists[s], clock, expired, config.object), sec = section[s], sec.at \in Live,
           new = [sec EXCEPT !.at = "failing", !.value = value, !.intervals = intervals],
           value = TimeoutValue => expired,
           section' = [section EXCEPT ![s] = new], ReadClock, object' = object
    PROVE  Operated(s, sec, new)
<1>1. clock' \in Nat \ {0} /\ clock \in Nat \ {0} /\ clock <= clock' /\ object' \in States
  BY ClockFacts DEF TypeOK
<1>2. Progress(sec, lists[s]) /\ Timely(sec, clock) /\ sec.actor <= Len(lists[s])
  BY DEF Fine, Progress
<1>3. intervals \in Seq(Interval) /\ Orderly(intervals, clock')
  <2>1. /\ Append(sec.intervals, Span(sec, clock')) \in Seq(Interval)
        /\ Orderly(Append(sec.intervals, Span(sec, clock')), clock')
    BY <1>1, <1>2, OrderlyAppend DEF Span
  <2>2. sec.intervals \in Seq(Interval)
    BY SectionFacts
  <2>3. Orderly(sec.intervals, clock')
    <3>1. Fine(sec, lists[s], clock', expired, config.object)
      BY <1>1, FineLater DEF TypeOK
    <3>2. QED
      BY <3>1 DEF Fine, Timely
  <2>4. QED
    BY <2>1, <2>2, <2>3
<1>4. /\ new \in SectionType /\ new.at = "failing" /\ new.actor = sec.actor /\ new.value = value
      /\ new.results = sec.results /\ new.intervals = intervals
  BY <1>3 DEF SectionType, Ats
<1>5. Progress(new, lists[s])
  BY <1>2, <1>4 DEF Progress, Live
<1>6. Timely(new, clock')
  BY <1>3, <1>4 DEF Timely, Live
<1>7. QED
  BY <1>1, <1>2, <1>4, <1>5, <1>6 DEF Operated, Fine

LEMMA CatchFacts ==
    ASSUME TypeOK, NEW s \in Sections, Fine(section[s], lists[s], clock, expired, config.object),
           Catch(s)
    PROVE  object' = object /\ \E sec, new :
              /\ Operated(s, sec, new) /\ sec.at = "thrown"
              /\ \/ /\ Operation(s).exceptionResults /\ clock' = clock
                    /\ new = [sec EXCEPT !.at = "returned"]
                 \/ ~Operation(s).exceptionResults /\ new.at = "failing"
<1>1. PICK sec \in SectionType : sec = section[s]
  BY SetSection
<1>2. sec.at = "thrown" /\ object' = object /\ object \in States /\ sec.at \in Live
  BY <1>1 DEF Catch, TypeOK, Live
<1>3. sec.value \in Values \cup {TimeoutValue} /\ sec.loaded \in States /\ (sec.value = TimeoutValue => expired)
  BY <1>1, SectionFacts DEF Fine
<1>4. CASE Operation(s).exceptionResults
  <2>1. PICK new : new = [sec EXCEPT !.at = "returned", !.value = sec.value, !.loaded = sec.loaded]
    OBVIOUS
  <2>2. new = [sec EXCEPT !.at = "returned"]
    BY <2>1 DEF SectionType
  <2>3. section' = [section EXCEPT ![s] = new] /\ clock' = clock
    BY <1>1, <1>4, <2>2 DEF Catch, TypeOK
  <2>4. "returned" \in Live /\ "returned" # "loaded"
    BY DEF Live
  <2>5. Operated(s, sec, new)
    BY <1>1, <1>2, <1>3, <2>1, <2>3, <2>4, GoesOn
  <2>6. QED
    BY <1>2, <1>4, <2>2, <2>3, <2>5
<1>5. CASE ~Operation(s).exceptionResults
  <2>1. PICK new : new = [sec EXCEPT !.at = "failing", !.value = sec.value,
                                     !.intervals = Append(sec.intervals, Span(sec, clock'))]
    OBVIOUS
  <2>2. section' = [section EXCEPT ![s] = new] /\ ReadClock
    <3>1. new = [sec EXCEPT !.at = "failing", !.intervals = Append(@, [invocation |-> sec.invoked, response |-> clock'])]
      BY <2>1 DEF SectionType, Span
    <3>2. QED
      BY <1>1, <1>5, <3>1 DEF Catch, TypeOK
  <2>3. Operated(s, sec, new)
    BY <1>1, <1>2, <1>3, <2>1, <2>2, Dies
  <2>4. new.at = "failing"
    BY <2>1 DEF SectionType
  <2>5. QED
    BY <1>2, <1>5, <2>3, <2>4
<1>6. QED
  BY <1>4, <1>5

\* The section of an operation that is over
Over(sec, time) ==
    [sec EXCEPT !.at = "next", !.actor = @ + 1, !.results = Append(@, sec.value),
                !.intervals = Append(@, Span(sec, time))]

LEMMA RespondFacts ==
    ASSUME TypeOK, NEW s \in Sections, Fine(section[s], lists[s], clock, expired, config.object),
           Respond(s)
    PROVE  object' = object /\ \E sec, new :
              /\ Operated(s, sec, new) /\ sec.at = "returned"
              /\ \/ expired /\ new.at = "failing"
                 \/ ~expired /\ new = Over(sec, clock')
<1>1. PICK sec \in SectionType : sec = section[s]
  BY SetSection
<1>2. /\ sec.at = "returned" /\ object' = object /\ object \in States /\ ReadClock /\ sec.at \in Live
      /\ expired \in BOOLEAN
  BY <1>1 DEF Respond, TypeOK, Live
<1>3. CASE expired
  <2>1. PICK new : new = [sec EXCEPT !.at = "failing", !.value = TimeoutValue, !.intervals = sec.intervals]
    OBVIOUS
  <2>2. section' = [section EXCEPT ![s] = new]
    <3>1. new = [sec EXCEPT !.at = "failing", !.value = TimeoutValue]
      BY <2>1 DEF SectionType
    <3>2. QED
      BY <1>1, <1>3, <3>1 DEF Respond, TypeOK
  <2>3. Operated(s, sec, new)
    BY <1>1, <1>2, <1>3, <2>1, <2>2, Dies
  <2>4. new.at = "failing"
    BY <2>1 DEF SectionType
  <2>5. QED
    BY <1>2, <1>3, <2>3, <2>4
<1>4. CASE ~expired
  <2>1. PICK new : new = Over(sec, clock')
    OBVIOUS
  <2>2. section' = [section EXCEPT ![s] = new]
    <3>1. /\ section \in [Sections -> SectionType]
          /\ section' = [section EXCEPT
                           ![s].at = "next", ![s].actor = @ + 1,
                           ![s].results = Append(@, section[s].value),
                           ![s].intervals = Append(@, [invocation |-> section[s].invoked,
                                                       response |-> clock'])]
      BY <1>4 DEF Respond, TypeOK
    <3>2. QED
      BY <1>1, <2>1, <3>1 DEF Over, Span
  <2>3. clock' \in Nat \ {0} /\ clock \in Nat \ {0} /\ clock <= clock'
    BY <1>2, ClockFacts
  <2>4. Progress(sec, lists[s]) /\ Timely(sec, clock) /\ sec.value # TimeoutValue
    BY <1>1, <1>4 DEF Fine
  <2>5. PICK v : v = Append(sec.intervals, Span(sec, clock'))
    OBVIOUS
  <2>6. v \in Seq(Interval) /\ Orderly(v, clock')
    BY <1>2, <2>3, <2>4, <2>5, OrderlyAppend DEF Span
  <2>7. /\ sec.results \in Seq(Values) /\ sec.value \in Values /\ sec.intervals \in Seq(Interval)
        /\ sec.actor \in Nat \ {0} /\ Len(lists[s]) \in Nat
    BY <2>4, SectionFacts, SetSection
  <2>8. PICK r : r = Append(sec.results, sec.value)
    OBVIOUS
  <2>9. r \in Seq(Values) /\ Len(r) = Len(sec.results) + 1 /\ Len(v) = Len(sec.intervals) + 1
    BY <2>5, <2>7, <2>8
  <2>10. /\ new \in SectionType /\ new.at = "next" /\ new.actor = sec.actor + 1
         /\ new.results = r /\ new.intervals = v /\ new.value = sec.value
    <3>1. new = [sec EXCEPT !.at = "next", !.actor = sec.actor + 1, !.results = r, !.intervals = v]
      BY <2>1, <2>5, <2>8 DEF Over
    <3>2. sec.actor + 1 \in Nat \ {0}
      BY <2>7
    <3>3. QED
      BY <2>6, <2>9, <3>1, <3>2 DEF SectionType, Ats
  <2>11. Progress(new, lists[s])
    BY <1>2, <2>4, <2>7, <2>9, <2>10 DEF Progress, Live
  <2>12. Timely(new, clock')
    BY <2>6, <2>10 DEF Timely, Live
  <2>13. Operated(s, sec, new)
    BY <1>1, <1>2, <2>2, <2>3, <2>4, <2>10, <2>11, <2>12 DEF Operated, Fine, Progress
  <2>14. QED
    BY <1>2, <1>4, <2>1, <2>13
<1>5. QED
  BY <1>2, <1>3, <1>4

LEMMA OperateFacts ==
    ASSUME TypeOK, NEW s \in Sections, Fine(section[s], lists[s], clock, expired, config.object),
           Operate(s)
    PROVE  (\E sec, new : Operated(s, sec, new)) /\ RunUnchanged
<1>1. CASE Invoke(s)
  BY <1>1, InvokeFacts DEF Invoke
<1>2. CASE Perform(s)
  BY <1>2, PerformFacts DEF Perform, Answers_
<1>3. CASE Load(s)
  BY <1>3, LoadFacts DEF Load
<1>4. CASE Store(s)
  BY <1>4, StoreFacts DEF Store
<1>5. CASE DieInside(s)
  BY <1>5, DieInsideFacts DEF DieInside
<1>6. CASE Catch(s)
  BY <1>6, CatchFacts DEF Catch
<1>7. CASE Respond(s)
  BY <1>7, RespondFacts DEF Respond
<1>8. QED
  BY <1>1, <1>2, <1>3, <1>4, <1>5, <1>6, <1>7 DEF Operate

-----------------------------------------------------------------------------
(* Every step keeps the invariant.                                         *)

ResultsIn(s) == CASE s = 0 -> execution.results.init
                  [] s = Post -> execution.results.post
                  [] OTHER -> execution.results.parallel[s]

\* A run that is judged has every result and every interval
WholeExecution ==
    phase = "verify" =>
        \A s \in Sections :
            /\ ResultsIn(s) \in Seq(Values) /\ execution.intervals[s] \in Seq(Interval)
            /\ Len(ResultsIn(s)) = Len(lists[s]) /\ Len(execution.intervals[s]) = Len(lists[s])
            /\ Orderly(execution.intervals[s], clock)

RunInv == TypeOK /\ SectionsFine /\ Control /\ WholeExecution

LEMMA SameConfig ==
    ASSUME config' = config
    PROVE  Sections' = Sections /\ Post' = Post /\ Workers' = Workers
  BY DEF Sections, Post, Workers

\* TypeOK and SectionsFine after a step that leaves the scenario alone
LEMMA FineStep ==
    ASSUME TypeOK, UNCHANGED <<config, invocation, lists>>, phase' \in Phases, expired' \in BOOLEAN,
           object' \in States, clock' \in Nat \ {0},
           exception' \in {"none", "timeout", "unexpected_exception"},
           section' \in [Sections -> SectionType],
           \A s \in Sections : Fine(section'[s], lists[s], clock', expired', config.object)
    PROVE  TypeOK' /\ SectionsFine'
<1>1. Sections' = Sections /\ lists' = lists /\ config' = config /\ invocation' = invocation
  BY SameConfig
<1>2. TypeOK'
  BY <1>1 DEF TypeOK
<1>3. SectionsFine'
  BY <1>1 DEF SectionsFine
<1>4. QED
  BY <1>2, <1>3

\* A step of one section, in the phase that is its own
LEMMA OneSection ==
    ASSUME RunInv, UNCHANGED <<config, phase, invocation, lists, expired, execution>>, NEW s \in Sections,
           NEW new \in SectionType, section' = [section EXCEPT ![s] = new],
           Fine(new, lists[s], clock', expired, config.object),
           object' \in States, clock' \in Nat \ {0}, clock <= clock',
           exception' \in {"none", "timeout", "unexpected_exception"},
           \/ phase = "init" /\ s = 0 /\ exception' = exception
           \/ phase \in {"parallel", "done"} /\ s \in Workers
                 /\ ((exception' = "none" /\ phase = "parallel") => exception = "none" /\ new.at # "failed")
           \/ phase = "post" /\ s = Post
    PROVE  RunInv'
<1>1. /\ TypeOK /\ SectionsFine /\ Control
      /\ phase \in Phases /\ expired \in BOOLEAN /\ clock \in Nat /\ section \in [Sections -> SectionType]
  BY DEF RunInv, TypeOK
<1>2. \A u \in Sections : section'[u] = IF u = s THEN new ELSE section[u]
  BY <1>1
<1>3. section' \in [Sections -> SectionType]
  BY <1>1
<1>4. ASSUME NEW u \in Sections PROVE Fine(section'[u], lists[u], clock', expired, config.object)
  <2>1. CASE u = s
    BY <1>2, <2>1
  <2>2. CASE u # s
    <3>1. section[u] \in SectionType /\ Fine(section[u], lists[u], clock, expired, config.object)
      BY <1>1 DEF SectionsFine
    <3>2. Fine(section[u], lists[u], clock', expired, config.object)
      BY <1>1, <3>1, FineLater
    <3>3. QED
      BY <1>2, <2>2, <3>2
  <2>3. QED
    BY <2>1, <2>2
<1>5. TypeOK' /\ SectionsFine'
  BY <1>1, <1>3, <1>4, FineStep
<1>6. Control'
  <2>1. /\ Sections' = Sections /\ Post' = Post /\ Workers' = Workers /\ lists' = lists
        /\ phase' = phase /\ invocation' = invocation /\ config' = config
    BY SameConfig
  <2>2. 0 \in Sections /\ Post \in Sections /\ Workers \subseteq Sections /\ 0 \notin Workers /\ Post \notin Workers /\ Post # 0
    BY <1>1, ConfigFacts
  <2>3. CASE phase = "init" /\ s = 0 /\ exception' = exception
    BY <1>1, <1>2, <2>1, <2>2, <2>3 DEF Control, Finished, Running
  <2>4. CASE phase = "parallel" /\ s \in Workers
    <3>1. Finished(0) /\ section[Post] = Idle /\ invocation \in 1 .. config.invocations
          /\ (exception = "none" => \A t \in Workers : section[t].at # "failed")
      BY <1>1, <2>4 DEF Control, Running
    <3>2. Finished(0)' /\ section'[Post] = Idle
      BY <1>2, <2>1, <2>2, <2>4, <3>1 DEF Finished
    <3>3. exception' = "none" => \A t \in Workers : section'[t].at # "failed"
      BY <1>2, <2>2, <2>4, <3>1
    <3>4. QED
      BY <2>1, <2>4, <3>1, <3>2, <3>3 DEF Control, Running
  <2>5. CASE phase = "done"
    BY <2>1, <2>5 DEF Control, Running
  <2>6. CASE phase = "post" /\ s = Post
    BY <1>1, <1>2, <2>1, <2>2, <2>6 DEF Control, Finished, Running
  <2>7. QED
    BY <2>3, <2>4, <2>5, <2>6
<1>7. WholeExecution'
  BY DEF WholeExecution
<1>8. QED
  BY <1>5, <1>6, <1>7 DEF RunInv

\* An operation goes on only in the phase of its section
LEMMA OperatePhase ==
    ASSUME RunInv, NEW s \in Sections, Operate(s),
           \/ phase = "init" /\ s = 0
           \/ phase = "post" /\ s = Post
           \/ s \in Workers
    PROVE  /\ \E sec, new : Operated(s, sec, new)
           /\ RunUnchanged
           /\ \/ phase = "init" /\ s = 0
              \/ phase = "post" /\ s = Post
              \/ phase \in {"parallel", "done"} /\ s \in Workers
<1>1. TypeOK /\ SectionsFine /\ Control /\ phase \in Phases
  BY DEF RunInv, TypeOK
<1>2. PICK sec, new : Operated(s, sec, new)
  BY <1>1, OperateFacts DEF SectionsFine
<1>3. /\ section[s].at \in Live \cup {"next"} /\ section[s].actor <= Len(lists[s])
      /\ section[s].actor \in Nat /\ Len(lists[s]) \in Nat
  BY <1>1, <1>2, SetSection, SectionFacts DEF Operated
<1>4. section[s] # Idle /\ ~Finished(s)
  BY <1>3, IdleFacts DEF Finished, Live
<1>5. s \in Workers => s # 0
  BY <1>1, ConfigFacts
<1>6. QED
  BY <1>1, <1>2, <1>4, <1>5, OperateFacts DEF Control, SectionsFine, Phases

LEMMA OperateKeeps ==
    ASSUME RunInv, NEW s \in Sections, Operate(s),
           \/ phase = "init" /\ s = 0
           \/ phase = "post" /\ s = Post
           \/ s \in Workers
    PROVE  RunInv'
<1>1. PICK sec, new : Operated(s, sec, new)
  BY OperatePhase
<1>2. /\ new \in SectionType /\ section' = [section EXCEPT ![s] = new]
      /\ Fine(new, lists[s], clock', expired, config.object) /\ new.at # "failed"
      /\ object' \in States /\ clock' \in Nat \ {0} /\ clock <= clock'
  BY <1>1 DEF Operated, Live
<1>3. /\ UNCHANGED <<config, phase, invocation, lists, expired, execution>>
      /\ exception' = exception /\ exception \in {"none", "timeout", "unexpected_exception"}
  BY OperatePhase DEF RunUnchanged, RunInv, TypeOK
<1>4. \/ phase = "init" /\ s = 0
      \/ phase = "post" /\ s = Post
      \/ phase \in {"parallel", "done"} /\ s \in Workers
  BY OperatePhase
<1>5. QED
  BY <1>2, <1>3, <1>4, OneSection

\* A section that only changes where it is, and is not in an operation
LEMMA Moves ==
    ASSUME NEW sec \in SectionType, NEW at \in Ats \ Live, NEW list, NEW limit, NEW late, NEW object_,
           Fine(sec, list, limit, late, object_), sec.at \notin {"failing", "failed"} \/ at \in {"failing", "failed"}
    PROVE  /\ [sec EXCEPT !.at = at] \in SectionType /\ [sec EXCEPT !.at = at].at = at
           /\ Fine([sec EXCEPT !.at = at], list, limit, late, object_)
<1>1. PICK new : new = [sec EXCEPT !.at = at]
  OBVIOUS
<1>2. /\ new \in SectionType /\ new.at = at /\ new.actor = sec.actor /\ new.value = sec.value
      /\ new.results = sec.results /\ new.intervals = sec.intervals
  BY <1>1 DEF SectionType
<1>3. Fine(new, list, limit, late, object_)
  BY <1>2 DEF Fine, Progress, Timely, Live
<1>4. QED
  BY <1>1, <1>2, <1>3

LEMMA ArriveKeeps ==
    ASSUME RunInv, NEW t \in Workers, Arrive(t)
    PROVE  RunInv'
<1>1. TypeOK /\ SectionsFine /\ t \in Sections
  BY ConfigFacts DEF RunInv
<1>2. PICK sec \in SectionType : sec = section[t]
  BY <1>1, SetSection
<1>3. PICK at : at = IF start.flag THEN "next" ELSE "asleep"
  OBVIOUS
<1>4. /\ sec.at = "idle" /\ phase = "parallel" /\ at \in Ats \ Live /\ at # "failed"
      /\ UNCHANGED <<config, phase, invocation, lists, expired, execution, clock, object, exception>>
  BY <1>2, <1>3 DEF Arrive, Ats, Live
<1>5. PICK new : new = [sec EXCEPT !.at = at]
  OBVIOUS
<1>6. section' = [section EXCEPT ![t] = new]
  BY <1>1, <1>2, <1>3, <1>5 DEF Arrive, TypeOK
<1>7. Fine(sec, lists[t], clock, expired, config.object)
  BY <1>1, <1>2 DEF SectionsFine
<1>8. new \in SectionType /\ new.at = at /\ Fine(new, lists[t], clock, expired, config.object)
  BY <1>4, <1>5, <1>7, Moves
<1>9. /\ object' \in States /\ clock' \in Nat \ {0} /\ clock <= clock' /\ clock' = clock
      /\ exception' \in {"none", "timeout", "unexpected_exception"}
  BY <1>1, <1>4 DEF TypeOK
<1>10. QED
  BY <1>1, <1>4, <1>6, <1>8, <1>9, OneSection

LEMMA KeepKeeps ==
    ASSUME RunInv, NEW t \in Workers, Keep(t)
    PROVE  RunInv'
<1>1. TypeOK /\ SectionsFine /\ t \in Sections
  BY ConfigFacts DEF RunInv
<1>2. PICK sec \in SectionType : sec = section[t]
  BY <1>1, SetSection
<1>3. /\ sec.at = "failing" /\ phase = "parallel" /\ "failed" \in Ats \ Live
      /\ UNCHANGED <<config, phase, invocation, lists, expired, execution, clock, object>>
      /\ exception' = Kept(t)
  BY <1>2 DEF Keep, Ats, Live
<1>4. PICK new : new = [sec EXCEPT !.at = "failed"]
  OBVIOUS
<1>5. section' = [section EXCEPT ![t] = new]
  BY <1>1, <1>2, <1>4 DEF Keep, TypeOK
<1>6. Fine(sec, lists[t], clock, expired, config.object)
  BY <1>1, <1>2 DEF SectionsFine
<1>7. new \in SectionType /\ Fine(new, lists[t], clock, expired, config.object)
  BY <1>3, <1>4, <1>6, Moves
<1>8. exception' # "none" /\ exception' \in {"none", "timeout", "unexpected_exception"}
  BY <1>1, <1>3 DEF Kept, Failure, TypeOK
<1>9. object' \in States /\ clock' \in Nat \ {0} /\ clock <= clock' /\ clock' = clock
  BY <1>1, <1>3 DEF TypeOK
<1>10. QED
  BY <1>1, <1>3, <1>5, <1>7, <1>8, <1>9, OneSection

\* A step that leaves the sections alone
LEMMA SameSections ==
    ASSUME RunInv, UNCHANGED <<config, invocation, lists, section, object, clock, exception>>,
           phase' \in Phases, expired' \in BOOLEAN, expired => expired', Control', WholeExecution'
    PROVE  RunInv'
<1>1. /\ TypeOK /\ SectionsFine /\ clock \in Nat \ {0} /\ expired \in BOOLEAN /\ object \in States
      /\ section \in [Sections -> SectionType] /\ exception \in {"none", "timeout", "unexpected_exception"}
  BY DEF RunInv, TypeOK
<1>2. ASSUME NEW s \in Sections PROVE Fine(section[s], lists[s], clock, expired', config.object)
  <2>1. Fine(section[s], lists[s], clock, expired, config.object) /\ section[s] \in SectionType
    BY <1>1 DEF SectionsFine
  <2>2. QED
    BY <1>1, <2>1, FineLater
<1>3. TypeOK' /\ SectionsFine'
  BY <1>1, <1>2, FineStep
<1>4. QED
  BY <1>3 DEF RunInv

LEMMA FailSectionKeeps ==
    ASSUME RunInv, NEW s \in Sections, FailSection(s)
    PROVE  RunInv'
<1>1. /\ UNCHANGED <<config, invocation, lists, section, object, clock, exception>>
      /\ phase' = "done" /\ expired' = expired
  BY DEF FailSection, Finish, MainUnchanged
<1>2. phase' \in Phases /\ expired' \in BOOLEAN /\ Control' /\ WholeExecution'
  BY <1>1 DEF Phases, Control, Running, WholeExecution, RunInv, TypeOK
<1>3. QED
  BY <1>1, <1>2, SameSections

LEMMA EndInitKeeps ==
    ASSUME RunInv, EndInit
    PROVE  RunInv'
<1>1. /\ UNCHANGED <<config, invocation, lists, section, object, clock, exception>>
      /\ phase' \in {"done", "parallel"} /\ expired' = expired /\ phase = "init" /\ Finished(0)
  BY DEF EndInit, Finish, MainUnchanged
<1>2. TypeOK /\ Control
  BY DEF RunInv
<1>3. /\ \A s \in Sections \ {0} : section[s] = Idle
      /\ exception = "none" /\ invocation \in 1 .. config.invocations
  BY <1>1, <1>2 DEF Control, Running
<1>4. section[Post] = Idle /\ \A t \in Workers : section[t].at # "failed"
  BY <1>2, <1>3, ConfigFacts, IdleFacts
<1>5. Control'
  <2>1. Sections' = Sections /\ Post' = Post /\ Workers' = Workers
    BY <1>1, SameConfig
  <2>2. QED
    BY <1>1, <1>3, <1>4, <2>1 DEF Control, Running, Finished
<1>6. phase' \in Phases /\ expired' \in BOOLEAN /\ WholeExecution'
  BY <1>1, <1>2 DEF Phases, WholeExecution, TypeOK
<1>7. QED
  BY <1>1, <1>5, <1>6, SameSections

LEMMA StartKeeps ==
    ASSUME RunInv, Start
    PROVE  RunInv'
<1>1. /\ UNCHANGED <<config, invocation, lists, section, object, clock, exception, execution>>
      /\ phase' = phase /\ expired' = expired /\ phase = "parallel"
  BY DEF Start, MainUnchanged
<1>2. TypeOK /\ Control
  BY DEF RunInv
<1>3. Control'
  <2>1. Sections' = Sections /\ Post' = Post /\ Workers' = Workers
    BY <1>1, SameConfig
  <2>2. QED
    BY <1>1, <1>2, <2>1 DEF Control, Running, Finished
<1>4. phase' \in Phases /\ expired' \in BOOLEAN /\ WholeExecution'
  BY <1>1, <1>2 DEF Phases, WholeExecution, TypeOK
<1>5. QED
  BY <1>1, <1>3, <1>4, SameSections

LEMMA DeadlinePassesKeeps ==
    ASSUME RunInv, DeadlinePasses
    PROVE  RunInv'
<1>1. /\ UNCHANGED <<config, invocation, lists, section, object, clock, exception, execution>>
      /\ phase' = phase /\ expired'
  BY DEF DeadlinePasses
<1>2. TypeOK /\ Control /\ WholeExecution /\ expired' \in BOOLEAN
  BY <1>1 DEF RunInv, DeadlinePasses
<1>3. Sections' = Sections /\ Post' = Post /\ Workers' = Workers
  BY <1>1, SameConfig
<1>4. Control'
  BY <1>1, <1>2, <1>3 DEF Control, Running, Finished
<1>5. WholeExecution'
  BY <1>1, <1>2, <1>3 DEF WholeExecution, ResultsIn
<1>6. phase' \in Phases
  BY <1>1, <1>2 DEF TypeOK
<1>7. QED
  BY <1>1, <1>2, <1>4, <1>5, <1>6, SameSections

LEMMA NotifyAllKeeps ==
    ASSUME RunInv, NotifyAll
    PROVE  RunInv'
<1>1. /\ UNCHANGED <<config, phase, invocation, lists, object, clock, expired, exception, execution>>
      /\ phase = "parallel"
      /\ section' = [s \in Sections |->
                      IF section[s].at = "asleep" THEN [section[s] EXCEPT !.at = "next"] ELSE section[s]]
  BY DEF NotifyAll, MainUnchanged
<1>2. TypeOK /\ SectionsFine /\ Control
  BY DEF RunInv
<1>3. ASSUME NEW s \in Sections
      PROVE  /\ section'[s] \in SectionType
             /\ Fine(section'[s], lists[s], clock, expired, config.object)
             /\ section'[s].at = "failed" => section[s].at = "failed"
  <2>1. section[s] \in SectionType /\ Fine(section[s], lists[s], clock, expired, config.object)
    BY <1>2 DEF TypeOK, SectionsFine
  <2>2. "next" \in Ats \ Live
    BY DEF Ats, Live
  <2>3. CASE section[s].at = "asleep"
    <3>1. section'[s] = [section[s] EXCEPT !.at = "next"]
      BY <1>1, <2>3
    <3>2. QED
      BY <2>1, <2>2, <2>3, <3>1, Moves
  <2>4. CASE section[s].at # "asleep"
    BY <1>1, <2>1, <2>4
  <2>5. QED
    BY <2>3, <2>4
<1>4. section' \in [Sections -> SectionType]
  BY <1>1, <1>3
<1>5. TypeOK' /\ SectionsFine'
  BY <1>1, <1>2, <1>3, <1>4, FineStep DEF TypeOK
<1>6. Control'
  <2>1. Sections' = Sections /\ Post' = Post /\ Workers' = Workers
    BY <1>1, SameConfig
  <2>2. section'[0] = section[0] /\ section'[Post] = section[Post]
    BY <1>1, <1>2, ConfigFacts, IdleFacts DEF Control, Finished
  <2>3. exception = "none" => \A t \in Workers : section'[t].at # "failed"
    BY <1>1, <1>2, <1>3, ConfigFacts DEF Control
  <2>4. QED
    BY <1>1, <1>2, <2>1, <2>2, <2>3 DEF Control, Running, Finished
<1>7. WholeExecution'
  BY <1>1 DEF WholeExecution
<1>8. QED
  BY <1>5, <1>6, <1>7 DEF RunInv

LEMMA JoinKeeps ==
    ASSUME RunInv, Join
    PROVE  RunInv'
<1>1. /\ UNCHANGED <<config, invocation, lists, object, clock, expired, exception, execution>>
      /\ phase = "parallel" /\ \A t \in Workers : Finished(t) \/ section[t].at = "failed"
  BY DEF Join, MainUnchanged
<1>2. TypeOK /\ SectionsFine /\ Control
  BY DEF RunInv
<1>3. CASE phase' = "done" /\ section' = section
  <2>1. phase' \in Phases /\ expired' \in BOOLEAN /\ Control' /\ WholeExecution'
    BY <1>1, <1>2, <1>3 DEF Phases, Control, Running, WholeExecution, TypeOK
  <2>2. QED
    BY <1>1, <1>3, <2>1, SameSections
<1>4. CASE /\ exception = "none" /\ phase' = "post"
           /\ section' = [section EXCEPT ![Post].at = "next"]
  <2>1. /\ Finished(0) /\ section[Post] = Idle /\ invocation \in 1 .. config.invocations
        /\ \A t \in Workers : Finished(t)
    BY <1>1, <1>2, <1>4 DEF Control, Running
  <2>2. PICK new : new = [Idle EXCEPT !.at = "next"]
    OBVIOUS
  <2>3. new \in SectionType /\ Fine(new, lists[Post], clock, expired, config.object)
    <3>1. "next" \in Ats \ Live
      BY DEF Ats, Live
    <3>2. Fine(Idle, lists[Post], clock, expired, config.object)
      BY <1>2, <2>1, ConfigFacts DEF SectionsFine
    <3>3. QED
      BY <2>2, <3>1, <3>2, IdleFacts, Moves
  <2>4. section' = [section EXCEPT ![Post] = new]
    BY <1>2, <1>4, <2>1, <2>2, ConfigFacts DEF TypeOK
  <2>5. \A s \in Sections : section'[s] = IF s = Post THEN new ELSE section[s]
    BY <1>2, <2>4 DEF TypeOK
  <2>6. section' \in [Sections -> SectionType]
    BY <1>2, <2>3, <2>4 DEF TypeOK
  <2>7. \A s \in Sections : Fine(section'[s], lists[s], clock, expired, config.object)
    BY <1>2, <2>3, <2>5 DEF SectionsFine
  <2>8. TypeOK' /\ SectionsFine'
    BY <1>1, <1>2, <1>4, <2>6, <2>7, FineStep DEF TypeOK, Phases
  <2>9. Control'
    <3>1. Sections' = Sections /\ Post' = Post /\ Workers' = Workers
      BY <1>1, SameConfig
    <3>2. \A s \in Sections \ {Post} : section'[s] = section[s]
      BY <2>5
    <3>3. /\ Workers \subseteq Sections \ {Post} /\ 0 \in Sections \ {Post}
      BY <1>2, ConfigFacts
    <3>4. Finished(0)' /\ \A t \in Workers : Finished(t)'
      BY <1>1, <2>1, <3>2, <3>3 DEF Finished
    <3>5. QED
      BY <1>1, <1>4, <2>1, <3>1, <3>4 DEF Control, Running
  <2>10. WholeExecution'
    BY <1>4 DEF WholeExecution
  <2>11. QED
    BY <2>8, <2>9, <2>10 DEF RunInv
<1>5. QED
  BY <1>3, <1>4 DEF Join, Finish

\* What a section that is finished has gathered
LEMMA FinishedFacts ==
    ASSUME RunInv, NEW s \in Sections, Finished(s)
    PROVE  /\ section[s].results \in Seq(Values) /\ section[s].intervals \in Seq(Interval)
           /\ Len(section[s].results) = Len(lists[s]) /\ Len(section[s].intervals) = Len(lists[s])
           /\ Orderly(section[s].intervals, clock)
           /\ section[s].actor = Len(lists[s]) + 1
<1>1. PICK sec \in SectionType : sec = section[s] /\ Fine(sec, lists[s], clock, expired, config.object)
  BY DEF RunInv, TypeOK, SectionsFine
<1>2. Len(lists[s]) \in Nat /\ sec.actor \in Nat
  BY SetSection, SectionFacts DEF RunInv
<1>3. sec.actor = Len(lists[s]) + 1
  BY <1>1, <1>2 DEF Finished, Fine, Progress
<1>4. QED
  BY <1>1, <1>2, <1>3, SectionFacts DEF Finished, Fine, Progress, Timely

LEMMA EndPostKeeps ==
    ASSUME RunInv, EndPost
    PROVE  RunInv'
<1>1. /\ UNCHANGED <<config, invocation, lists, object, clock, expired, exception>>
      /\ phase = "post" /\ Finished(Post)
  BY DEF EndPost, MainUnchanged
<1>2. TypeOK /\ SectionsFine /\ Control
  BY DEF RunInv
<1>3. CASE phase' = "done" /\ section' = section
  <2>1. phase' \in Phases /\ expired' \in BOOLEAN /\ Control' /\ WholeExecution'
    BY <1>1, <1>2, <1>3 DEF Phases, Control, Running, WholeExecution, TypeOK
  <2>2. QED
    BY <1>1, <1>3, <2>1, SameSections
<1>4. CASE phase' = "verify" /\ execution' = Collected /\ section' = [s \in Sections |-> Idle]
  <2>1. invocation \in 1 .. config.invocations /\ \A s \in Sections : Finished(s)
    BY <1>1, <1>2, ConfigFacts DEF Control, Running
  <2>2. Sections' = Sections /\ Post' = Post /\ Workers' = Workers
    BY <1>1, SameConfig
  <2>3. \A s \in Sections : lists[s] \in Seq(Nat)
    <3>1. DOMAIN config.operations \subseteq Nat
      BY <1>2, ConfigFacts
    <3>2. QED
      BY <1>2, <3>1, SetSection
  <2>4. TypeOK' /\ SectionsFine'
    BY <1>1, <1>2, <1>4, <2>3, IdleFacts, FineStep DEF TypeOK, Phases
  <2>5. Control'
    BY <1>1, <1>4, <2>1, <2>2 DEF Control, Running
  <2>6. ASSUME NEW s \in Sections
        PROVE  ResultsIn(s)' = section[s].results /\ execution'.intervals[s] = section[s].intervals
    <3>1. s = 0 \/ s = Post \/ s \in Workers
      BY <1>2, ConfigFacts
    <3>2. Post # 0 /\ 0 \notin Workers /\ Post \notin Workers
      BY <1>2, ConfigFacts
    <3>3. QED
      BY <1>4, <2>2, <3>1, <3>2 DEF ResultsIn, Collected
  <2>7. WholeExecution'
    BY <1>1, <2>1, <2>2, <2>6, FinishedFacts DEF WholeExecution
  <2>8. QED
    BY <2>4, <2>5, <2>7 DEF RunInv
<1>5. QED
  BY <1>3, <1>4 DEF EndPost, Finish

\* run_invocation begins with every section idle but init
LEMMA BeginInvocationKeeps ==
    ASSUME RunInv, BeginInvocation, UNCHANGED <<config, lists, clock>>,
           invocation + 1 \in 1 .. config.invocations
    PROVE  RunInv'
<1>1. /\ TypeOK /\ phase' = "init" /\ invocation' = invocation + 1 /\ object' = Fresh
      /\ expired' = FALSE /\ exception' = "none"
      /\ section' = [s \in Sections |-> [Idle EXCEPT !.at = IF s = 0 THEN "next" ELSE "idle"]]
  BY DEF RunInv, BeginInvocation
<1>2. /\ Sections' = Sections /\ Post' = Post /\ Workers' = Workers
      /\ config' = config /\ lists' = lists /\ clock' = clock
  BY SameConfig
<1>3. \A s \in Sections : lists[s] \in Seq(Nat)
  <2>1. DOMAIN config.operations \subseteq Nat
    BY <1>1, ConfigFacts
  <2>2. QED
    BY <1>1, <2>1, SetSection
<1>4. ASSUME NEW s \in Sections
      PROVE  /\ section'[s] \in SectionType /\ Fine(section'[s], lists[s], clock, FALSE, config.object)
             /\ s # 0 => section'[s] = Idle
  <2>1. PICK at : at = IF s = 0 THEN "next" ELSE "idle"
    OBVIOUS
  <2>2. section'[s] = [Idle EXCEPT !.at = at] /\ at \in Ats \ Live
    BY <1>1, <2>1 DEF Ats, Live
  <2>3. Idle \in SectionType /\ Fine(Idle, lists[s], clock, FALSE, config.object)
    BY <1>3, IdleFacts
  <2>4. section'[s] \in SectionType /\ Fine(section'[s], lists[s], clock, FALSE, config.object)
    <3>1. Idle.at \notin {"failing", "failed"}
      BY IdleFacts
    <3>2. PICK late : late = FALSE
      OBVIOUS
    <3>3. Fine(Idle, lists[s], clock, late, config.object)
      BY <2>3, <3>2
    <3>4. /\ [Idle EXCEPT !.at = at] \in SectionType
          /\ Fine([Idle EXCEPT !.at = at], lists[s], clock, late, config.object)
      BY <2>2, <2>3, <3>1, <3>3, Moves
    <3>5. QED
      BY <2>2, <3>2, <3>4
  <2>5. s # 0 => section'[s] = Idle
    BY <2>1, <2>2 DEF Idle
  <2>6. QED
    BY <2>4, <2>5
<1>5. section' \in [Sections -> SectionType]
  BY <1>1, <1>4
<1>6. TypeOK'
  <2>1. Fresh \in States /\ invocation' \in Nat /\ "init" \in Phases
    BY <1>1, SequentialAssumption DEF Phases, TypeOK
  <2>2. QED
    BY <1>1, <1>2, <1>5, <2>1 DEF TypeOK
<1>7. SectionsFine'
  BY <1>1, <1>2, <1>4 DEF SectionsFine
<1>8. Control'
  BY <1>1, <1>2, <1>4 DEF Control, Running
<1>9. WholeExecution'
  BY <1>1 DEF WholeExecution
<1>10. QED
  BY <1>6, <1>7, <1>8, <1>9 DEF RunInv

\* A step of the generator, or back to it: every section is idle
LEMMA GeneratorStep ==
    ASSUME RunInv, UNCHANGED <<config, object, clock, expired, section, exception>>,
           phase' \in {"generate", "done"}, invocation' \in Nat,
           phase' = "generate" => invocation' = 0,
           \A s \in Sections : section[s] = Idle,
           lists' \in [Sections -> Seq(DOMAIN config.operations)]
    PROVE  RunInv'
<1>1. /\ TypeOK /\ Sections' = Sections /\ Post' = Post /\ Workers' = Workers
      /\ config' = config /\ clock' = clock
  BY SameConfig DEF RunInv
<1>2. \A s \in Sections : lists'[s] \in Seq(Nat)
  <2>1. DOMAIN config.operations \subseteq Nat
    BY <1>1, ConfigFacts
  <2>2. QED
    BY <2>1
<1>3. TypeOK'
  BY <1>1 DEF TypeOK, Phases
<1>4. SectionsFine'
  BY <1>1, <1>2, IdleFacts DEF SectionsFine
<1>5. Control'
  BY <1>1 DEF Control, Running
<1>6. WholeExecution'
  BY DEF WholeExecution
<1>7. QED
  BY <1>3, <1>4, <1>5, <1>6 DEF RunInv

LEMMA NextIterationFacts ==
    ASSUME RunInv, NextIteration, config' = config
    PROVE  phase' \in {"generate", "done"} /\ lists' \in [Sections -> Seq(DOMAIN config.operations)]
<1>1. CASE iteration = config.iterations
  BY <1>1 DEF NextIteration, Finish, RunInv, TypeOK
<1>2. CASE iteration # config.iterations
  <2>1. phase' = "generate" /\ lists' = [s \in Sections |-> <<>>]
    BY <1>2 DEF NextIteration
  <2>2. <<>> \in Seq(DOMAIN config.operations)
    OBVIOUS
  <2>3. QED
    BY <2>1, <2>2
<1>3. QED
  BY <1>1, <1>2

LEMMA GenerateActorKeeps ==
    ASSUME RunInv, GenerateActor
    PROVE  RunInv'
<1>1. /\ TypeOK /\ Control /\ phase = "generate"
      /\ UNCHANGED <<config, phase, invocation, object, clock, expired, section, exception>>
  BY DEF RunInv, GenerateActor
<1>2. PICK i \in Drawable : lists' = [lists EXCEPT ![generation.section] = Append(@, i)]
  BY DEF GenerateActor
<1>3. i \in DOMAIN config.operations /\ generation.section \in Sections
  BY DEF Drawable, Candidates, GenerateActor
<1>4. Append(lists[generation.section], i) \in Seq(DOMAIN config.operations)
  <2>1. PICK S, list : S = DOMAIN config.operations /\ list = lists[generation.section]
    OBVIOUS
  <2>2. list \in Seq(S) /\ i \in S
    BY <1>1, <1>3, <2>1, SetSection
  <2>3. Append(list, i) \in Seq(S)
    BY <2>2
  <2>4. QED
    BY <2>1, <2>3
<1>5. lists' \in [Sections -> Seq(DOMAIN config.operations)]
  BY <1>1, <1>2, <1>4 DEF TypeOK
<1>6. (\A s \in Sections : section[s] = Idle) /\ invocation = 0
  BY <1>1 DEF Control
<1>7. QED
  BY <1>1, <1>5, <1>6, GeneratorStep

LEMMA EndListKeeps ==
    ASSUME RunInv, EndList
    PROVE  RunInv'
<1>1. /\ TypeOK /\ Control /\ phase = "generate"
      /\ UNCHANGED <<config, phase, invocation, lists, object, clock, expired, section, exception>>
  BY DEF RunInv, EndList
<1>2. (\A s \in Sections : section[s] = Idle) /\ invocation = 0
  BY <1>1 DEF Control
<1>3. lists' \in [Sections -> Seq(DOMAIN config.operations)]
  BY <1>1 DEF TypeOK
<1>4. QED
  BY <1>1, <1>2, <1>3, GeneratorStep

LEMMA EndGenerationKeeps ==
    ASSUME RunInv, EndGeneration
    PROVE  RunInv'
<1>1. /\ TypeOK /\ Control /\ phase = "generate" /\ UNCHANGED <<config, clock>>
  BY DEF RunInv, EndGeneration
<1>2. (\A s \in Sections : section[s] = Idle) /\ invocation = 0 /\ config.invocations \in Nat
  BY <1>1, ConfigFacts DEF Control
<1>3. CASE HasParallelActor(Scenario) /\ config.invocations > 0
  <2>1. BeginInvocation /\ lists' = lists
    BY <1>3 DEF EndGeneration
  <2>2. invocation + 1 \in 1 .. config.invocations
    BY <1>2, <1>3
  <2>3. QED
    BY <1>1, <2>1, <2>2, BeginInvocationKeeps
<1>4. CASE ~(HasParallelActor(Scenario) /\ config.invocations > 0)
  <2>1. NextIteration /\ UNCHANGED <<invocation, object, expired, section, exception>>
    BY <1>4 DEF EndGeneration
  <2>2. QED
    BY <1>1, <1>2, <2>1, NextIterationFacts, GeneratorStep
<1>5. QED
  BY <1>3, <1>4

-----------------------------------------------------------------------------
(* What is judged.                                                         *)

\* Scenario and Judged, with the threads a sequence
LEMMA ScenarioFacts ==
    ASSUME TypeOK
    PROVE  /\ Scenario.init = lists[0] /\ Scenario.post = lists[Post]
           /\ Scenario.parallel \in Seq(Seq(DOMAIN config.operations))
           /\ DOMAIN Scenario.parallel = Workers
           /\ \A t \in Workers : Scenario.parallel[t] = lists[t]
<1>1. Workers = 1 .. config.threads /\ config.threads \in Nat /\ Workers \subseteq Sections
  BY ConfigFacts
<1>2. \A t \in Workers : lists[t] \in Seq(DOMAIN config.operations)
  BY <1>1, SetSection
<1>3. PICK p : p = [t \in Workers |-> lists[t]]
  OBVIOUS
<1>4. p \in Seq(Seq(DOMAIN config.operations)) /\ DOMAIN p = Workers /\ \A t \in Workers : p[t] = lists[t]
  <2>1. DOMAIN p = Workers /\ \A t \in Workers : p[t] = lists[t]
    BY <1>3
  <2>2. p \in [1 .. config.threads -> Seq(DOMAIN config.operations)]
    BY <1>1, <1>2, <1>3
  <2>3. QED
    BY <1>1, <2>1, <2>2
<1>5. QED
  BY <1>3, <1>4 DEF Scenario

LEMMA JudgedWhole ==
    ASSUME RunInv, phase = "verify", NEW keyed \in BOOLEAN, NEW report \in BOOLEAN
    PROVE  WholeRun(Judged(keyed, report)) /\ Threads(Judged(keyed, report)) = Workers
<1>1. TypeOK /\ WholeExecution
  BY DEF RunInv
<1>2. PICK run : run = Judged(keyed, report)
  OBVIOUS
<1>3. /\ run.operations = config.operations /\ run.scenario = Scenario
      /\ run.results = execution.results /\ run.intervals = [t \in Workers |-> execution.intervals[t]]
      /\ run.keyed = keyed /\ run.report = report
  BY <1>2 DEF Judged
<1>4. Threads(run) = Workers /\ Actors(run) = DOMAIN config.operations
  BY <1>1, <1>3, ScenarioFacts DEF Threads, Actors
<1>5. \A a \in Actors(run) : /\ run.operations[a].name \in Names
                             /\ run.operations[a].exceptionResults \in BOOLEAN
  <2>1. config.operations \in Seq(OperationOptions)
    BY <1>1, ConfigFacts
  <2>2. \A a \in DOMAIN config.operations : config.operations[a] \in OperationOptions
    BY <2>1
  <2>3. QED
    BY <1>3, <1>4, <2>2 DEF OperationOptions
<1>6. /\ run.scenario.init = lists[0] /\ run.scenario.post = lists[Post]
      /\ run.scenario.parallel \in Seq(Seq(Actors(run)))
      /\ lists[0] \in Seq(Actors(run)) /\ lists[Post] \in Seq(Actors(run))
  BY <1>1, <1>3, <1>4, ScenarioFacts, ConfigFacts, SetSection
<1>7. /\ ResultsIn(0) = run.results.init /\ ResultsIn(Post) = run.results.post
      /\ \A t \in Workers : ResultsIn(t) = run.results.parallel[t]
  BY <1>1, <1>3, ConfigFacts DEF ResultsIn
<1>8. run.results.init \in Seq(Values) /\ run.results.post \in Seq(Values)
  BY <1>1, <1>7, ConfigFacts DEF WholeExecution
<1>9. ASSUME NEW t \in Workers
      PROVE  /\ run.results.parallel[t] \in Seq(Values) /\ run.intervals[t] \in Seq(Interval)
             /\ Len(run.results.parallel[t]) = Len(run.scenario.parallel[t])
             /\ Len(run.intervals[t]) = Len(run.scenario.parallel[t])
  <2>1. t \in Sections /\ run.scenario.parallel[t] = lists[t] /\ run.intervals[t] = execution.intervals[t]
    BY <1>1, <1>3, ConfigFacts, ScenarioFacts
  <2>2. /\ ResultsIn(t) \in Seq(Values) /\ execution.intervals[t] \in Seq(Interval)
        /\ Len(ResultsIn(t)) = Len(lists[t]) /\ Len(execution.intervals[t]) = Len(lists[t])
    BY <1>1, <2>1 DEF WholeExecution
  <2>3. QED
    BY <1>7, <2>1, <2>2
<1>10. DOMAIN run.intervals = Threads(run)
  BY <1>3, <1>4
<1>11. QED
  BY <1>2, <1>3, <1>4, <1>5, <1>6, <1>8, <1>9, <1>10 DEF WholeRun

\* Judge reports, or goes on with the next invocation or iteration
LEMMA JudgeCases ==
    ASSUME RunInv, Judge
    PROVE  /\ phase = "verify" /\ UNCHANGED <<config, clock>>
           /\ \/ /\ Verify(Judged(FALSE, TRUE)) = "throws" /\ Finish("verifier_exception")
                 /\ UNCHANGED <<invocation, lists, object, expired, section, exception>>
              \/ /\ Verify(Judged(FALSE, TRUE)) = "no" /\ Finish("invalid_results")
                 /\ UNCHANGED <<invocation, lists, object, expired, section, exception>>
              \/ /\ invocation < config.invocations /\ BeginInvocation /\ UNCHANGED <<lists, outcome>>
              \/ /\ NextIteration /\ invocation' = 0
                 /\ UNCHANGED <<object, expired, section, exception>>
<1>1. phase = "verify" /\ UNCHANGED <<config, clock>>
  BY DEF Judge
<1>2. PICK verdict : verdict = Verify(Judged(FALSE, TRUE))
  OBVIOUS
<1>3. verdict \in {"yes", "no", "throws"}
  <2>1. WholeRun(Judged(FALSE, TRUE))
    BY <1>1, JudgedWhole
  <2>2. QED
    BY <1>2, <2>1, VerifyIsLinearizability
<1>4. invocation \in Nat /\ config.invocations \in Nat /\ invocation <= config.invocations
  BY <1>1, ConfigFacts DEF RunInv, Control, TypeOK
<1>5. \/ verdict = "throws" \/ verdict = "no"
      \/ verdict = "yes" /\ invocation < config.invocations
      \/ verdict = "yes" /\ invocation = config.invocations
  BY <1>3, <1>4
<1>6. CASE verdict = "throws"
  BY <1>1, <1>2, <1>6 DEF Judge
<1>7. CASE verdict = "no"
  BY <1>1, <1>2, <1>7 DEF Judge
<1>8. CASE verdict = "yes" /\ invocation < config.invocations
  BY <1>1, <1>2, <1>4, <1>8 DEF Judge
<1>9. CASE verdict = "yes" /\ invocation = config.invocations
  BY <1>1, <1>2, <1>4, <1>9 DEF Judge
<1>10. QED
  BY <1>5, <1>6, <1>7, <1>8, <1>9

LEMMA JudgeKeeps ==
    ASSUME RunInv, Judge
    PROVE  RunInv'
<1>1. /\ TypeOK /\ Control /\ phase = "verify" /\ UNCHANGED <<config, clock>>
  BY JudgeCases DEF RunInv
<1>2. /\ \A s \in Sections : section[s] = Idle
      /\ invocation \in 1 .. config.invocations /\ config.invocations \in Nat
  BY <1>1, ConfigFacts DEF Control
<1>3. CASE phase' = "done" /\ UNCHANGED <<invocation, lists, object, expired, section, exception>>
  <2>1. lists' \in [Sections -> Seq(DOMAIN config.operations)] /\ invocation' \in Nat
    BY <1>1, <1>3 DEF TypeOK
  <2>2. QED
    BY <1>1, <1>2, <1>3, <2>1, GeneratorStep
<1>4. CASE invocation < config.invocations /\ BeginInvocation /\ lists' = lists
  <2>1. invocation + 1 \in 1 .. config.invocations
    BY <1>2, <1>4
  <2>2. QED
    BY <1>1, <1>4, <2>1, BeginInvocationKeeps
<1>5. CASE NextIteration /\ invocation' = 0 /\ UNCHANGED <<object, expired, section, exception>>
  BY <1>1, <1>2, <1>5, NextIterationFacts, GeneratorStep
<1>6. QED
  BY <1>3, <1>4, <1>5, JudgeCases DEF Finish

-----------------------------------------------------------------------------
(* The invariant holds, and what follows from it.                          *)

LEMMA RunInit ==
    ASSUME Init
    PROVE  RunInv
<1>1. /\ config \in Configs /\ phase = "generate" /\ invocation = 0
      /\ lists = [s \in Sections |-> <<>>] /\ object = Fresh /\ clock = 1 /\ expired = FALSE
      /\ section = [s \in Sections |-> Idle] /\ exception = "none"
  BY DEF Init
<1>2. Idle \in SectionType /\ Fresh \in States
  BY IdleFacts, SequentialAssumption
<1>3. \A S : <<>> \in Seq(S)
  OBVIOUS
<1>4. TypeOK
  <2>1. lists \in [Sections -> Seq(DOMAIN config.operations)]
    BY <1>1, <1>3
  <2>2. section \in [Sections -> SectionType]
    BY <1>1, <1>2
  <2>3. /\ config \in Configs /\ phase \in Phases /\ invocation \in Nat /\ object \in States
        /\ clock \in Nat \ {0} /\ expired \in BOOLEAN
        /\ exception \in {"none", "timeout", "unexpected_exception"}
    <3>1. expired \in BOOLEAN
      BY <1>1, Zenon
    <3>2. object \in States
      BY <1>1, <1>2
    <3>3. phase \in Phases
      BY <1>1 DEF Phases
    <3>4. exception \in {"none", "timeout", "unexpected_exception"} /\ config \in Configs
      BY <1>1
    <3>5. clock \in Nat \ {0} /\ invocation \in Nat
      BY <1>1
    <3>6. QED
      BY <3>1, <3>2, <3>3, <3>4, <3>5
  <2>4. QED
    BY <2>1, <2>2, <2>3 DEF TypeOK
<1>5. SectionsFine
  BY <1>1, <1>3, IdleFacts DEF SectionsFine
<1>6. Control
  BY <1>1 DEF Control, Running
<1>7. QED
  BY <1>1, <1>4, <1>5, <1>6 DEF RunInv, WholeExecution

LEMMA RunNext ==
    ASSUME RunInv, [Next]_vars
    PROVE  RunInv'
<1>1. CASE GenerateActor
  BY <1>1, GenerateActorKeeps
<1>2. CASE EndList
  BY <1>2, EndListKeeps
<1>3. CASE EndGeneration
  BY <1>3, EndGenerationKeeps
<1>4. CASE RunInvocation
  <2>1. 0 \in Sections /\ Post \in Sections
    BY ConfigFacts DEF RunInv
  <2>2. CASE phase = "init" /\ (Operate(0) \/ FailSection(0))
    BY <2>1, <2>2, OperateKeeps, FailSectionKeeps
  <2>3. CASE EndInit \/ Start \/ NotifyAll \/ Join \/ EndPost
    BY <2>3, EndInitKeeps, StartKeeps, NotifyAllKeeps, JoinKeeps, EndPostKeeps
  <2>4. CASE phase = "post" /\ (Operate(Post) \/ FailSection(Post))
    BY <2>1, <2>4, OperateKeeps, FailSectionKeeps
  <2>5. QED
    BY <1>4, <2>2, <2>3, <2>4 DEF RunInvocation
<1>5. CASE \E t \in 1 .. MaxThreads : Worker(t)
  <2>1. PICK t : Worker(t)
    BY <1>5
  <2>2. t \in Workers /\ t \in Sections
    BY <2>1, ConfigFacts DEF Worker, RunInv
  <2>3. QED
    BY <2>1, <2>2, ArriveKeeps, OperateKeeps, KeepKeeps DEF Worker
<1>6. CASE Judge
  BY <1>6, JudgeKeeps
<1>7. CASE DeadlinePasses
  BY <1>7, DeadlinePassesKeeps
<1>8. CASE UNCHANGED vars
  <2>1. Sections' = Sections /\ Post' = Post /\ Workers' = Workers
    BY <1>8, SameConfig DEF vars
  <2>2. QED
    BY <1>8, <2>1 DEF vars, RunInv, TypeOK, SectionsFine, Control, WholeExecution, ResultsIn, Finished
<1>9. QED
  BY <1>1, <1>2, <1>3, <1>4, <1>5, <1>6, <1>7, <1>8 DEF Next

LEMMA RunAlways == Spec => []RunInv
<1>1. Init => RunInv
  BY RunInit
<1>2. RunInv /\ [Next]_vars => RunInv'
  BY RunNext
<1>3. QED
  BY <1>1, <1>2, PTL DEF Spec

\* run_invocation, for any number of threads and any options: only whole runs are judged.  Every
\* actor has its result and its interval, in order, and none is what the deadline left.
THEOREM StressOnlyWholeRunsJudged == Spec => []OnlyWholeRunsJudged
<1>1. ASSUME RunInv PROVE OnlyWholeRunsJudged
  <2> SUFFICES ASSUME phase = "verify", NEW s \in Sections
               PROVE  /\ Len(ResultsIn(s)) = Len(lists[s]) /\ Len(execution.intervals[s]) = Len(lists[s])
                      /\ \A i \in DOMAIN ResultsIn(s) :
                            /\ ResultsIn(s)[i] # TimeoutValue
                            /\ execution.intervals[s][i].invocation <= execution.intervals[s][i].response
                            /\ i > 1 => execution.intervals[s][i - 1].response
                                           <= execution.intervals[s][i].invocation
    BY DEF OnlyWholeRunsJudged, ResultsIn
  <2>1. /\ ResultsIn(s) \in Seq(Values) /\ Len(ResultsIn(s)) = Len(lists[s])
        /\ Len(execution.intervals[s]) = Len(lists[s]) /\ Orderly(execution.intervals[s], clock)
    BY <1>1 DEF RunInv, WholeExecution
  <2>2. PICK r : r = ResultsIn(s)
    OBVIOUS
  <2>3. DOMAIN r = 1 .. Len(lists[s]) /\ \A i \in DOMAIN r : r[i] \in Values
    BY <2>1, <2>2
  <2>4. QED
    BY <2>1, <2>2, <2>3, TimeoutValueAssumption DEF Orderly
<1>2. QED
  BY <1>1, RunAlways, PTL

\* StressOptions::check, for any sequential model: the verdict on a run says whether it is
\* linearizable, with a state key and without, with a report and without, unless the model throws.
THEOREM StressVerdictIsLinearizability == Spec => []VerdictIsLinearizability
<1>1. ASSUME RunInv PROVE VerdictIsLinearizability
  <2> SUFFICES ASSUME phase = "verify", NEW keyed \in BOOLEAN, NEW report \in BOOLEAN, NEW run,
                      run = Judged(keyed, report), NEW verdict, verdict = Verify(run)
               PROVE  /\ verdict = "yes" => Linearizable(run)
                      /\ verdict = "no" => ~Linearizable(run)
                      /\ verdict = "throws" => \E i \in DOMAIN config.operations, state \in States :
                             RunSequential(config.operations[i], state).throws
    BY DEF VerdictIsLinearizability
  <2>1. WholeRun(run)
    BY <1>1, JudgedWhole
  <2>2. MayThrow(run) => \E i \in DOMAIN config.operations, state \in States :
                            RunSequential(config.operations[i], state).throws
    BY DEF MayThrow, Actors, Judged
  <2>3. QED
    BY <2>1, <2>2, VerifyIsLinearizability
<1>2. QED
  BY <1>1, RunAlways, PTL

-----------------------------------------------------------------------------
(* An atomic object: at every moment some order of the operations that     *)
(* have been performed leads from a fresh object to the one there is.      *)

\* How many operations of a section have been performed, what they gave, when they began
Performed(sec) == IF sec.at \in {"thrown", "returned"} THEN sec.actor ELSE sec.actor - 1
Got(sec, i) == IF i < sec.actor THEN sec.results[i] ELSE sec.value
BeganAt(sec, i) == IF i < sec.actor THEN sec.intervals[i].invocation ELSE sec.invoked

\* The operations that the sections S have performed
PerformedPlaces(secs, S) == {p \in S \X (Nat \ {0}) : p[2] <= Performed(secs[p[1]])}

\* What the scenario is
World == [operations |-> config.operations, lists |-> lists, threads |-> config.threads]

\* The operation at place p of the scenario, in this state, gives what was got and leads to next
Leads(world, secs, p, state, next) ==
    \E answer :
        /\ answer = RunSequential(world.operations[world.lists[p[1]][p[2]]], state)
        /\ ~answer.throws /\ answer.value = Got(secs[p[1]], p[2]) /\ answer.next = next

\* f orders the n operations that the sections S have performed, as their threads and real time
\* do, and r are the states they lead through
Linked(world, secs, S, n, f, r) ==
    /\ n \in Nat /\ f \in [1 .. n -> PerformedPlaces(secs, S)] /\ r \in [0 .. n -> States]
    /\ \A i, j \in 1 .. n : i # j => f[i] # f[j]
    /\ \A p \in PerformedPlaces(secs, S) : \E i \in 1 .. n : f[i] = p
    /\ \A i, j \in 1 .. n : i < j /\ f[i][1] = f[j][1] => f[i][2] < f[j][2]
    /\ \A i, j \in 1 .. n : i < j /\ f[j][2] < secs[f[j][1]].actor =>
           BeganAt(secs[f[i][1]], f[i][2]) <= secs[f[j][1]].intervals[f[j][2]].response
    /\ \A i \in 1 .. n : Leads(world, secs, f[i], r[i - 1], r[i])

Links(world, secs, S, a, b) == \E n, f, r : Linked(world, secs, S, n, f, r) /\ r[0] = a /\ r[n] = b

\* Init, then the workers, then post
LinksAll(world, secs, last) ==
    \E x, y \in States :
        /\ Links(world, secs, {0}, Fresh, x)
        /\ Links(world, secs, 1 .. world.threads, x, y)
        /\ Links(world, secs, {world.threads + 1}, y, last)

\* What is left of the sections when a run is judged
Recorded ==
    [s \in Sections |->
        [Idle EXCEPT !.at = "next", !.actor = Len(lists[s]) + 1, !.results = ResultsIn(s),
                     !.intervals = execution.intervals[s]]]

\* Nothing has happened that ends the invocation: then every operation that was performed counts
Sane ==
    /\ ~expired
    /\ \A s \in Sections : /\ section[s].at \notin {"failing", "failed"}
                           /\ section[s].at = "thrown" => Operation(s).exceptionResults

History ==
    config.object = "atomic" =>
        /\ (phase \in Running /\ Sane) => LinksAll(World, section, object)
        /\ phase = "verify" => LinksAll(World, Recorded, object)

\* The operations performed are the same, and what has ended since ended after this time
SameLog(old, new, time) ==
    /\ Performed(new) = Performed(old)
    /\ \A i \in 1 .. Performed(old) :
          Got(new, i) = Got(old, i) /\ BeganAt(new, i) = BeganAt(old, i)
    /\ \A i \in 1 .. Performed(old) : i < new.actor =>
          \/ i < old.actor /\ new.intervals[i] = old.intervals[i]
          \/ time <= new.intervals[i].response

\* Everything that was performed began by this time
Past(sec, time) ==
    /\ Performed(sec) \in Nat
    /\ \A i \in 1 .. Performed(sec) : BeganAt(sec, i) \in Nat /\ BeganAt(sec, i) <= time
    /\ \A i \in 1 .. Performed(sec) : i < sec.actor => sec.intervals[i].response \in Nat

LEMMA PlacesOf ==
    ASSUME NEW secs, NEW S, NEW p \in PerformedPlaces(secs, S)
    PROVE  /\ p = <<p[1], p[2]>> /\ p[1] \in S /\ p[2] \in Nat \ {0}
           /\ Performed(secs[p[1]]) \in Nat => p[2] \in 1 .. Performed(secs[p[1]])
  BY DEF PerformedPlaces

LEMMA LinkedKept ==
    ASSUME NEW world, NEW secs, NEW new, NEW S, NEW time \in Nat, NEW later,
           \A s \in S : SameLog(secs[s], new[s], time) /\ Past(secs[s], time) /\ Past(new[s], later),
           NEW n, NEW f, NEW r, Linked(world, secs, S, n, f, r)
    PROVE  Linked(world, new, S, n, f, r)
<1>1. PerformedPlaces(new, S) = PerformedPlaces(secs, S)
  BY DEF PerformedPlaces, SameLog
<1>2. /\ n \in Nat /\ f \in [1 .. n -> PerformedPlaces(secs, S)] /\ r \in [0 .. n -> States]
      /\ \A i, j \in 1 .. n : i # j => f[i] # f[j]
      /\ \A p \in PerformedPlaces(secs, S) : \E i \in 1 .. n : f[i] = p
      /\ \A i, j \in 1 .. n : i < j /\ f[i][1] = f[j][1] => f[i][2] < f[j][2]
      /\ \A i, j \in 1 .. n : i < j /\ f[j][2] < secs[f[j][1]].actor =>
             BeganAt(secs[f[i][1]], f[i][2]) <= secs[f[j][1]].intervals[f[j][2]].response
      /\ \A i \in 1 .. n : Leads(world, secs, f[i], r[i - 1], r[i])
  BY DEF Linked
<1>3. ASSUME NEW i \in 1 .. n
      PROVE  /\ f[i][1] \in S /\ f[i][2] \in 1 .. Performed(secs[f[i][1]])
             /\ Got(new[f[i][1]], f[i][2]) = Got(secs[f[i][1]], f[i][2])
             /\ BeganAt(new[f[i][1]], f[i][2]) = BeganAt(secs[f[i][1]], f[i][2])
  <2>1. PICK p \in PerformedPlaces(secs, S) : p = f[i]
    BY <1>2
  <2>2. p[1] \in S /\ p[2] \in 1 .. Performed(secs[p[1]])
    BY PlacesOf DEF Past
  <2>3. QED
    BY <2>1, <2>2 DEF SameLog
<1>4. ASSUME NEW i \in 1 .. n PROVE Leads(world, new, f[i], r[i - 1], r[i])
  <2>1. PICK p, before, after : p = f[i] /\ before = r[i - 1] /\ after = r[i]
    OBVIOUS
  <2>2. Leads(world, secs, p, before, after) /\ Got(new[p[1]], p[2]) = Got(secs[p[1]], p[2])
    BY <1>2, <1>3, <2>1
  <2>3. Leads(world, new, p, before, after)
    BY <2>2 DEF Leads
  <2>4. QED
    BY <2>1, <2>3
<1>5. ASSUME NEW i \in 1 .. n, NEW j \in 1 .. n, i < j, f[j][2] < new[f[j][1]].actor
      PROVE  BeganAt(new[f[i][1]], f[i][2]) <= new[f[j][1]].intervals[f[j][2]].response
  <2>1. PICK s, k, t, m : s = f[i][1] /\ k = f[i][2] /\ t = f[j][1] /\ m = f[j][2]
    OBVIOUS
  <2>2. /\ s \in S /\ k \in 1 .. Performed(secs[s]) /\ t \in S /\ m \in 1 .. Performed(secs[t])
        /\ BeganAt(new[s], k) = BeganAt(secs[s], k)
    BY <1>3, <2>1
  <2>3. BeganAt(secs[s], k) \in Nat /\ BeganAt(secs[s], k) <= time
    BY <2>2 DEF Past
  <2>4. \/ m < secs[t].actor /\ new[t].intervals[m] = secs[t].intervals[m]
        \/ time <= new[t].intervals[m].response
    BY <1>5, <2>1, <2>2 DEF SameLog
  <2>5. new[t].intervals[m].response \in Nat
    <3>1. m \in 1 .. Performed(new[t])
      BY <2>2 DEF SameLog
    <3>2. QED
      BY <1>5, <2>1, <2>2, <3>1 DEF Past
  <2>6. CASE m < secs[t].actor /\ new[t].intervals[m] = secs[t].intervals[m]
    BY <1>2, <1>5, <2>1, <2>2, <2>6
  <2>7. CASE time <= new[t].intervals[m].response
    BY <2>1, <2>2, <2>3, <2>5, <2>7
  <2>8. QED
    BY <2>4, <2>6, <2>7
<1>6. QED
  BY <1>1, <1>2, <1>4, <1>5 DEF Linked

LEMMA LinksKept ==
    ASSUME NEW world, NEW secs, NEW new, NEW S, NEW time \in Nat, NEW later,
           \A s \in S : SameLog(secs[s], new[s], time) /\ Past(secs[s], time) /\ Past(new[s], later),
           NEW a, NEW b, Links(world, secs, S, a, b)
    PROVE  Links(world, new, S, a, b)
<1>1. PICK n, f, r : Linked(world, secs, S, n, f, r) /\ r[0] = a /\ r[n] = b
  BY DEF Links
<1>2. Linked(world, new, S, n, f, r)
  BY <1>1, LinkedKept
<1>3. QED
  BY <1>1, <1>2 DEF Links

\* Sections that have performed nothing lead nowhere
LEMMA LinksNone ==
    ASSUME NEW world, NEW secs, NEW S, PerformedPlaces(secs, S) = {}
    PROVE  /\ \A a, b : Links(world, secs, S, a, b) => a = b
           /\ \A a \in States : Links(world, secs, S, a, a)
<1>1. ASSUME NEW a, NEW b, Links(world, secs, S, a, b) PROVE a = b
  <2>1. PICK n, f, r : Linked(world, secs, S, n, f, r) /\ r[0] = a /\ r[n] = b
    BY <1>1 DEF Links
  <2>2. n \in Nat /\ f \in [1 .. n -> {}]
    BY <2>1 DEF Linked
  <2>3. n = 0
    BY <2>2
  <2>4. QED
    BY <2>1, <2>3
<1>2. ASSUME NEW a \in States PROVE Links(world, secs, S, a, a)
  <2> DEFINE f == [i \in 1 .. 0 |-> a]
             r == [i \in 0 .. 0 |-> a]
  <2>1. 1 .. 0 = {} /\ f \in [1 .. 0 -> {}] /\ r \in [0 .. 0 -> States] /\ r[0] = a
    OBVIOUS
  <2>2. Linked(world, secs, S, 0, f, r)
    BY <2>1 DEF Linked
  <2>3. QED
    BY <2>1, <2>2 DEF Links
<1>3. QED
  BY <1>1, <1>2

\* One more operation, the next of section t, from the last state to another
LEMMA LinksNext ==
    ASSUME NEW world, NEW secs, NEW new, NEW S, NEW t \in S,
           \A s \in S \ {t} : new[s] = secs[s],
           \A s \in S : Performed(secs[s]) \in Nat,
           Performed(new[t]) = Performed(secs[t]) + 1, new[t].actor = secs[t].actor,
           new[t].actor = Performed(new[t]), new[t].intervals = secs[t].intervals,
           \A i \in 1 .. Performed(secs[t]) :
              Got(new[t], i) = Got(secs[t], i) /\ BeganAt(new[t], i) = BeganAt(secs[t], i),
           NEW a, NEW b, Links(world, secs, S, a, b), NEW c \in States,
           Leads(world, new, <<t, Performed(new[t])>>, b, c)
    PROVE  Links(world, new, S, a, c)
<1>1. PICK n, f, r : Linked(world, secs, S, n, f, r) /\ r[0] = a /\ r[n] = b
  BY DEF Links
<1>2. /\ n \in Nat /\ f \in [1 .. n -> PerformedPlaces(secs, S)] /\ r \in [0 .. n -> States]
      /\ \A i, j \in 1 .. n : i # j => f[i] # f[j]
      /\ \A p \in PerformedPlaces(secs, S) : \E i \in 1 .. n : f[i] = p
      /\ \A i, j \in 1 .. n : i < j /\ f[i][1] = f[j][1] => f[i][2] < f[j][2]
      /\ \A i, j \in 1 .. n : i < j /\ f[j][2] < secs[f[j][1]].actor =>
             BeganAt(secs[f[i][1]], f[i][2]) <= secs[f[j][1]].intervals[f[j][2]].response
      /\ \A i \in 1 .. n : Leads(world, secs, f[i], r[i - 1], r[i])
  BY <1>1 DEF Linked
<1>3. PICK k, p : k = Performed(secs[t]) + 1 /\ p = <<t, k>>
  OBVIOUS
<1>4. k \in Nat \ {0} /\ p[1] = t /\ p[2] = k /\ Performed(new[t]) = k
  BY <1>3
<1>5. PerformedPlaces(new, S) = PerformedPlaces(secs, S) \cup {p} /\ p \notin PerformedPlaces(secs, S)
  <2>1. ASSUME NEW x \in S \X (Nat \ {0})
        PROVE  x[2] <= Performed(new[x[1]]) <=> x[2] <= Performed(secs[x[1]]) \/ x = p
    <3>1. x = <<x[1], x[2]>> /\ x[1] \in S /\ x[2] \in Nat
      OBVIOUS
    <3>2. CASE x[1] = t
      <4>1. x = p <=> x[2] = k
        BY <1>3, <3>1, <3>2
      <4>2. Performed(new[x[1]]) = Performed(secs[x[1]]) + 1 /\ Performed(secs[x[1]]) \in Nat
            /\ k = Performed(secs[x[1]]) + 1
        BY <1>3, <1>4, <3>2
      <4>3. QED
        BY <3>1, <4>1, <4>2
    <3>3. CASE x[1] # t
      <4>1. new[x[1]] = secs[x[1]] /\ x # p
        BY <1>4, <3>1, <3>3
      <4>2. QED
        BY <4>1
    <3>4. QED
      BY <3>2, <3>3
  <2>2. p \in S \X (Nat \ {0}) /\ ~(p[2] <= Performed(secs[p[1]]))
    BY <1>3, <1>4
  <2>3. QED
    BY <2>1, <2>2 DEF PerformedPlaces
<1> DEFINE g == [i \in 1 .. n + 1 |-> IF i = n + 1 THEN p ELSE f[i]]
           q == [i \in 0 .. n + 1 |-> IF i = n + 1 THEN c ELSE r[i]]
<1>6. /\ g \in [1 .. n + 1 -> PerformedPlaces(new, S)] /\ q \in [0 .. n + 1 -> States]
      /\ g[n + 1] = p /\ q[n + 1] = c /\ q[0] = a /\ q[n] = b
      /\ \A i \in 1 .. n : g[i] = f[i] /\ q[i] = r[i] /\ q[i - 1] = r[i - 1]
      /\ \A i \in 1 .. n + 1 : i = n + 1 \/ i \in 1 .. n
  <2>1. \A i \in 1 .. n + 1 : i = n + 1 \/ i \in 1 .. n
    BY <1>2
  <2>2. \A i \in 0 .. n + 1 : i = n + 1 \/ i \in 0 .. n
    BY <1>2
  <2>3. g \in [1 .. n + 1 -> PerformedPlaces(new, S)]
    BY <1>2, <1>5, <2>1
  <2>4. q \in [0 .. n + 1 -> States]
    BY <1>2, <2>2
  <2>5. n + 1 \in 1 .. n + 1 /\ n + 1 \in 0 .. n + 1 /\ 0 \in 0 .. n + 1 /\ 0 # n + 1
        /\ n \in 0 .. n + 1 /\ n # n + 1
    BY <1>2
  <2>6. \A i \in 1 .. n : i \in 1 .. n + 1 /\ i # n + 1 /\ i \in 0 .. n + 1 /\ i - 1 \in 0 .. n + 1 /\ i - 1 # n + 1
    BY <1>2
  <2>7. g[n + 1] = p /\ q[n + 1] = c /\ q[0] = a /\ q[n] = b
    BY <1>1, <2>5
  <2>8. \A i \in 1 .. n : g[i] = f[i] /\ q[i] = r[i] /\ q[i - 1] = r[i - 1]
    BY <2>6
  <2> HIDE DEF g, q
  <2>9. QED
    BY <2>1, <2>3, <2>4, <2>7, <2>8
<1> HIDE DEF g, q
<1>7. ASSUME NEW i \in 1 .. n
      PROVE  /\ f[i] \in PerformedPlaces(secs, S) /\ f[i][1] \in S
             /\ f[i][2] \in Nat \ {0} /\ f[i][2] <= Performed(secs[f[i][1]])
             /\ Got(new[f[i][1]], f[i][2]) = Got(secs[f[i][1]], f[i][2])
             /\ BeganAt(new[f[i][1]], f[i][2]) = BeganAt(secs[f[i][1]], f[i][2])
             /\ new[f[i][1]].actor = secs[f[i][1]].actor
             /\ new[f[i][1]].intervals = secs[f[i][1]].intervals
  <2>1. PICK x \in PerformedPlaces(secs, S) : x = f[i]
    BY <1>2
  <2>2. x[1] \in S /\ x[2] \in Nat \ {0} /\ x[2] <= Performed(secs[x[1]])
    BY DEF PerformedPlaces
  <2>3. Got(new[x[1]], x[2]) = Got(secs[x[1]], x[2]) /\ BeganAt(new[x[1]], x[2]) = BeganAt(secs[x[1]], x[2])
    <3>1. CASE x[1] = t
      <4>1. x[2] \in 1 .. Performed(secs[t])
        BY <2>2, <3>1
      <4>2. QED
        BY <3>1, <4>1
    <3>2. CASE x[1] # t
      BY <2>2, <3>2
    <3>3. QED
      BY <3>1, <3>2
  <2>4. new[x[1]].actor = secs[x[1]].actor /\ new[x[1]].intervals = secs[x[1]].intervals
    BY <2>2
  <2>5. QED
    BY <2>1, <2>2, <2>3, <2>4
<1>8. \A i, j \in 1 .. n + 1 : i # j => g[i] # g[j]
  <2> SUFFICES ASSUME NEW i \in 1 .. n + 1, NEW j \in 1 .. n + 1, i # j, g[i] = g[j] PROVE FALSE
    OBVIOUS
  <2>1. CASE i \in 1 .. n /\ j \in 1 .. n
    BY <1>2, <1>6, <2>1
  <2>2. CASE i = n + 1 /\ j \in 1 .. n
    BY <1>5, <1>6, <1>7, <2>2
  <2>3. CASE j = n + 1 /\ i \in 1 .. n
    BY <1>5, <1>6, <1>7, <2>3
  <2>4. QED
    BY <1>6, <2>1, <2>2, <2>3
<1>9. \A x \in PerformedPlaces(new, S) : \E i \in 1 .. n + 1 : g[i] = x
  <2> SUFFICES ASSUME NEW x \in PerformedPlaces(new, S) PROVE \E i \in 1 .. n + 1 : g[i] = x
    OBVIOUS
  <2>1. CASE x = p
    <3>1. n + 1 \in 1 .. n + 1
      BY <1>2
    <3>2. QED
      BY <1>6, <2>1, <3>1
  <2>2. CASE x \in PerformedPlaces(secs, S)
    <3>1. PICK i \in 1 .. n : f[i] = x
      BY <1>2, <2>2
    <3>2. i \in 1 .. n + 1
      BY <1>2
    <3>3. QED
      BY <1>6, <3>1, <3>2
  <2>3. QED
    BY <1>5, <2>1, <2>2
<1>10. \A i, j \in 1 .. n + 1 : i < j => i \in 1 .. n
  BY <1>2
<1>11. \A i, j \in 1 .. n + 1 : i < j /\ g[i][1] = g[j][1] => g[i][2] < g[j][2]
  <2> SUFFICES ASSUME NEW i \in 1 .. n, NEW j \in 1 .. n + 1, i < j, g[i][1] = g[j][1]
               PROVE  g[i][2] < g[j][2]
    BY <1>10
  <2>1. CASE j \in 1 .. n
    BY <1>2, <1>6, <2>1
  <2>2. CASE j = n + 1
    <3>1. f[i][1] = t /\ g[i][2] = f[i][2] /\ g[j][2] = k
      BY <1>4, <1>6, <2>2
    <3>2. f[i][2] <= Performed(secs[t]) /\ f[i][2] \in Nat /\ Performed(secs[t]) \in Nat
      BY <1>7, <3>1
    <3>3. QED
      BY <1>3, <3>1, <3>2
  <2>3. QED
    BY <1>6, <2>1, <2>2
<1>12. \A i, j \in 1 .. n + 1 : i < j /\ g[j][2] < new[g[j][1]].actor =>
           BeganAt(new[g[i][1]], g[i][2]) <= new[g[j][1]].intervals[g[j][2]].response
  <2> SUFFICES ASSUME NEW i \in 1 .. n, NEW j \in 1 .. n + 1, i < j, g[j][2] < new[g[j][1]].actor
               PROVE  BeganAt(new[g[i][1]], g[i][2]) <= new[g[j][1]].intervals[g[j][2]].response
    BY <1>10
  <2>1. CASE j \in 1 .. n
    <3>1. f[j][2] < secs[f[j][1]].actor
      BY <1>6, <1>7, <2>1
    <3>2. BeganAt(secs[f[i][1]], f[i][2]) <= secs[f[j][1]].intervals[f[j][2]].response
      BY <1>2, <2>1, <3>1
    <3>3. QED
      BY <1>6, <1>7, <2>1, <3>2
  <2>2. CASE j = n + 1
    <3>1. g[j][2] = k /\ new[g[j][1]].actor = k
      BY <1>4, <1>6, <2>2
    <3>2. QED
      BY <1>4, <3>1
  <2>3. QED
    BY <1>6, <2>1, <2>2
<1>13. \A i \in 1 .. n + 1 : Leads(world, new, g[i], q[i - 1], q[i])
  <2> SUFFICES ASSUME NEW i \in 1 .. n + 1 PROVE Leads(world, new, g[i], q[i - 1], q[i])
    OBVIOUS
  <2>1. CASE i \in 1 .. n
    <3>1. Leads(world, secs, f[i], r[i - 1], r[i])
      BY <1>2, <2>1
    <3>2. Got(new[f[i][1]], f[i][2]) = Got(secs[f[i][1]], f[i][2])
      BY <1>7, <2>1
    <3>3. Leads(world, new, f[i], r[i - 1], r[i])
      BY <3>1, <3>2 DEF Leads
    <3>4. g[i] = f[i] /\ q[i - 1] = r[i - 1] /\ q[i] = r[i]
      BY <1>6, <2>1
    <3>5. QED
      BY <3>3, <3>4
  <2>2. CASE i = n + 1
    <3>1. i - 1 = n
      BY <1>2, <2>2
    <3>2. Leads(world, new, p, b, c)
      BY <1>3
    <3>3. g[i] = p /\ q[i - 1] = b /\ q[i] = c
      BY <1>6, <2>2, <3>1
    <3>4. QED
      BY <3>2, <3>3
  <2>3. QED
    BY <1>6, <2>1, <2>2
<1>14. n + 1 \in Nat
  BY <1>2
<1>15. Linked(world, new, S, n + 1, g, q)
  BY <1>6, <1>8, <1>9, <1>11, <1>12, <1>13, <1>14 DEF Linked
<1>16. QED
  BY <1>6, <1>15 DEF Links

-----------------------------------------------------------------------------
(* Every step of an atomic object keeps the order.                         *)

LEMMA PastFacts ==
    ASSUME NEW sec \in SectionType, NEW list, NEW limit \in Nat, NEW late, NEW object_,
           Fine(sec, list, limit, late, object_), sec.at \notin {"failing", "failed"}
    PROVE  Past(sec, limit)
<1>1. /\ Len(sec.intervals) = sec.actor - 1 /\ sec.actor \in Nat \ {0} /\ sec.invoked \in Nat
      /\ sec.at \in Live => sec.invoked <= limit
      /\ \A i \in 1 .. Len(sec.intervals) : /\ sec.intervals[i].invocation \in Nat
                                            /\ sec.intervals[i].response \in Nat
                                            /\ sec.intervals[i].invocation <= sec.intervals[i].response
                                            /\ sec.intervals[i].response <= limit
  BY SectionFacts DEF Fine, Progress, Timely, Orderly
<1>2. Performed(sec) \in Nat
  BY <1>1 DEF Performed
<1>3. \A i \in 1 .. Performed(sec) : i < sec.actor \/ (i = sec.actor /\ sec.at \in Live)
  BY <1>1 DEF Performed, Live
<1>4. ASSUME NEW i \in 1 .. Performed(sec), i < sec.actor
      PROVE  /\ BeganAt(sec, i) \in Nat /\ BeganAt(sec, i) <= limit
             /\ sec.intervals[i].response \in Nat
  <2>1. i \in 1 .. Len(sec.intervals)
    BY <1>1, <1>2, <1>4
  <2>2. BeganAt(sec, i) = sec.intervals[i].invocation
    BY <1>4 DEF BeganAt
  <2>3. QED
    BY <1>1, <2>1, <2>2
<1>5. ASSUME NEW i \in 1 .. Performed(sec), i = sec.actor, sec.at \in Live
      PROVE  BeganAt(sec, i) \in Nat /\ BeganAt(sec, i) <= limit
  BY <1>1, <1>5 DEF BeganAt
<1>6. QED
  BY <1>2, <1>3, <1>4, <1>5 DEF Past

LEMMA SameLogSame ==
    ASSUME NEW sec, NEW new, NEW time, new.actor = sec.actor, new.results = sec.results,
           new.intervals = sec.intervals, Performed(new) = Performed(sec),
           \A i \in 1 .. Performed(sec) :
              i < sec.actor \/ (new.value = sec.value /\ new.invoked = sec.invoked)
    PROVE  SameLog(sec, new, time)
  BY DEF SameLog, Got, BeganAt

LEMMA SameLogOver ==
    ASSUME NEW sec \in SectionType, sec.at = "returned", NEW time \in Nat, NEW later \in Nat, time <= later,
           Len(sec.results) = sec.actor - 1, Len(sec.intervals) = sec.actor - 1
    PROVE  SameLog(sec, Over(sec, later), time)
<1>1. PICK new : new = Over(sec, later)
  OBVIOUS
<1>2. PICK k, r, v, w : k = sec.actor /\ r = sec.results /\ v = sec.intervals /\ w = Span(sec, later)
  OBVIOUS
<1>3. /\ new.at = "next" /\ new.actor = k + 1 /\ k \in Nat \ {0}
      /\ new.results = Append(r, sec.value) /\ new.intervals = Append(v, w)
      /\ r \in Seq(Values) /\ v \in Seq(Interval) /\ Len(r) = k - 1 /\ Len(v) = k - 1
      /\ w.invocation = sec.invoked /\ w.response = later
  BY <1>1, <1>2, SectionFacts DEF Over, SectionType, Span
<1>4. Performed(sec) = k /\ Performed(new) = k
  BY <1>2, <1>3 DEF Performed
<1>5. /\ \A i \in 1 .. k - 1 : Append(r, sec.value)[i] = r[i] /\ Append(v, w)[i] = v[i]
      /\ Append(r, sec.value)[k] = sec.value /\ Append(v, w)[k] = w
  BY <1>3
<1>6. ASSUME NEW i \in 1 .. k
      PROVE  /\ Got(new, i) = Got(sec, i) /\ BeganAt(new, i) = BeganAt(sec, i)
             /\ \/ i < sec.actor /\ new.intervals[i] = sec.intervals[i]
                \/ time <= new.intervals[i].response
  <2>1. i < new.actor
    BY <1>3
  <2>2. CASE i < k
    <3>1. i \in 1 .. k - 1 /\ i < sec.actor
      BY <1>2, <1>3, <2>2
    <3>2. new.results[i] = sec.results[i] /\ new.intervals[i] = sec.intervals[i]
      BY <1>2, <1>3, <1>5, <3>1
    <3>3. Got(new, i) = Got(sec, i) /\ BeganAt(new, i) = BeganAt(sec, i)
      BY <2>1, <3>1, <3>2 DEF Got, BeganAt
    <3>4. QED
      BY <3>1, <3>2, <3>3
  <2>3. CASE i = k
    <3>1. ~(i < sec.actor)
      BY <1>2, <1>3, <2>3
    <3>2. new.results[i] = sec.value /\ new.intervals[i] = w
      BY <1>3, <1>5, <2>3
    <3>3. Got(new, i) = Got(sec, i) /\ BeganAt(new, i) = BeganAt(sec, i)
      BY <1>3, <2>1, <3>1, <3>2 DEF Got, BeganAt
    <3>4. time <= new.intervals[i].response
      BY <1>3, <3>2
    <3>5. QED
      BY <3>3, <3>4
  <2>4. QED
    BY <1>3, <2>2, <2>3
<1>7. QED
  BY <1>1, <1>4, <1>6 DEF SameLog

\* What leaves the logs of all sections alone leaves the order alone
LEMMA LinksAllKept ==
    ASSUME NEW world, NEW secs, NEW new, NEW S, NEW time \in Nat, NEW later,
           0 \in S, 1 .. world.threads \subseteq S, world.threads + 1 \in S,
           \A s \in S : SameLog(secs[s], new[s], time) /\ Past(secs[s], time) /\ Past(new[s], later),
           NEW last, LinksAll(world, secs, last)
    PROVE  LinksAll(world, new, last)
<1>1. PICK x \in States, y \in States :
          /\ Links(world, secs, {0}, Fresh, x) /\ Links(world, secs, 1 .. world.threads, x, y)
          /\ Links(world, secs, {world.threads + 1}, y, last)
  BY DEF LinksAll
<1>2. Links(world, new, {0}, Fresh, x)
  BY <1>1, LinksKept
<1>3. Links(world, new, 1 .. world.threads, x, y)
  BY <1>1, LinksKept
<1>4. Links(world, new, {world.threads + 1}, y, last)
  BY <1>1, LinksKept
<1>5. QED
  BY <1>2, <1>3, <1>4 DEF LinksAll

LEMMA SectionPast ==
    ASSUME RunInv, NEW s \in Sections, section[s].at \notin {"failing", "failed"}
    PROVE  Past(section[s], clock)
<1>1. section[s] \in SectionType /\ clock \in Nat
  BY DEF RunInv, TypeOK
<1>2. Fine(section[s], lists[s], clock, expired, config.object)
  BY DEF RunInv, SectionsFine
<1>3. QED
  BY <1>1, <1>2, PastFacts

\* A step that performs nothing
LEMMA LogStep ==
    ASSUME RunInv, RunInv', History, UNCHANGED <<config, lists, object>>,
           phase \in Running, phase' \in Running,
           Sane' => Sane /\ \A s \in Sections : SameLog(section[s], section'[s], clock)
    PROVE  History'
<1> SUFFICES ASSUME config.object = "atomic", Sane' PROVE LinksAll(World, section', object)
  <2>1. World' = World
    BY DEF World
  <2>2. phase' # "verify"
    BY DEF Running
  <2>3. QED
    BY <2>1, <2>2 DEF History
<1>1. LinksAll(World, section, object) /\ Sane
  BY DEF History
<1>2. Sections' = Sections /\ config' = config /\ lists' = lists
  BY SameConfig
<1>3. ASSUME NEW s \in Sections
      PROVE  SameLog(section[s], section'[s], clock) /\ Past(section[s], clock) /\ Past(section'[s], clock')
  <2>1. Past(section[s], clock)
    BY <1>1, SectionPast DEF Sane
  <2>2. /\ section'[s] \in SectionType /\ clock' \in Nat
        /\ Fine(section'[s], lists[s], clock', expired', config.object)
    BY <1>2 DEF RunInv, TypeOK, SectionsFine
  <2>3. section'[s].at \notin {"failing", "failed"}
    BY <1>2 DEF Sane
  <2>4. Past(section'[s], clock')
    BY <2>2, <2>3, PastFacts
  <2>5. QED
    BY <2>1, <2>4
<1>4. PICK world : world = World
  OBVIOUS
<1>5. world.threads = config.threads
  BY <1>4 DEF World
<1>6. 0 \in Sections /\ 1 .. world.threads \subseteq Sections /\ world.threads + 1 \in Sections
  BY <1>5, ConfigFacts DEF RunInv
<1>7. clock \in Nat
  BY DEF RunInv, TypeOK
<1>8. LinksAll(world, section', object)
  BY <1>1, <1>3, <1>4, <1>6, <1>7, LinksAllKept
<1>9. QED
  BY <1>4, <1>8

LEMMA SaneBefore ==
    ASSUME TypeOK, UNCHANGED <<config, lists, expired>>, NEW s \in Sections, NEW new,
           section' = [section EXCEPT ![s] = new], section[s].at \notin {"failing", "failed"},
           section[s].at = "thrown" => Operation(s).exceptionResults, Sane'
    PROVE  Sane /\ new.at \notin {"failing", "failed"}
<1>1. Sections' = Sections /\ section \in [Sections -> SectionType]
  BY SameConfig DEF TypeOK
<1>2. \A u \in Sections : section'[u] = IF u = s THEN new ELSE section[u]
  BY <1>1
<1>3. \A u \in Sections : u # s => Operation(u)' = Operation(u)
  BY <1>2 DEF Operation
<1>4. /\ ~expired
      /\ \A u \in Sections : /\ section'[u].at \notin {"failing", "failed"}
                             /\ section'[u].at = "thrown" => Operation(u)'.exceptionResults
  BY <1>1 DEF Sane
<1>5. new.at \notin {"failing", "failed"}
  BY <1>2, <1>4
<1>6. ASSUME NEW u \in Sections
      PROVE  /\ section[u].at \notin {"failing", "failed"}
             /\ section[u].at = "thrown" => Operation(u).exceptionResults
  BY <1>2, <1>3, <1>4
<1>7. QED
  BY <1>4, <1>5, <1>6 DEF Sane

LEMMA OneLog ==
    ASSUME RunInv, RunInv', History, UNCHANGED <<config, lists, expired, phase, object>>,
           phase \in Running, NEW s \in Sections, NEW new,
           section' = [section EXCEPT ![s] = new], section[s].at \notin {"failing", "failed"},
           section[s].at = "thrown" => Operation(s).exceptionResults,
           SameLog(section[s], new, clock)
    PROVE  History'
<1>1. TypeOK
  BY DEF RunInv
<1>2. Sane' => Sane
  BY <1>1, SaneBefore
<1>3. ASSUME NEW u \in Sections PROVE SameLog(section[u], section'[u], clock)
  <2>1. CASE u = s
    <3>1. section'[u] = new
      BY <1>1, <2>1 DEF TypeOK
    <3>2. QED
      BY <2>1, <3>1
  <2>2. CASE u # s
    <3>1. section'[u] = section[u]
      BY <1>1, <2>2 DEF TypeOK
    <3>2. SameLog(section[u], section[u], clock)
      BY SameLogSame
    <3>3. QED
      BY <3>1, <3>2
  <2>3. QED
    BY <2>1, <2>2
<1>4. QED
  BY <1>2, <1>3, LogStep

\* The deadline has passed, or a section is on its way out
LEMMA NotSane ==
    ASSUME phase' \in Running, ~Sane'
    PROVE  History'
<1>1. phase' # "verify"
  BY DEF Running
<1>2. QED
  BY <1>1 DEF History

LEMMA FailingIsNotSane ==
    ASSUME TypeOK, config' = config, NEW s \in Sections, NEW new,
           section' = [section EXCEPT ![s] = new], new.at \in {"failing", "failed"}
    PROVE  ~Sane'
<1>1. Sections' = Sections /\ section'[s] = new
  BY SameConfig DEF TypeOK
<1>2. QED
  BY <1>1 DEF Sane

LEMMA InvokeLogs ==
    ASSUME RunInv, RunInv', History, phase \in Running, NEW s \in Sections, Invoke(s)
    PROVE  History'
<1>1. TypeOK /\ Fine(section[s], lists[s], clock, expired, config.object)
  BY DEF RunInv, SectionsFine
<1>2. PICK sec, new :
          /\ Operated(s, sec, new) /\ sec.at = "next" /\ object' = object
          /\ new = [sec EXCEPT !.invoked = clock', !.value = IF expired THEN TimeoutValue ELSE @,
                               !.at = IF expired THEN "failing" ELSE "called"]
  BY <1>1, InvokeFacts
<1>3. /\ sec \in SectionType /\ sec = section[s] /\ section' = [section EXCEPT ![s] = new]
      /\ UNCHANGED <<config, lists, expired, phase, object>>
  BY <1>2 DEF Operated, Invoke, RunUnchanged
<1>4. /\ new.at = (IF expired THEN "failing" ELSE "called") /\ new.actor = sec.actor
      /\ new.results = sec.results /\ new.intervals = sec.intervals
  BY <1>2, <1>3 DEF SectionType
<1>5. CASE expired
  <2>1. new.at = "failing"
    BY <1>4, <1>5
  <2>2. QED
    BY <1>1, <1>3, <2>1, FailingIsNotSane, NotSane
<1>6. CASE ~expired
  <2>1. Performed(sec) = sec.actor - 1 /\ Performed(new) = sec.actor - 1 /\ sec.actor \in Nat
    BY <1>2, <1>3, <1>4, <1>6, SectionFacts DEF Performed
  <2>2. \A i \in 1 .. Performed(sec) : i < sec.actor
    BY <2>1
  <2>3. SameLog(sec, new, clock)
    BY <1>4, <2>1, <2>2, SameLogSame
  <2>4. QED
    BY <1>2, <1>3, <2>3, OneLog
<1>7. QED
  BY <1>5, <1>6

LEMMA CatchLogs ==
    ASSUME RunInv, RunInv', History, phase \in Running, NEW s \in Sections, Catch(s)
    PROVE  History'
<1>1. TypeOK /\ Fine(section[s], lists[s], clock, expired, config.object)
  BY DEF RunInv, SectionsFine
<1>2. PICK sec, new :
          /\ Operated(s, sec, new) /\ sec.at = "thrown"
          /\ \/ /\ Operation(s).exceptionResults /\ clock' = clock
                /\ new = [sec EXCEPT !.at = "returned"]
             \/ ~Operation(s).exceptionResults /\ new.at = "failing"
  BY <1>1, CatchFacts
<1>3. /\ sec \in SectionType /\ sec = section[s] /\ section' = [section EXCEPT ![s] = new]
      /\ UNCHANGED <<config, lists, expired, phase, object>>
  BY <1>2 DEF Operated, Catch, RunUnchanged
<1>4. CASE new.at = "failing"
  BY <1>1, <1>3, <1>4, FailingIsNotSane, NotSane
<1>5. CASE Operation(s).exceptionResults /\ new = [sec EXCEPT !.at = "returned"]
  <2>1. /\ new.at = "returned" /\ new.actor = sec.actor /\ new.value = sec.value
        /\ new.invoked = sec.invoked /\ new.results = sec.results /\ new.intervals = sec.intervals
    BY <1>3, <1>5 DEF SectionType
  <2>2. Performed(sec) = sec.actor /\ Performed(new) = sec.actor
    BY <1>2, <2>1 DEF Performed
  <2>3. SameLog(sec, new, clock)
    BY <2>1, <2>2, SameLogSame
  <2>4. QED
    BY <1>2, <1>3, <1>5, <2>3, OneLog
<1>6. QED
  BY <1>2, <1>4, <1>5

LEMMA RespondLogs ==
    ASSUME RunInv, RunInv', History, phase \in Running, NEW s \in Sections, Respond(s)
    PROVE  History'
<1>1. TypeOK /\ Fine(section[s], lists[s], clock, expired, config.object) /\ clock \in Nat
  BY DEF RunInv, SectionsFine, TypeOK
<1>2. PICK sec, new :
          /\ Operated(s, sec, new) /\ sec.at = "returned"
          /\ \/ expired /\ new.at = "failing"
             \/ ~expired /\ new = Over(sec, clock')
  BY <1>1, RespondFacts
<1>3. /\ sec \in SectionType /\ sec = section[s] /\ section' = [section EXCEPT ![s] = new]
      /\ clock' \in Nat /\ clock <= clock'
      /\ UNCHANGED <<config, lists, expired, phase, object>>
  BY <1>2 DEF Operated, Respond, RunUnchanged
<1>4. CASE new.at = "failing"
  BY <1>1, <1>3, <1>4, FailingIsNotSane, NotSane
<1>5. CASE new = Over(sec, clock')
  <2>1. Len(sec.results) = sec.actor - 1 /\ Len(sec.intervals) = sec.actor - 1
    BY <1>1, <1>2, <1>3 DEF Fine, Progress
  <2>2. SameLog(sec, new, clock)
    BY <1>1, <1>2, <1>3, <1>5, <2>1, SameLogOver
  <2>3. QED
    BY <1>2, <1>3, <2>2, OneLog
<1>6. QED
  BY <1>2, <1>4, <1>5

LEMMA ArriveLogs ==
    ASSUME RunInv, RunInv', History, NEW t \in Workers, Arrive(t)
    PROVE  History'
<1>1. TypeOK /\ t \in Sections
  BY ConfigFacts DEF RunInv
<1>2. PICK sec \in SectionType : sec = section[t]
  BY <1>1, SetSection
<1>3. PICK at : at = IF start.flag THEN "next" ELSE "asleep"
  OBVIOUS
<1>4. PICK new : new = [sec EXCEPT !.at = at]
  OBVIOUS
<1>5. /\ sec.at = "idle" /\ phase = "parallel" /\ section' = [section EXCEPT ![t] = new]
      /\ UNCHANGED <<config, lists, expired, phase, object>>
  BY <1>1, <1>2, <1>3, <1>4 DEF Arrive, TypeOK
<1>6. /\ new.at = at /\ new.actor = sec.actor /\ new.value = sec.value
      /\ new.invoked = sec.invoked /\ new.results = sec.results /\ new.intervals = sec.intervals
  BY <1>4 DEF SectionType
<1>7. Performed(new) = Performed(sec)
  BY <1>3, <1>5, <1>6 DEF Performed
<1>8. SameLog(sec, new, clock)
  BY <1>6, <1>7, SameLogSame
<1>9. phase \in Running
  BY <1>5 DEF Running
<1>10. QED
  BY <1>1, <1>2, <1>5, <1>8, <1>9, OneLog

LEMMA KeepLogs ==
    ASSUME RunInv, NEW t \in Workers, Keep(t)
    PROVE  History'
<1>1. TypeOK /\ t \in Sections
  BY ConfigFacts DEF RunInv
<1>2. PICK new : new = [section[t] EXCEPT !.at = "failed"]
  OBVIOUS
<1>3. section' = [section EXCEPT ![t] = new] /\ new.at = "failed"
  BY <1>1, <1>2, SetSection DEF Keep, TypeOK, SectionType
<1>4. phase' \in Running /\ config' = config
  BY DEF Keep, Running
<1>5. QED
  BY <1>1, <1>3, <1>4, FailingIsNotSane, NotSane

\* EndInit and Start leave the sections alone
LEMMA StandsStillLogs ==
    ASSUME RunInv, RunInv', History, phase \in Running, phase' \in Running,
           UNCHANGED <<config, lists, object, section, expired>>
    PROVE  History'
<1>1. Sections' = Sections /\ \A s \in Sections : Operation(s)' = Operation(s)
  BY SameConfig DEF Operation
<1>2. Sane' => Sane
  BY <1>1 DEF Sane
<1>3. \A s \in Sections : SameLog(section[s], section'[s], clock)
  BY SameLogSame
<1>4. QED
  BY <1>2, <1>3, LogStep

LEMMA NotifyAllLogs ==
    ASSUME RunInv, RunInv', History, NotifyAll
    PROVE  History'
<1>1. /\ UNCHANGED <<config, phase, lists, object, expired>> /\ phase = "parallel"
      /\ section' = [s \in Sections |->
                      IF section[s].at = "asleep" THEN [section[s] EXCEPT !.at = "next"] ELSE section[s]]
  BY DEF NotifyAll, MainUnchanged
<1>2. ASSUME NEW s \in Sections
      PROVE  /\ SameLog(section[s], section'[s], clock)
             /\ section'[s].at = section[s].at \/ section[s].at = "asleep"
             /\ section'[s].actor = section[s].actor
  <2>1. PICK sec \in SectionType : sec = section[s]
    BY SetSection DEF RunInv
  <2>2. CASE sec.at = "asleep"
    <3>1. PICK new : new = [sec EXCEPT !.at = "next"]
      OBVIOUS
    <3>2. /\ new.at = "next" /\ new.actor = sec.actor /\ new.value = sec.value
          /\ new.invoked = sec.invoked /\ new.results = sec.results /\ new.intervals = sec.intervals
      BY <3>1 DEF SectionType
    <3>3. Performed(new) = Performed(sec)
      BY <2>2, <3>2 DEF Performed
    <3>4. SameLog(sec, new, clock)
      BY <3>2, <3>3, SameLogSame
    <3>5. section'[s] = new
      BY <1>1, <2>1, <2>2, <3>1
    <3>6. QED
      BY <2>1, <2>2, <3>2, <3>4, <3>5
  <2>3. CASE sec.at # "asleep"
    <3>1. section'[s] = sec
      BY <1>1, <2>1, <2>3
    <3>2. SameLog(sec, sec, clock)
      BY SameLogSame
    <3>3. QED
      BY <2>1, <3>1, <3>2
  <2>4. QED
    BY <2>2, <2>3
<1>3. Sections' = Sections
  BY <1>1, SameConfig
<1>4. \A s \in Sections : Operation(s)' = Operation(s)
  BY <1>1, <1>2 DEF Operation
<1>5. Sane' => Sane
  BY <1>1, <1>2, <1>3, <1>4 DEF Sane
<1>6. QED
  BY <1>1, <1>2, <1>5, LogStep DEF Running

LEMMA JoinLogs ==
    ASSUME RunInv, RunInv', History, Join
    PROVE  History'
<1>1. UNCHANGED <<config, lists, object, expired>> /\ phase = "parallel"
  BY DEF Join, MainUnchanged
<1>2. TypeOK /\ Control
  BY DEF RunInv
<1>3. CASE phase' = "done"
  BY <1>3 DEF History, Running
<1>4. CASE phase' = "post" /\ section' = [section EXCEPT ![Post].at = "next"]
  <2>1. section[Post] = Idle /\ Post \in Sections
    BY <1>1, <1>2, ConfigFacts DEF Control
  <2>2. PICK new : new = [Idle EXCEPT !.at = "next"]
    OBVIOUS
  <2>3. section' = [section EXCEPT ![Post] = new]
    BY <1>2, <1>4, <2>1, <2>2 DEF TypeOK
  <2>4. /\ new.at = "next" /\ new.actor = Idle.actor /\ new.value = Idle.value
        /\ new.invoked = Idle.invoked /\ new.results = Idle.results /\ new.intervals = Idle.intervals
    BY <2>2 DEF Idle
  <2>5. Performed(new) = Performed(Idle)
    BY <2>4, IdleFacts DEF Performed
  <2>6. SameLog(Idle, new, clock)
    BY <2>4, <2>5, SameLogSame
  <2>7. \A s \in Sections : section'[s] = IF s = Post THEN new ELSE section[s]
    BY <1>2, <2>3 DEF TypeOK
  <2>8. ASSUME NEW s \in Sections PROVE SameLog(section[s], section'[s], clock)
    BY <2>1, <2>6, <2>7, SameLogSame
  <2>9. Sections' = Sections
    BY <1>1, SameConfig
  <2>10. \A s \in Sections : s # Post => Operation(s)' = Operation(s)
    BY <1>1, <2>7 DEF Operation
  <2>11. Sane' => Sane
    <3>1. SUFFICES ASSUME Sane' PROVE Sane
      OBVIOUS
    <3>2. /\ ~expired
          /\ \A s \in Sections : /\ section'[s].at \notin {"failing", "failed"}
                                 /\ section'[s].at = "thrown" => Operation(s)'.exceptionResults
      BY <1>1, <2>9, <3>1 DEF Sane
    <3>3. ASSUME NEW s \in Sections
          PROVE  /\ section[s].at \notin {"failing", "failed"}
                 /\ section[s].at = "thrown" => Operation(s).exceptionResults
      BY <2>1, <2>7, <2>10, <3>2, IdleFacts
    <3>4. QED
      BY <3>2, <3>3 DEF Sane
  <2>12. QED
    BY <1>1, <1>4, <2>8, <2>11, LogStep DEF Running
<1>5. QED
  BY <1>3, <1>4 DEF Join, Finish

\* Sections that stay as they are keep their order
LEMMA LinksSame ==
    ASSUME NEW world, NEW secs, NEW new, NEW S, NEW time \in Nat,
           \A s \in S : new[s] = secs[s] /\ Past(secs[s], time),
           NEW a, NEW b, Links(world, secs, S, a, b)
    PROVE  Links(world, new, S, a, b)
<1>1. \A s \in S : SameLog(secs[s], new[s], time)
  BY SameLogSame
<1>2. \A s \in S : Past(new[s], time)
  OBVIOUS
<1>3. QED
  BY <1>1, <1>2, LinksKept

\* An idle section has performed nothing
LEMMA IdlePlaces ==
    ASSUME NEW secs, NEW S, \A s \in S : Performed(secs[s]) = 0
    PROVE  PerformedPlaces(secs, S) = {}
  BY DEF PerformedPlaces

\* What an operation that is performed adds
LEMMA PerformedFacts ==
    ASSUME RunInv, NEW s \in Sections, NEW sec, NEW new, NEW answer,
           Answers_(s, sec, new, object, answer), sec.at = "called",
           UNCHANGED <<config, lists>>, Sane'
    PROVE  /\ Performed(new) = Performed(sec) + 1 /\ new.actor = Performed(new)
           /\ new.actor = sec.actor /\ new.intervals = sec.intervals
           /\ \A i \in 1 .. Performed(sec) : Got(new, i) = Got(sec, i) /\ BeganAt(new, i) = BeganAt(sec, i)
           /\ Leads(World, section', <<s, Performed(new)>>, object, object')
<1>1. /\ TypeOK /\ sec = section[s] /\ sec \in SectionType /\ section' = [section EXCEPT ![s] = new]
      /\ answer = Sequential(Operation(s).name, object) /\ object' = answer.next
      /\ new = [sec EXCEPT !.at = IF answer.throws THEN "thrown" ELSE "returned",
                           !.value = IF answer.throws THEN Thrown ELSE answer.value]
      /\ sec.actor <= Len(lists[s])
  BY DEF RunInv, Answers_, Operated
<1>2. object \in States /\ Operation(s) \in OperationOptions
  BY <1>1, OperationFacts DEF TypeOK
<1>3. answer \in [throws : BOOLEAN, value : Values, next : States]
  BY <1>1, <1>2, SequentialFacts
<1>4. /\ new.at = (IF answer.throws THEN "thrown" ELSE "returned")
      /\ new.value = (IF answer.throws THEN Thrown ELSE answer.value)
      /\ new.actor = sec.actor /\ new.results = sec.results /\ new.intervals = sec.intervals
  BY <1>1 DEF SectionType
<1>5. /\ Performed(sec) = sec.actor - 1 /\ Performed(new) = sec.actor /\ sec.actor \in Nat \ {0}
  BY <1>1, <1>4, SectionFacts DEF Performed
<1>6. \A i \in 1 .. Performed(sec) : i < sec.actor
  BY <1>5
<1>7. \A i \in 1 .. Performed(sec) : Got(new, i) = Got(sec, i) /\ BeganAt(new, i) = BeganAt(sec, i)
  BY <1>4, <1>6 DEF Got, BeganAt
<1>8. section'[s] = new
  BY <1>1 DEF TypeOK
<1>9. Leads(World, section', <<s, Performed(new)>>, object, object')
  <2>1. PICK k : k = sec.actor
    OBVIOUS
  <2>2. World.operations[World.lists[s][k]] = Operation(s)
    BY <1>1, <2>1 DEF World, Operation
  <2>3. Got(new, k) = new.value
    BY <1>4, <1>5, <2>1 DEF Got
  <2>4. answer.throws => Operation(s).exceptionResults
    <3>1. Operation(s)' = Operation(s)
      BY <1>1, <1>4, <1>8 DEF Operation
    <3>2. new.at = "thrown" => Operation(s)'.exceptionResults
      BY <1>8, SameConfig DEF Sane
    <3>3. QED
      BY <1>4, <3>1, <3>2
  <2>5. PICK result : result = RunSequential(Operation(s), object)
    OBVIOUS
  <2>6. ~result.throws /\ result.value = new.value /\ result.next = object'
    <3>1. CASE answer.throws
      <4>1. result = [answer EXCEPT !.throws = FALSE, !.value = Thrown]
        BY <1>1, <2>4, <2>5, <3>1 DEF RunSequential
      <4>2. QED
        BY <1>1, <1>3, <1>4, <3>1, <4>1
    <3>2. CASE ~answer.throws
      <4>1. result = answer
        BY <1>1, <2>5, <3>2 DEF RunSequential
      <4>2. QED
        BY <1>1, <1>4, <3>2, <4>1
    <3>3. QED
      BY <3>1, <3>2
  <2>7. PICK p : p = <<s, k>>
    OBVIOUS
  <2>8. Leads(World, section', p, object, object')
    <3>1. p[1] = s /\ p[2] = k
      BY <2>7
    <3>2. QED
      BY <1>8, <2>2, <2>3, <2>5, <2>6, <3>1 DEF Leads
  <2>9. QED
    BY <1>5, <2>1, <2>7, <2>8
<1>10. QED
  BY <1>4, <1>5, <1>7, <1>9

LEMMA PerformLogs ==
    ASSUME RunInv, RunInv', History, NEW s \in Sections, Perform(s),
           \/ phase = "init" /\ s = 0
           \/ phase = "post" /\ s = Post
           \/ phase = "parallel" /\ s \in Workers
    PROVE  History'
<1>1. TypeOK /\ Control /\ Fine(section[s], lists[s], clock, expired, config.object)
  BY DEF RunInv, SectionsFine
<1>2. config.object = "atomic" /\ \E sec, new, answer : Answers_(s, sec, new, object, answer) /\ sec.at = "called"
  BY <1>1, PerformFacts
<1>3. PICK sec, new, answer : Answers_(s, sec, new, object, answer) /\ sec.at = "called"
  BY <1>2
<1>4. UNCHANGED <<config, lists, expired, phase>>
  BY DEF Perform, RunUnchanged
<1>5. phase \in Running
  BY DEF Running
<1> SUFFICES ASSUME Sane' PROVE LinksAll(World, section', object')
  <2>1. World' = World
    BY <1>4 DEF World
  <2>2. phase' # "verify"
    BY <1>4, <1>5 DEF Running
  <2>3. QED
    BY <2>1, <2>2 DEF History
<1>6. /\ sec = section[s] /\ section' = [section EXCEPT ![s] = new] /\ object' \in States
      /\ object \in States
  BY <1>1, <1>3 DEF Answers_, Operated, TypeOK
<1>7. /\ Performed(new) = Performed(sec) + 1 /\ new.actor = Performed(new)
      /\ new.actor = sec.actor /\ new.intervals = sec.intervals
      /\ \A i \in 1 .. Performed(sec) : Got(new, i) = Got(sec, i) /\ BeganAt(new, i) = BeganAt(sec, i)
      /\ Leads(World, section', <<s, Performed(new)>>, object, object')
  BY <1>3, <1>4, PerformedFacts
<1>8. Sane
  BY <1>1, <1>3, <1>4, <1>6, SaneBefore
<1>9. LinksAll(World, section, object)
  BY <1>2, <1>5, <1>8 DEF History
<1>10. \A u \in Sections : section'[u] = IF u = s THEN new ELSE section[u]
  BY <1>1, <1>6 DEF TypeOK
<1>11. \A u \in Sections : Past(section[u], clock) /\ Performed(section[u]) \in Nat
  BY <1>8, SectionPast DEF Sane, Past
<1>12. clock \in Nat
  BY <1>1 DEF TypeOK
<1>13. PICK world, secs, after : world = World /\ secs = section /\ after = section'
  OBVIOUS
<1>14. world.threads = config.threads
  BY <1>13 DEF World
<1>15. PICK x \in States, y \in States :
          /\ Links(world, secs, {0}, Fresh, x) /\ Links(world, secs, Workers, x, y)
          /\ Links(world, secs, {Post}, y, object)
  BY <1>9, <1>13, <1>14 DEF LinksAll, Post, Workers
<1>16. /\ {0} \subseteq Sections /\ Workers \subseteq Sections /\ {Post} \subseteq Sections
       /\ 0 \notin Workers /\ Post \notin Workers /\ Post # 0
  BY <1>1, ConfigFacts
\* The order of the sections S goes on with this operation, or as it was
<1>17. ASSUME NEW S \in {{0}, Workers, {Post}}, s \in S, NEW a, Links(world, secs, S, a, object)
       PROVE  Links(world, after, S, a, object')
  <2>1. S \subseteq Sections
    BY <1>16
  <2>2. \A u \in S \ {s} : after[u] = secs[u]
    BY <1>10, <1>13, <2>1
  <2>3. \A u \in S : Performed(secs[u]) \in Nat
    BY <1>11, <1>13, <2>1
  <2>4. after[s] = new /\ secs[s] = sec
    BY <1>6, <1>10, <1>13
  <2>5. Leads(world, after, <<s, Performed(after[s])>>, object, object')
    BY <1>7, <1>13, <2>4
  <2>6. /\ Performed(after[s]) = Performed(secs[s]) + 1 /\ after[s].actor = secs[s].actor
        /\ after[s].actor = Performed(after[s]) /\ after[s].intervals = secs[s].intervals
        /\ \A i \in 1 .. Performed(secs[s]) :
              Got(after[s], i) = Got(secs[s], i) /\ BeganAt(after[s], i) = BeganAt(secs[s], i)
    BY <1>7, <2>4
  <2>7. QED
    BY <1>6, <1>17, <2>2, <2>3, <2>5, <2>6, LinksNext
<1>18. ASSUME NEW S \in {{0}, Workers, {Post}}, s \notin S, NEW a, NEW b, Links(world, secs, S, a, b)
       PROVE  Links(world, after, S, a, b)
  <2>1. \A u \in S : after[u] = secs[u] /\ Past(secs[u], clock)
    BY <1>10, <1>11, <1>13, <1>16, <1>18
  <2>2. QED
    BY <1>12, <1>18, <2>1, LinksSame
\* Sections that are idle have led, and lead, nowhere
<1>19. ASSUME NEW S \in {{0}, Workers, {Post}}, s \notin S, \A u \in S : section[u] = Idle
       PROVE  /\ \A a, b : Links(world, secs, S, a, b) => a = b
              /\ Links(world, after, S, object', object')
  <2>1. Performed(Idle) = 0
    BY DEF Performed, Idle
  <2>2. PerformedPlaces(secs, S) = {} /\ PerformedPlaces(after, S) = {}
    <3>1. \A u \in S : secs[u] = Idle /\ after[u] = Idle
      BY <1>10, <1>13, <1>16, <1>19
    <3>2. QED
      BY <2>1, <3>1, IdlePlaces
  <2>3. QED
    BY <1>6, <2>2, LinksNone
<1>20. CASE phase = "init" /\ s = 0
  <2>1. \A u \in Sections \ {0} : section[u] = Idle
    BY <1>1, <1>20 DEF Control
  <2>2. /\ s \notin Workers /\ \A u \in Workers : section[u] = Idle
        /\ s \notin {Post} /\ \A u \in {Post} : section[u] = Idle
    BY <1>16, <1>20, <2>1
  <2>3. x = y /\ y = object
    BY <1>15, <1>19, <2>2
  <2>4. Links(world, after, {0}, Fresh, object')
    BY <1>15, <1>17, <1>20, <2>3
  <2>5. Links(world, after, Workers, object', object') /\ Links(world, after, {Post}, object', object')
    BY <1>19, <2>2
  <2>6. QED
    BY <1>6, <1>13, <1>14, <2>4, <2>5 DEF LinksAll, Post, Workers
<1>21. CASE phase = "parallel" /\ s \in Workers
  <2>1. s \notin {Post} /\ (\A u \in {Post} : section[u] = Idle) /\ s \notin {0}
    BY <1>1, <1>16, <1>21 DEF Control
  <2>2. y = object
    BY <1>15, <1>19, <2>1
  <2>3. Links(world, after, {0}, Fresh, x)
    BY <1>15, <1>18, <2>1
  <2>4. Links(world, after, Workers, x, object')
    BY <1>15, <1>17, <1>21, <2>2
  <2>5. Links(world, after, {Post}, object', object')
    BY <1>19, <2>1
  <2>6. QED
    BY <1>6, <1>13, <1>14, <1>15, <2>3, <2>4, <2>5 DEF LinksAll, Post, Workers
<1>22. CASE phase = "post" /\ s = Post
  <2>1. s \notin {0} /\ s \notin Workers /\ s \in {Post}
    BY <1>16, <1>22
  <2>2. Links(world, after, {0}, Fresh, x) /\ Links(world, after, Workers, x, y)
    BY <1>15, <1>18, <2>1
  <2>3. Links(world, after, {Post}, y, object')
    BY <1>15, <1>17, <2>1
  <2>4. QED
    BY <1>13, <1>14, <1>15, <2>2, <2>3 DEF LinksAll, Post, Workers
<1>23. QED
  BY <1>20, <1>21, <1>22

LEMMA EndPostLogs ==
    ASSUME RunInv, RunInv', History, EndPost
    PROVE  History'
<1>1. /\ UNCHANGED <<config, lists, object, expired>> /\ phase = "post" /\ Finished(Post)
  BY DEF EndPost, MainUnchanged
<1>2. TypeOK /\ Control
  BY DEF RunInv
<1>3. CASE phase' = "done"
  BY <1>3 DEF History, Running
<1>4. CASE phase' = "verify" /\ execution' = Collected /\ ~expired
  <2>1. \A s \in Sections : Finished(s)
    BY <1>1, <1>2, ConfigFacts DEF Control, Running
  <2>2. Sane
    BY <1>4, <2>1 DEF Sane, Finished
  <2>3. /\ Sections' = Sections /\ Post' = Post /\ Workers' = Workers /\ World' = World
    BY <1>1, SameConfig DEF World
  <2>4. ASSUME NEW s \in Sections
        PROVE  ResultsIn(s)' = section[s].results /\ execution'.intervals[s] = section[s].intervals
    <3>1. s = 0 \/ s = Post \/ s \in Workers
      BY <1>2, ConfigFacts
    <3>2. Post # 0 /\ 0 \notin Workers /\ Post \notin Workers
      BY <1>2, ConfigFacts
    <3>3. QED
      BY <1>4, <2>3, <3>1, <3>2 DEF ResultsIn, Collected
  <2>5. PICK after : after = [s \in Sections |->
               [Idle EXCEPT !.at = "next", !.actor = Len(lists[s]) + 1, !.results = section[s].results,
                            !.intervals = section[s].intervals]]
    OBVIOUS
  <2>6. Recorded' = after
    BY <1>1, <2>3, <2>4, <2>5 DEF Recorded
  <2>7. ASSUME NEW s \in Sections
        PROVE  /\ SameLog(section[s], after[s], clock) /\ Past(section[s], clock) /\ Past(after[s], clock)
    <3>1. PICK sec, new : sec = section[s] /\ new = after[s]
      OBVIOUS
    <3>2. /\ new.at = "next" /\ new.actor = Len(lists[s]) + 1 /\ new.results = sec.results
          /\ new.intervals = sec.intervals
      BY <2>5, <3>1 DEF Idle
    <3>3. sec.at = "next" /\ sec.actor = Len(lists[s]) + 1 /\ Len(lists[s]) \in Nat
      BY <1>2, <2>1, <3>1, FinishedFacts, SetSection DEF Finished
    <3>4. Performed(sec) = Len(lists[s]) /\ Performed(new) = Len(lists[s])
      BY <3>2, <3>3 DEF Performed
    <3>5. \A i \in 1 .. Performed(sec) : i < sec.actor /\ i < new.actor
      BY <3>2, <3>3, <3>4
    <3>6. SameLog(sec, new, clock)
      BY <3>2, <3>3, <3>4, <3>5, SameLogSame
    <3>7. Past(sec, clock)
      BY <3>1, <3>3, SectionPast
    <3>8. Past(new, clock)
      BY <3>2, <3>3, <3>4, <3>5, <3>7 DEF Past, BeganAt
    <3>9. QED
      BY <3>1, <3>6, <3>7, <3>8
  <2>8. ASSUME config.object = "atomic" PROVE LinksAll(World, after, object)
    <3>1. LinksAll(World, section, object)
      BY <1>1, <2>2, <2>8 DEF History, Running
    <3>2. PICK world, secs : world = World /\ secs = section
      OBVIOUS
    <3>3. world.threads = config.threads
      BY <3>2 DEF World
    <3>4. 0 \in Sections /\ 1 .. world.threads \subseteq Sections /\ world.threads + 1 \in Sections
      BY <1>2, <3>3, ConfigFacts
    <3>5. clock \in Nat
      BY <1>2 DEF TypeOK
    <3>6. QED
      BY <2>7, <3>1, <3>2, <3>4, <3>5, LinksAllKept
  <2>9. QED
    BY <1>1, <1>4, <2>3, <2>6, <2>8 DEF History, Running
<1>5. QED
  BY <1>3, <1>4 DEF EndPost, Finish

LEMMA DeadlinePassesLogs ==
    ASSUME RunInv, History, DeadlinePasses
    PROVE  History'
<1>1. /\ UNCHANGED <<config, lists, object, section, phase, execution>> /\ expired'
  BY DEF DeadlinePasses
<1>2. ~Sane'
  BY <1>1 DEF Sane
<1>3. Sections' = Sections /\ Post' = Post /\ Workers' = Workers /\ World' = World
  BY <1>1, SameConfig DEF World
<1>4. Recorded' = Recorded
  BY <1>1, <1>3 DEF Recorded, ResultsIn
<1>5. QED
  BY <1>1, <1>2, <1>3, <1>4 DEF History

\* A fresh object, and nothing performed
LEMMA BeginInvocationLogs ==
    ASSUME RunInv, BeginInvocation, UNCHANGED <<config, lists>>
    PROVE  History'
<1>1. /\ phase' = "init" /\ object' = Fresh
      /\ section' = [s \in Sections |-> [Idle EXCEPT !.at = IF s = 0 THEN "next" ELSE "idle"]]
  BY DEF BeginInvocation
<1>2. World' = World
  BY DEF World
<1>3. PICK world, secs : world = World /\ secs = section'
  OBVIOUS
<1>4. \A s \in Sections : Performed(secs[s]) = 0
  <2> SUFFICES ASSUME NEW s \in Sections PROVE Performed(secs[s]) = 0
    OBVIOUS
  <2>1. PICK at : at = IF s = 0 THEN "next" ELSE "idle"
    OBVIOUS
  <2>2. PICK sec : sec = [Idle EXCEPT !.at = at]
    OBVIOUS
  <2>3. sec.at = at /\ sec.actor = 1
    BY <2>2 DEF Idle
  <2>4. secs[s] = sec
    BY <1>1, <1>3, <2>1, <2>2
  <2>5. QED
    BY <2>1, <2>3, <2>4 DEF Performed
<1>5. world.threads = config.threads
  BY <1>3 DEF World
<1>6. 0 \in Sections /\ 1 .. world.threads \subseteq Sections /\ world.threads + 1 \in Sections
  BY <1>5, ConfigFacts DEF RunInv
<1>7. ASSUME NEW S \in SUBSET Sections PROVE Links(world, secs, S, Fresh, Fresh)
  <2>1. PerformedPlaces(secs, S) = {}
    BY <1>4, IdlePlaces
  <2>2. Fresh \in States
    BY SequentialAssumption
  <2>3. QED
    BY <2>1, <2>2, LinksNone
<1>8. LinksAll(world, secs, Fresh)
  <2>1. /\ Links(world, secs, {0}, Fresh, Fresh) /\ Links(world, secs, 1 .. world.threads, Fresh, Fresh)
        /\ Links(world, secs, {world.threads + 1}, Fresh, Fresh)
    BY <1>6, <1>7
  <2>2. Fresh \in States
    BY SequentialAssumption
  <2>3. QED
    BY <2>1, <2>2 DEF LinksAll
<1>9. phase' # "verify"
  BY <1>1
<1>10. QED
  BY <1>1, <1>2, <1>3, <1>8, <1>9 DEF History

LEMMA OperateLogs ==
    ASSUME RunInv, RunInv', History, NEW s \in Sections, Operate(s),
           \/ phase = "init" /\ s = 0
           \/ phase = "post" /\ s = Post
           \/ s \in Workers
    PROVE  History'
<1>1. /\ RunUnchanged
      /\ \/ phase = "init" /\ s = 0
         \/ phase = "post" /\ s = Post
         \/ phase \in {"parallel", "done"} /\ s \in Workers
  BY OperatePhase
<1>2. CASE phase = "done"
  BY <1>1, <1>2 DEF RunUnchanged, History, Running
<1>3. CASE phase # "done"
  <2>1. phase \in Running /\ phase' = phase /\ expired' = expired
    BY <1>1, <1>3 DEF Running, RunUnchanged
  <2>2. TypeOK /\ Fine(section[s], lists[s], clock, expired, config.object)
    BY DEF RunInv, SectionsFine
  <2>3. CASE Invoke(s)
    BY <2>1, <2>3, InvokeLogs
  <2>4. CASE Perform(s)
    BY <1>1, <1>3, <2>4, PerformLogs
  <2>5. CASE Load(s) \/ Store(s)
    <3>1. config.object = "racy"
      BY <2>2, <2>5, LoadFacts, StoreFacts
    <3>2. config' = config
      BY <1>1 DEF RunUnchanged
    <3>3. QED
      BY <3>1, <3>2 DEF History
  <2>6. CASE DieInside(s)
    <3>1. expired
      BY <2>2, <2>6, DieInsideFacts
    <3>2. ~Sane'
      BY <2>1, <3>1 DEF Sane
    <3>3. QED
      BY <2>1, <3>2, NotSane
  <2>7. CASE Catch(s)
    BY <2>1, <2>7, CatchLogs
  <2>8. CASE Respond(s)
    BY <2>1, <2>8, RespondLogs
  <2>9. QED
    BY <2>3, <2>4, <2>5, <2>6, <2>7, <2>8 DEF Operate
<1>4. QED
  BY <1>2, <1>3

\* A step that does not judge, nor run
LEMMA ElsewhereLogs ==
    ASSUME phase' \in {"generate", "done"}
    PROVE  History'
  BY DEF History, Running

LEMMA HistoryNext ==
    ASSUME RunInv, RunInv', History, [Next]_vars
    PROVE  History'
<1>1. CASE GenerateActor \/ EndList
  BY <1>1, ElsewhereLogs DEF GenerateActor, EndList
<1>2. CASE EndGeneration
  <2>1. CASE HasParallelActor(Scenario) /\ config.invocations > 0
    BY <1>2, <2>1, BeginInvocationLogs DEF EndGeneration
  <2>2. CASE ~(HasParallelActor(Scenario) /\ config.invocations > 0)
    <3>1. NextIteration /\ config' = config
      BY <1>2, <2>2 DEF EndGeneration
    <3>2. QED
      BY <3>1, NextIterationFacts, ElsewhereLogs
  <2>3. QED
    BY <2>1, <2>2
<1>3. CASE RunInvocation
  <2>1. 0 \in Sections /\ Post \in Sections
    BY ConfigFacts DEF RunInv
  <2>2. CASE (phase = "init" /\ Operate(0)) \/ (phase = "post" /\ Operate(Post))
    BY <2>1, <2>2, OperateLogs
  <2>3. CASE FailSection(0) \/ FailSection(Post)
    BY <2>3, ElsewhereLogs DEF FailSection, Finish
  <2>4. CASE EndInit \/ Start
    <3>1. UNCHANGED <<config, lists, object, section, expired>>
      BY <2>4 DEF EndInit, Start, MainUnchanged
    <3>2. phase \in Running /\ phase' \in Running \cup {"done"}
      BY <2>4 DEF EndInit, Start, Finish, Running
    <3>3. QED
      BY <3>1, <3>2, StandsStillLogs, ElsewhereLogs
  <2>5. CASE NotifyAll \/ Join \/ EndPost
    BY <2>5, NotifyAllLogs, JoinLogs, EndPostLogs
  <2>6. QED
    BY <1>3, <2>2, <2>3, <2>4, <2>5 DEF RunInvocation
<1>4. CASE \E t \in 1 .. MaxThreads : Worker(t)
  <2>1. PICK t : Worker(t)
    BY <1>4
  <2>2. t \in Workers /\ t \in Sections
    BY <2>1, ConfigFacts DEF Worker, RunInv
  <2>3. QED
    BY <2>1, <2>2, ArriveLogs, OperateLogs, KeepLogs DEF Worker
<1>5. CASE Judge
  <2>1. CASE phase' = "done"
    BY <2>1, ElsewhereLogs
  <2>2. CASE BeginInvocation /\ UNCHANGED <<config, lists>>
    BY <2>2, BeginInvocationLogs
  <2>3. CASE NextIteration /\ config' = config
    BY <2>3, NextIterationFacts, ElsewhereLogs
  <2>4. QED
    BY <1>5, <2>1, <2>2, <2>3, JudgeCases DEF Finish
<1>6. CASE DeadlinePasses
  BY <1>6, DeadlinePassesLogs
<1>7. CASE UNCHANGED vars
  <2>1. Sections' = Sections /\ Post' = Post /\ Workers' = Workers /\ World' = World
    BY <1>7, SameConfig DEF vars, World
  <2>2. Recorded' = Recorded
    BY <1>7, <2>1 DEF vars, Recorded, ResultsIn
  <2>3. Sane' = Sane
    BY <1>7, <2>1 DEF vars, Sane, Operation
  <2>4. QED
    BY <1>7, <2>1, <2>2, <2>3 DEF vars, History
<1>8. QED
  BY <1>1, <1>2, <1>3, <1>4, <1>5, <1>6, <1>7 DEF Next

-----------------------------------------------------------------------------
(* The order of the operations is a linearisation of the run.              *)

\* What is recorded of a section when a run is judged
LEMMA RecordedFacts ==
    ASSUME RunInv, phase = "verify", NEW s \in Sections
    PROVE  /\ lists[s] \in Seq(DOMAIN config.operations) /\ Len(lists[s]) \in Nat
           /\ ResultsIn(s) \in Seq(Values) /\ Len(ResultsIn(s)) = Len(lists[s])
           /\ Performed(Recorded[s]) = Len(lists[s])
           /\ Recorded[s].actor = Len(lists[s]) + 1
           /\ Recorded[s].intervals = execution.intervals[s]
           /\ \A i \in 1 .. Len(lists[s]) :
                 /\ Got(Recorded[s], i) = ResultsIn(s)[i]
                 /\ BeganAt(Recorded[s], i) = execution.intervals[s][i].invocation
                 /\ execution.intervals[s][i].invocation \in Nat
                 /\ execution.intervals[s][i].response \in Nat
<1>1. /\ lists[s] \in Seq(DOMAIN config.operations) /\ Len(lists[s]) \in Nat
      /\ ResultsIn(s) \in Seq(Values) /\ Len(ResultsIn(s)) = Len(lists[s])
      /\ execution.intervals[s] \in Seq(Interval) /\ Len(execution.intervals[s]) = Len(lists[s])
  BY SetSection DEF RunInv, WholeExecution
<1>2. PICK sec : sec = Recorded[s]
  OBVIOUS
<1>3. /\ sec.at = "next" /\ sec.actor = Len(lists[s]) + 1 /\ sec.results = ResultsIn(s)
      /\ sec.intervals = execution.intervals[s]
  BY <1>2 DEF Recorded, Idle
<1>4. Performed(sec) = Len(lists[s])
  BY <1>1, <1>3 DEF Performed
<1>5. \A i \in 1 .. Len(lists[s]) : i < sec.actor
  BY <1>1, <1>3
<1>6. \A i \in 1 .. Len(lists[s]) : /\ Got(sec, i) = ResultsIn(s)[i]
                                    /\ BeganAt(sec, i) = execution.intervals[s][i].invocation
  BY <1>3, <1>5 DEF Got, BeganAt
<1>7. ASSUME NEW i \in 1 .. Len(lists[s])
      PROVE  /\ execution.intervals[s][i].invocation \in Nat
             /\ execution.intervals[s][i].response \in Nat
  <2>1. PICK v : v = execution.intervals[s]
    OBVIOUS
  <2>2. v[i] \in Interval
    BY <1>1, <2>1
  <2>3. QED
    BY <2>1, <2>2 DEF Interval
<1>8. QED
  BY <1>1, <1>2, <1>3, <1>4, <1>6, <1>7

\* Init and post, which one thread runs: their order is the order of the list
LEMMA SectionLegal ==
    ASSUME RunInv, phase = "verify", NEW s \in Sections,
           NEW a, NEW b, Links(World, Recorded, {s}, a, b)
    PROVE  /\ Legal(config.operations, lists[s], ResultsIn(s), a)
           /\ StatesFrom(config.operations, lists[s], a)[Len(lists[s])] = b
<1>0. PICK run : run = Judged(FALSE, TRUE)
  OBVIOUS
<1>1. WholeRun(run) /\ run.operations = config.operations /\ Actors(run) = DOMAIN config.operations
  BY <1>0, JudgedWhole DEF Judged, Actors
<1>2. PICK world, secs, list, k : /\ world = World /\ secs = Recorded /\ list = lists[s] /\ k = Len(list)
  OBVIOUS
<1>3. /\ list \in Seq(Actors(run)) /\ k \in Nat /\ Len(ResultsIn(s)) = k
      /\ Performed(secs[s]) = k /\ \A i \in 1 .. k : Got(secs[s], i) = ResultsIn(s)[i]
  BY <1>1, <1>2, RecordedFacts
<1>4. PICK n, f, r : Linked(world, secs, {s}, n, f, r) /\ r[0] = a /\ r[n] = b
  BY <1>2 DEF Links
<1>5. /\ n \in Nat /\ f \in [1 .. n -> PerformedPlaces(secs, {s})] /\ r \in [0 .. n -> States]
      /\ \A p \in PerformedPlaces(secs, {s}) : \E i \in 1 .. n : f[i] = p
      /\ \A i, j \in 1 .. n : i < j /\ f[i][1] = f[j][1] => f[i][2] < f[j][2]
      /\ \A i \in 1 .. n : Leads(world, secs, f[i], r[i - 1], r[i])
  BY <1>4 DEF Linked
<1>6. ASSUME NEW i \in 1 .. n PROVE f[i] = <<s, f[i][2]>> /\ f[i][1] = s /\ f[i][2] \in 1 .. k
  <2>1. PICK p \in PerformedPlaces(secs, {s}) : p = f[i]
    BY <1>5
  <2>2. p = <<p[1], p[2]>> /\ p[1] = s /\ p[2] \in 1 .. k
    BY <1>3, PlacesOf
  <2>3. QED
    BY <2>1, <2>2
<1> DEFINE g == [i \in 1 .. n |-> f[i][2]]
<1>7. g \in [1 .. n -> 1 .. k] /\ \A i \in 1 .. n : g[i] = f[i][2]
  BY <1>6
<1>8. \A m \in 1 .. k : \E i \in 1 .. n : g[i] = m
  <2> SUFFICES ASSUME NEW m \in 1 .. k PROVE \E i \in 1 .. n : g[i] = m
    OBVIOUS
  <2>1. <<s, m>> \in PerformedPlaces(secs, {s})
    BY <1>3 DEF PerformedPlaces
  <2>2. PICK i \in 1 .. n : f[i] = <<s, m>>
    BY <1>5, <2>1
  <2>3. QED
    BY <1>7, <2>2
<1>9. \A i, j \in 1 .. n : i < j => g[i] < g[j]
  BY <1>5, <1>6, <1>7
<1> HIDE DEF g
<1>10. n = k /\ \A i \in 1 .. n : g[i] = i
  BY <1>3, <1>5, <1>7, <1>8, <1>9, Counting
<1>11. ASSUME NEW i \in 1 .. k
       PROVE  /\ ~RunSequential(run.operations[list[i]], r[i - 1]).throws
              /\ RunSequential(run.operations[list[i]], r[i - 1]).value = ResultsIn(s)[i]
              /\ RunSequential(run.operations[list[i]], r[i - 1]).next = r[i]
  <2>1. PICK p : p = f[i]
    OBVIOUS
  <2>2. p[1] = s /\ p[2] = i /\ Leads(world, secs, p, r[i - 1], r[i])
    BY <1>5, <1>6, <1>7, <1>10, <2>1
  <2>3. world.operations[world.lists[p[1]][p[2]]] = run.operations[list[i]]
    BY <1>1, <1>2, <2>2 DEF World
  <2>4. Got(secs[p[1]], p[2]) = ResultsIn(s)[i]
    BY <1>3, <2>2
  <2>5. QED
    BY <2>2, <2>3, <2>4 DEF Leads
<1>12. PICK results : results = ResultsIn(s)
  OBVIOUS
<1>13. LeadThrough(run, list, results, r)
  BY <1>2, <1>3, <1>5, <1>10, <1>11, <1>12 DEF LeadThrough
<1>14. Legal(run.operations, list, results, r[0]) /\ StatesFrom(run.operations, list, r[0]) = r
  BY <1>1, <1>3, <1>13, LegalFrom
<1>15. QED
  BY <1>1, <1>2, <1>4, <1>10, <1>12, <1>14

\* The workers: their order is one that real time allows
RunsFromTo(run, a, b) ==
    \E f, r : /\ Ordered(run, ParallelPlaces(run), f)
              /\ RunsThrough(run, f, Cardinality(ParallelPlaces(run)), r)
              /\ r[0] = a /\ r[Cardinality(ParallelPlaces(run))] = b

LEMMA ParallelOrdered ==
    ASSUME RunInv, phase = "verify", NEW run, run = Judged(FALSE, TRUE),
           NEW a, NEW b, Links(World, Recorded, Workers, a, b)
    PROVE  RunsFromTo(run, a, b)
<1>1. WholeRun(run) /\ Threads(run) = Workers /\ TypeOK
  BY JudgedWhole DEF RunInv
<1>2. /\ run.operations = config.operations /\ run.scenario = Scenario
      /\ run.results = execution.results /\ run.intervals = [t \in Workers |-> execution.intervals[t]]
  BY DEF Judged
<1>3. PICK world, secs, places : world = World /\ secs = Recorded /\ places = ParallelPlaces(run)
  OBVIOUS
<1>4. ASSUME NEW t \in Workers
      PROVE  /\ t \in Sections /\ run.scenario.parallel[t] = lists[t] /\ run.results.parallel[t] = ResultsIn(t)
             /\ run.intervals[t] = execution.intervals[t]
             /\ Performed(secs[t]) = Len(lists[t]) /\ Len(lists[t]) \in Nat
             /\ secs[t].actor = Len(lists[t]) + 1 /\ secs[t].intervals = run.intervals[t]
             /\ \A i \in 1 .. Len(lists[t]) :
                   /\ Got(secs[t], i) = run.results.parallel[t][i]
                   /\ BeganAt(secs[t], i) = run.intervals[t][i].invocation
                   /\ run.intervals[t][i].invocation \in Nat /\ run.intervals[t][i].response \in Nat
  <2>1. t \in Sections /\ t # 0 /\ t # Post
    BY <1>1, ConfigFacts
  <2>2. run.scenario.parallel[t] = lists[t] /\ run.intervals[t] = execution.intervals[t]
    BY <1>1, <1>2, ScenarioFacts
  <2>3. run.results.parallel[t] = ResultsIn(t)
    BY <1>2, <2>1 DEF ResultsIn
  <2>4. QED
    BY <1>3, <2>1, <2>2, <2>3, RecordedFacts
<1>5. PerformedPlaces(secs, Workers) = places
  <2>1. ASSUME NEW p \in PerformedPlaces(secs, Workers) PROVE p \in places
    <3>1. PICK t, i : t = p[1] /\ i = p[2]
      OBVIOUS
    <3>2. p = <<t, i>> /\ t \in Workers /\ (Performed(secs[t]) \in Nat => i \in 1 .. Performed(secs[t]))
      BY <3>1, PlacesOf
    <3>3. i \in 1 .. Len(run.scenario.parallel[t])
      BY <1>4, <3>2
    <3>4. QED
      BY <1>1, <1>3, <3>2, <3>3, PlaceFacts
  <2>2. ASSUME NEW p \in places PROVE p \in PerformedPlaces(secs, Workers)
    <3>1. PICK t, i : t = p[1] /\ i = p[2]
      OBVIOUS
    <3>2. p = <<t, i>> /\ t \in Workers /\ i \in 1 .. Len(run.scenario.parallel[t])
      BY <1>1, <1>3, <3>1, PlaceFacts
    <3>3. i \in 1 .. Len(lists[t]) /\ Len(lists[t]) \in Nat /\ Performed(secs[t]) = Len(lists[t])
      BY <1>4, <3>2
    <3>4. i \in Nat \ {0} /\ i <= Performed(secs[t])
      BY <3>3
    <3>5. QED
      BY <3>1, <3>2, <3>4 DEF PerformedPlaces
  <2>3. QED
    BY <2>1, <2>2
<1>6. PICK n, f, r : Linked(world, secs, Workers, n, f, r) /\ r[0] = a /\ r[n] = b
  BY <1>3 DEF Links
<1>7. /\ n \in Nat /\ f \in [1 .. n -> places] /\ r \in [0 .. n -> States]
      /\ \A i, j \in 1 .. n : i # j => f[i] # f[j]
      /\ \A p \in places : \E i \in 1 .. n : f[i] = p
      /\ \A i, j \in 1 .. n : i < j /\ f[i][1] = f[j][1] => f[i][2] < f[j][2]
      /\ \A i, j \in 1 .. n : i < j /\ f[j][2] < secs[f[j][1]].actor =>
             BeganAt(secs[f[i][1]], f[i][2]) <= secs[f[j][1]].intervals[f[j][2]].response
      /\ \A i \in 1 .. n : Leads(world, secs, f[i], r[i - 1], r[i])
  BY <1>5, <1>6 DEF Linked
<1>8. Cardinality(places) = n
  <2>1. f \in Bijection(1 .. n, places)
    BY <1>7 DEF Bijection, Injection, Surjection, IsInjective
  <2>2. IsFiniteSet(1 .. n) /\ Cardinality(1 .. n) = n
    BY <1>7, FS_Interval
  <2>3. QED
    BY <2>1, <2>2, FS_Bijection DEF ExistsBijection
<1>9. ASSUME NEW i \in 1 .. n
      PROVE  f[i][1] \in Workers /\ f[i][2] \in 1 .. Len(lists[f[i][1]]) /\ f[i][2] < secs[f[i][1]].actor
  <2>1. PICK p \in places : p = f[i]
    BY <1>7
  <2>2. PICK t, k : t = p[1] /\ k = p[2]
    OBVIOUS
  <2>3. t \in Workers /\ k \in 1 .. Len(run.scenario.parallel[t])
    BY <1>1, <1>3, <2>2, PlaceFacts
  <2>4. k \in 1 .. Len(lists[t]) /\ Len(lists[t]) \in Nat /\ secs[t].actor = Len(lists[t]) + 1
    BY <1>4, <2>3
  <2>5. k < secs[t].actor
    BY <2>4
  <2>6. QED
    BY <2>1, <2>2, <2>3, <2>4, <2>5
<1>10. ASSUME NEW i \in 1 .. n, NEW j \in 1 .. n, i < j PROVE ~Before(run, f[j], f[i])
  <2>1. PICK s, k, t, m : s = f[i][1] /\ k = f[i][2] /\ t = f[j][1] /\ m = f[j][2]
    OBVIOUS
  <2>2. /\ s \in Workers /\ k \in 1 .. Len(lists[s]) /\ t \in Workers /\ m \in 1 .. Len(lists[t])
        /\ m < secs[t].actor
    BY <1>9, <2>1
  <2>3. k \in Nat /\ m \in Nat /\ (s = t => k < m)
    <3>1. Len(lists[s]) \in Nat /\ Len(lists[t]) \in Nat
      BY <1>4, <2>2
    <3>2. k \in Nat /\ m \in Nat
      BY <2>2, <3>1
    <3>3. f[i][1] = f[j][1] => f[i][2] < f[j][2]
      BY <1>7, <1>10
    <3>4. QED
      BY <2>1, <3>2, <3>3
  <2>4. /\ run.intervals[s][k].invocation \in Nat /\ run.intervals[t][m].response \in Nat
        /\ BeganAt(secs[s], k) = run.intervals[s][k].invocation /\ secs[t].intervals = run.intervals[t]
    BY <1>4, <2>2
  <2>5. BeganAt(secs[s], k) <= secs[t].intervals[m].response
    BY <1>7, <1>10, <2>1, <2>2
  <2>6. run.intervals[s][k].invocation <= run.intervals[t][m].response
    BY <2>4, <2>5
  <2>7. ~(t = s /\ m < k) /\ ~(run.intervals[t][m].response < run.intervals[s][k].invocation)
    <3>1. PICK x \in Nat, y \in Nat :
              x = run.intervals[s][k].invocation /\ y = run.intervals[t][m].response
      BY <2>4
    <3>2. x <= y
      BY <2>6, <3>1
    <3>3. ~(y < x) /\ ~(t = s /\ m < k)
      BY <2>3, <3>2
    <3>4. QED
      BY <3>1, <3>3
  <2>8. QED
    BY <2>1, <2>7 DEF Before
<1>11. Ordered(run, places, f)
  BY <1>7, <1>8, <1>10 DEF Ordered
<1>12. ASSUME NEW i \in 1 .. n
       PROVE  Gives(run, f[i], r[i - 1]) /\ r[i] = At(run, f[i], r[i - 1]).next
  <2>1. PICK p : p = f[i]
    OBVIOUS
  <2>2. p[1] \in Workers /\ p[2] \in 1 .. Len(lists[p[1]]) /\ Leads(world, secs, p, r[i - 1], r[i])
    BY <1>7, <1>9, <2>1
  <2>3. /\ world.operations[world.lists[p[1]][p[2]]] = run.operations[run.scenario.parallel[p[1]][p[2]]]
        /\ Got(secs[p[1]], p[2]) = run.results.parallel[p[1]][p[2]]
    BY <1>2, <1>3, <1>4, <2>2 DEF World
  <2>4. Gives(run, p, r[i - 1]) /\ r[i] = At(run, p, r[i - 1]).next
    BY <2>2, <2>3 DEF Leads, Gives, At
  <2>5. QED
    BY <2>1, <2>4
<1>13. RunsThrough(run, f, n, r)
  BY <1>7, <1>12 DEF RunsThrough
<1>14. QED
  BY <1>3, <1>6, <1>8, <1>11, <1>13 DEF RunsFromTo

LEMMA HistoryIsLinearizable ==
    ASSUME RunInv, phase = "verify", NEW last, LinksAll(World, Recorded, last)
    PROVE  Linearizable(Judged(FALSE, TRUE))
<1>1. PICK run : run = Judged(FALSE, TRUE)
  OBVIOUS
<1>2. WholeRun(run) /\ Threads(run) = Workers /\ TypeOK
  BY <1>1, JudgedWhole DEF RunInv
<1>3. 0 \in Sections /\ Post \in Sections /\ Post # 0
  BY <1>2, ConfigFacts
<1>4. /\ run.operations = config.operations
      /\ run.scenario.init = lists[0] /\ run.scenario.post = lists[Post]
      /\ run.results.init = ResultsIn(0) /\ run.results.post = ResultsIn(Post)
  BY <1>1, <1>2, <1>3, ScenarioFacts DEF Judged, ResultsIn
<1>5. World.threads = config.threads
  BY DEF World
<1>6. PICK x \in States, y \in States :
          /\ Links(World, Recorded, {0}, Fresh, x) /\ Links(World, Recorded, Workers, x, y)
          /\ Links(World, Recorded, {Post}, y, last)
  BY <1>5 DEF LinksAll, Workers, Post
<1>7. /\ Legal(run.operations, run.scenario.init, run.results.init, Fresh) /\ Begun(run) = x
      /\ Legal(run.operations, run.scenario.post, run.results.post, y)
  <2>1. /\ Legal(config.operations, lists[0], ResultsIn(0), Fresh)
        /\ StatesFrom(config.operations, lists[0], Fresh)[Len(lists[0])] = x
    BY <1>3, <1>6, SectionLegal
  <2>2. Legal(config.operations, lists[Post], ResultsIn(Post), y)
    BY <1>3, <1>6, SectionLegal
  <2>3. QED
    BY <1>4, <2>1, <2>2 DEF Begun
<1>8. PICK f, r : /\ Ordered(run, ParallelPlaces(run), f)
                  /\ RunsThrough(run, f, Cardinality(ParallelPlaces(run)), r)
                  /\ r[0] = x /\ r[Cardinality(ParallelPlaces(run))] = y
  <2>1. RunsFromTo(run, x, y)
    BY <1>1, <1>6, ParallelOrdered
  <2>2. QED
    BY <2>1 DEF RunsFromTo
<1>9. Finishes(run, ParallelPlaces(run), x, f, r)
  BY <1>7, <1>8 DEF Finishes
<1>10. Completes(run, FirstPositions(run), Begun(run))
  BY <1>2, <1>7, <1>9, FirstFacts DEF Completes
<1>11. QED
  BY <1>1, <1>2, <1>7, <1>10, LinearizableIsCompletes

\* StressOptions::check raises no false alarm: whatever the threads, the options, the interleaving
\* and the clock, the results of an object whose operations are atomic are never refused.
THEOREM StressAtomicObjectAccepted == Spec => []AtomicObjectAccepted
<1> DEFINE Inv == RunInv /\ History /\ AtomicObjectAccepted
<1>1. Init => Inv
  <2> SUFFICES ASSUME Init PROVE Inv
    OBVIOUS
  <2>1. phase = "generate" /\ outcome = "none"
    BY DEF Init
  <2>2. QED
    BY <2>1, RunInit DEF History, Running, AtomicObjectAccepted
<1>2. Inv /\ [Next]_vars => Inv'
  <2> SUFFICES ASSUME RunInv, History, AtomicObjectAccepted, [Next]_vars PROVE Inv'
    OBVIOUS
  <2>1. RunInv' /\ History'
    BY RunNext, HistoryNext
  <2>2. config' = config
    BY DEF vars, Next, GenerateActor, EndList, EndGeneration, RunInvocation, Worker, Judge, DeadlinePasses,
           Operate, Invoke, Perform, Load, Store, DieInside, Catch, Respond, RunUnchanged,
           Arrive, Keep, FailSection, EndInit, Start, NotifyAll, Join, EndPost, MainUnchanged
  <2>3. outcome' = "invalid_results" => outcome = "invalid_results" \/ Judge
    <3>1. CASE GenerateActor \/ EndList \/ DeadlinePasses \/ UNCHANGED vars
      BY <3>1 DEF vars, GenerateActor, EndList, DeadlinePasses
    <3>2. CASE EndGeneration
      BY <3>2 DEF EndGeneration, NextIteration, Finish
    <3>3. CASE RunInvocation
      <4>1. CASE Operate(0) \/ Operate(Post)
        BY <4>1 DEF Operate, Invoke, Perform, Load, Store, DieInside, Catch, Respond, RunUnchanged
      <4>2. CASE FailSection(0) \/ FailSection(Post)
        BY <4>2 DEF FailSection, Finish, Failure
      <4>3. CASE EndInit \/ Start \/ NotifyAll
        BY <4>3 DEF EndInit, Start, NotifyAll, MainUnchanged, Finish
      <4>4. CASE Join \/ EndPost
        <5>1. exception # "invalid_results"
          BY DEF RunInv, TypeOK
        <5>2. QED
          BY <4>4, <5>1 DEF Join, EndPost, Finish
      <4>5. QED
        BY <3>3, <4>1, <4>2, <4>3, <4>4 DEF RunInvocation
    <3>4. CASE \E t \in 1 .. MaxThreads : Worker(t)
      BY <3>4 DEF Worker, Arrive, Keep, Operate, Invoke, Perform, Load, Store, DieInside, Catch, Respond,
                  RunUnchanged
    <3>5. QED
      BY <3>1, <3>2, <3>3, <3>4 DEF Next
  <2>4. ASSUME Judge, config.object = "atomic", outcome' = "invalid_results" PROVE outcome = "invalid_results"
    <3>1. phase = "verify"
      BY <2>4 DEF Judge
    <3>2. Linearizable(Judged(FALSE, TRUE))
      BY <2>4, <3>1, HistoryIsLinearizable DEF History
    <3>3. Verify(Judged(FALSE, TRUE)) # "no"
      BY <3>1, <3>2, JudgedWhole, VerifyIsLinearizability
    <3>4. QED
      BY <2>4, <3>3, JudgeCases DEF Finish, NextIteration
  <2>5. QED
    BY <2>1, <2>2, <2>3, <2>4 DEF AtomicObjectAccepted
<1>3. QED
  BY <1>1, <1>2, PTL DEF Spec, AtomicObjectAccepted

-----------------------------------------------------------------------------
(* The generator: what it keeps of the actors it has drawn is enough to    *)
(* draw only what the scenario may hold, and all that it may hold.         *)

\* No one-shot operation is at two places of the lists
Once(ops, ls) ==
    \A s, u \in DOMAIN ls : \A i \in DOMAIN ls[s], j \in DOMAIN ls[u] :
        ((s # u \/ i # j) /\ ops[ls[s][i]].oneShot) => ls[s][i] # ls[u][j]

\* The operations of a key are in one thread
OneThread(ops, ls, threads) ==
    \A t, u \in threads : \A i \in DOMAIN ls[t], j \in DOMAIN ls[u] :
        (/\ ops[ls[t][i]].nonParallel /\ ops[ls[u][j]].nonParallel
         /\ NonParallelKey(ops[ls[t][i]]) = NonParallelKey(ops[ls[u][j]])) => t = u

\* The one-shot operations of the lists are those that were drawn
OneShotsDrawn(ops, ls, drawn) ==
    /\ \A s \in DOMAIN ls : \A i \in DOMAIN ls[s] : ops[ls[s][i]].oneShot => ls[s][i] \in drawn
    /\ \A a \in drawn : \E s \in DOMAIN ls : \E i \in DOMAIN ls[s] : ls[s][i] = a

\* The owner of a key is the thread that has its operations
Owns(ops, ls, threads, owner) ==
    /\ \A t \in threads : \A i \in DOMAIN ls[t] : ops[ls[t][i]].nonParallel =>
           /\ NonParallelKey(ops[ls[t][i]]) \in DOMAIN owner
           /\ owner[NonParallelKey(ops[ls[t][i]])] = t
    /\ \A key \in DOMAIN owner : \E t \in threads : \E i \in DOMAIN ls[t] :
           owner[key] = t /\ ops[ls[t][i]].nonParallel /\ NonParallelKey(ops[ls[t][i]]) = key

\* new is the lists with one more actor a, at place k of section s
Extends(ls, new, s, k, a) ==
    /\ DOMAIN new = DOMAIN ls /\ s \in DOMAIN ls /\ k \notin DOMAIN ls[s] /\ k \in DOMAIN new[s] /\ new[s][k] = a
    /\ \A u \in DOMAIN ls : \A i \in DOMAIN new[u] : (u = s /\ i = k) \/ i \in DOMAIN ls[u]
    /\ \A u \in DOMAIN ls : \A i \in DOMAIN ls[u] : i \in DOMAIN new[u] /\ new[u][i] = ls[u][i]

LEMMA AppendExtends ==
    ASSUME NEW A, NEW S, NEW ls \in [S -> Seq(A)], NEW s \in S, NEW a \in A
    PROVE  Extends(ls, [ls EXCEPT ![s] = Append(@, a)], s, Len(ls[s]) + 1, a)
<1>1. PICK list, longer, k : list = ls[s] /\ longer = Append(list, a) /\ k = Len(list) + 1
  OBVIOUS
<1>2. PICK new : new = [ls EXCEPT ![s] = longer]
  OBVIOUS
<1>3. list \in Seq(A)
  BY <1>1
<1>4. /\ DOMAIN list = 1 .. Len(list) /\ DOMAIN longer = 1 .. Len(list) + 1 /\ longer[k] = a
      /\ \A i \in 1 .. Len(list) : longer[i] = list[i]
      /\ Len(list) \in Nat
  BY <1>1, <1>3
<1>5. /\ k \notin DOMAIN list /\ k \in DOMAIN longer /\ longer[k] = a
      /\ \A i \in DOMAIN longer : i = k \/ i \in DOMAIN list
      /\ \A i \in DOMAIN list : i \in DOMAIN longer /\ longer[i] = list[i]
  BY <1>1, <1>4
<1>6. DOMAIN new = S /\ DOMAIN ls = S /\ \A u \in S : new[u] = IF u = s THEN longer ELSE ls[u]
  BY <1>2
<1>7. Extends(ls, new, s, k, a)
  BY <1>1, <1>5, <1>6 DEF Extends
<1>8. QED
  BY <1>1, <1>2, <1>7

\* A one-shot operation that was not drawn may be
LEMMA DrawnOnce ==
    ASSUME NEW ops, NEW ls, NEW new, NEW s, NEW k, NEW a, Extends(ls, new, s, k, a),
           NEW drawn, Once(ops, ls), OneShotsDrawn(ops, ls, drawn), ops[a].oneShot => a \notin drawn
    PROVE  /\ Once(ops, new)
           /\ OneShotsDrawn(ops, new, IF ops[a].oneShot THEN drawn \cup {a} ELSE drawn)
<1>1. /\ DOMAIN new = DOMAIN ls /\ s \in DOMAIN ls /\ k \notin DOMAIN ls[s] /\ k \in DOMAIN new[s]
      /\ new[s][k] = a
      /\ \A u \in DOMAIN ls : \A i \in DOMAIN new[u] : (u = s /\ i = k) \/ i \in DOMAIN ls[u]
      /\ \A u \in DOMAIN ls : \A i \in DOMAIN ls[u] : i \in DOMAIN new[u] /\ new[u][i] = ls[u][i]
  BY DEF Extends
<1>2. /\ \A u \in DOMAIN ls : \A i \in DOMAIN ls[u] : ops[ls[u][i]].oneShot => ls[u][i] \in drawn
      /\ \A x \in drawn : \E u \in DOMAIN ls : \E i \in DOMAIN ls[u] : ls[u][i] = x
  BY DEF OneShotsDrawn
<1>3. \A t, u \in DOMAIN ls : \A i \in DOMAIN ls[t], j \in DOMAIN ls[u] :
          ((t # u \/ i # j) /\ ops[ls[t][i]].oneShot) => ls[t][i] # ls[u][j]
  BY DEF Once
<1>4. ASSUME NEW t \in DOMAIN new, NEW u \in DOMAIN new, NEW i \in DOMAIN new[t], NEW j \in DOMAIN new[u],
             t # u \/ i # j, ops[new[t][i]].oneShot, new[t][i] = new[u][j]
      PROVE  FALSE
  <2>1. CASE i \in DOMAIN ls[t] /\ j \in DOMAIN ls[u]
    BY <1>1, <1>3, <1>4, <2>1
  <2>2. CASE t = s /\ i = k /\ j \in DOMAIN ls[u]
    BY <1>1, <1>2, <1>4, <2>2
  <2>3. CASE u = s /\ j = k /\ i \in DOMAIN ls[t]
    BY <1>1, <1>2, <1>4, <2>3
  <2>4. QED
    BY <1>1, <1>4, <2>1, <2>2, <2>3
<1>5. Once(ops, new)
  BY <1>4 DEF Once
<1>6. PICK after : after = IF ops[a].oneShot THEN drawn \cup {a} ELSE drawn
  OBVIOUS
<1>7. drawn \subseteq after /\ (ops[a].oneShot => a \in after) /\ \A x \in after : x \in drawn \/ x = a
  BY <1>6
<1>8. ASSUME NEW u \in DOMAIN new, NEW i \in DOMAIN new[u], ops[new[u][i]].oneShot
      PROVE  new[u][i] \in after
  BY <1>1, <1>2, <1>7, <1>8
<1>9. ASSUME NEW x \in after
      PROVE  \E u \in DOMAIN new : \E i \in DOMAIN new[u] : new[u][i] = x
  <2>1. CASE x = a
    BY <1>1, <2>1
  <2>2. CASE x \in drawn
    <3>1. PICK u \in DOMAIN ls : \E i \in DOMAIN ls[u] : ls[u][i] = x
      BY <1>2, <2>2
    <3>2. PICK i \in DOMAIN ls[u] : ls[u][i] = x
      BY <3>1
    <3>3. QED
      BY <1>1, <3>2
  <2>3. QED
    BY <1>7, <2>1, <2>2
<1>10. OneShotsDrawn(ops, new, after)
  BY <1>8, <1>9 DEF OneShotsDrawn
<1>11. QED
  BY <1>5, <1>6, <1>10

\* key is noted as a key of thread t
Noted(owner, after, key, t) ==
    /\ key \in DOMAIN owner => owner[key] = t
    /\ DOMAIN after = DOMAIN owner \cup {key} /\ after[key] = t
    /\ \A x \in DOMAIN owner : after[x] = owner[x]

\* An operation whose key is free, or of its own thread, may be drawn in that thread
LEMMA DrawnInThread ==
    ASSUME NEW ops, NEW ls, NEW new, NEW t, NEW k, NEW a, Extends(ls, new, t, k, a),
           NEW threads, threads \subseteq DOMAIN ls, t \in threads, NEW owner, NEW after,
           Owns(ops, ls, threads, owner), ops[a].nonParallel,
           Noted(owner, after, NonParallelKey(ops[a]), t)
    PROVE  Owns(ops, new, threads, after)
<1>1. PICK key : key = NonParallelKey(ops[a])
  OBVIOUS
<1>2. /\ key \in DOMAIN owner => owner[key] = t
      /\ DOMAIN after = DOMAIN owner \cup {key} /\ after[key] = t
      /\ \A x \in DOMAIN owner : after[x] = owner[x]
  BY <1>1 DEF Noted
<1>3. /\ DOMAIN new = DOMAIN ls /\ t \in DOMAIN ls /\ k \notin DOMAIN ls[t] /\ k \in DOMAIN new[t]
      /\ new[t][k] = a
      /\ \A u \in DOMAIN ls : \A i \in DOMAIN new[u] : (u = t /\ i = k) \/ i \in DOMAIN ls[u]
      /\ \A u \in DOMAIN ls : \A i \in DOMAIN ls[u] : i \in DOMAIN new[u] /\ new[u][i] = ls[u][i]
  BY DEF Extends
<1>4. /\ \A u \in threads : \A i \in DOMAIN ls[u] : ops[ls[u][i]].nonParallel =>
             /\ NonParallelKey(ops[ls[u][i]]) \in DOMAIN owner
             /\ owner[NonParallelKey(ops[ls[u][i]])] = u
      /\ \A x \in DOMAIN owner : \E u \in threads : \E i \in DOMAIN ls[u] :
             owner[x] = u /\ ops[ls[u][i]].nonParallel /\ NonParallelKey(ops[ls[u][i]]) = x
  BY DEF Owns
<1>5. ASSUME NEW u \in threads, NEW i \in DOMAIN new[u], ops[new[u][i]].nonParallel
      PROVE  /\ NonParallelKey(ops[new[u][i]]) \in DOMAIN after
             /\ after[NonParallelKey(ops[new[u][i]])] = u
  <2>1. CASE u = t /\ i = k
    BY <1>1, <1>2, <1>3, <2>1
  <2>2. CASE i \in DOMAIN ls[u]
    <3>1. new[u][i] = ls[u][i]
      BY <1>3, <2>2
    <3>2. NonParallelKey(ops[ls[u][i]]) \in DOMAIN owner /\ owner[NonParallelKey(ops[ls[u][i]])] = u
      BY <1>4, <1>5, <2>2, <3>1
    <3>3. QED
      BY <1>2, <3>1, <3>2
  <2>3. QED
    BY <1>3, <1>5, <2>1, <2>2
<1>6. ASSUME NEW x \in DOMAIN after
      PROVE  \E u \in threads : \E i \in DOMAIN new[u] :
                 after[x] = u /\ ops[new[u][i]].nonParallel /\ NonParallelKey(ops[new[u][i]]) = x
  <2>1. CASE x = key
    BY <1>1, <1>2, <1>3, <2>1
  <2>2. CASE x \in DOMAIN owner
    <3>1. PICK u \in threads : \E i \in DOMAIN ls[u] :
              owner[x] = u /\ ops[ls[u][i]].nonParallel /\ NonParallelKey(ops[ls[u][i]]) = x
      BY <1>4, <2>2
    <3>2. PICK i \in DOMAIN ls[u] :
              owner[x] = u /\ ops[ls[u][i]].nonParallel /\ NonParallelKey(ops[ls[u][i]]) = x
      BY <3>1
    <3>3. i \in DOMAIN new[u] /\ new[u][i] = ls[u][i] /\ after[x] = u
      BY <1>2, <1>3, <2>2, <3>2
    <3>4. QED
      BY <3>2, <3>3
  <2>3. QED
    BY <1>2, <2>1, <2>2
<1>7. QED
  BY <1>5, <1>6 DEF Owns

\* What is drawn elsewhere leaves the keys alone
LEMMA DrawnElsewhere ==
    ASSUME NEW ops, NEW ls, NEW new, NEW s, NEW k, NEW a, Extends(ls, new, s, k, a),
           NEW threads \in SUBSET DOMAIN ls, NEW owner, Owns(ops, ls, threads, owner),
           s \notin threads \/ ~ops[a].nonParallel
    PROVE  Owns(ops, new, threads, owner)
<1>1. /\ DOMAIN new = DOMAIN ls /\ s \in DOMAIN ls /\ k \notin DOMAIN ls[s] /\ k \in DOMAIN new[s]
      /\ new[s][k] = a
      /\ \A u \in DOMAIN ls : \A i \in DOMAIN new[u] : (u = s /\ i = k) \/ i \in DOMAIN ls[u]
      /\ \A u \in DOMAIN ls : \A i \in DOMAIN ls[u] : i \in DOMAIN new[u] /\ new[u][i] = ls[u][i]
  BY DEF Extends
<1>2. /\ \A u \in threads : \A i \in DOMAIN ls[u] : ops[ls[u][i]].nonParallel =>
             /\ NonParallelKey(ops[ls[u][i]]) \in DOMAIN owner
             /\ owner[NonParallelKey(ops[ls[u][i]])] = u
      /\ \A x \in DOMAIN owner : \E u \in threads : \E i \in DOMAIN ls[u] :
             owner[x] = u /\ ops[ls[u][i]].nonParallel /\ NonParallelKey(ops[ls[u][i]]) = x
  BY DEF Owns
<1>3. ASSUME NEW u \in threads, NEW i \in DOMAIN new[u], ops[new[u][i]].nonParallel
      PROVE  i \in DOMAIN ls[u] /\ new[u][i] = ls[u][i]
  BY <1>1, <1>3
<1>4. ASSUME NEW x \in DOMAIN owner
      PROVE  \E u \in threads : \E i \in DOMAIN new[u] :
                 owner[x] = u /\ ops[new[u][i]].nonParallel /\ NonParallelKey(ops[new[u][i]]) = x
  <2>1. PICK u \in threads : \E i \in DOMAIN ls[u] :
            owner[x] = u /\ ops[ls[u][i]].nonParallel /\ NonParallelKey(ops[ls[u][i]]) = x
    BY <1>2
  <2>2. PICK i \in DOMAIN ls[u] :
            owner[x] = u /\ ops[ls[u][i]].nonParallel /\ NonParallelKey(ops[ls[u][i]]) = x
    BY <2>1
  <2>3. i \in DOMAIN new[u] /\ new[u][i] = ls[u][i]
    BY <1>1
  <2>4. QED
    BY <2>2, <2>3
<1>5. QED
  BY <1>2, <1>3, <1>4 DEF Owns

\* mark_generated: the one-shot operations grow, and no key changes its owner
Marked(ops, a, g, thread, after, key) ==
    /\ after.oneShots = IF ops[a].oneShot THEN g.oneShots \cup {a} ELSE g.oneShots
    /\ \A x \in DOMAIN g.owner : x \in DOMAIN after.owner /\ after.owner[x] = g.owner[x]
    /\ (thread # Unthreaded /\ ops[a].nonParallel) =>
          /\ DOMAIN after.owner = DOMAIN g.owner \cup {key}
          /\ key \notin DOMAIN g.owner => after.owner[key] = thread
    /\ ~(thread # Unthreaded /\ ops[a].nonParallel) => after.owner = g.owner

LEMMA MarkFacts ==
    ASSUME NEW ops, NEW a, NEW g, NEW thread
    PROVE  Marked(ops, a, g, thread, MarkGenerated(ops, a, g, thread), NonParallelKey(ops[a]))
<1>0. PICK after, key : after = MarkGenerated(ops, a, g, thread) /\ key = NonParallelKey(ops[a])
  OBVIOUS
<1>1. after = [oneShots |-> IF ops[a].oneShot THEN g.oneShots \cup {a} ELSE g.oneShots,
               owner |-> IF thread # Unthreaded /\ ops[a].nonParallel
                         THEN [x \in DOMAIN g.owner \cup {key} |->
                                  IF x \in DOMAIN g.owner THEN g.owner[x] ELSE thread]
                         ELSE g.owner]
  BY <1>0 DEF MarkGenerated
<1>2. after.oneShots = IF ops[a].oneShot THEN g.oneShots \cup {a} ELSE g.oneShots
  BY <1>1
<1>3. PICK larger : larger = [x \in DOMAIN g.owner \cup {key} |->
                                  IF x \in DOMAIN g.owner THEN g.owner[x] ELSE thread]
  OBVIOUS
<1>4. /\ DOMAIN larger = DOMAIN g.owner \cup {key}
      /\ \A x \in DOMAIN g.owner : larger[x] = g.owner[x]
      /\ key \notin DOMAIN g.owner => larger[key] = thread
  BY <1>3
<1>5. after.owner = IF thread # Unthreaded /\ ops[a].nonParallel THEN larger ELSE g.owner
  BY <1>1, <1>3
<1>6. Marked(ops, a, g, thread, after, key)
  BY <1>2, <1>4, <1>5 DEF Marked
<1>7. QED
  BY <1>0, <1>6

\* What may not be drawn now may not be drawn later
LEMMA CandidatesShrink ==
    ASSUME NEW ops, NEW a, NEW g, NEW thread, NEW after, after = MarkGenerated(ops, a, g, thread), NEW other
    PROVE  Candidates(ops, after, other) \subseteq Candidates(ops, g, other)
<1>1. /\ g.oneShots \subseteq after.oneShots
      /\ \A x \in DOMAIN g.owner : x \in DOMAIN after.owner /\ after.owner[x] = g.owner[x]
  <2>1. Marked(ops, a, g, thread, after, NonParallelKey(ops[a]))
    BY MarkFacts
  <2>2. QED
    BY <2>1 DEF Marked
<1>2. ASSUME NEW i \in Candidates(ops, after, other) PROVE i \in Candidates(ops, g, other)
  <2>1. PICK key : key = NonParallelKey(ops[i])
    OBVIOUS
  <2>2. /\ i \in DOMAIN ops /\ (ops[i].oneShot => i \notin after.oneShots)
        /\ (other # Unthreaded /\ ops[i].nonParallel /\ key \in DOMAIN after.owner) => after.owner[key] = other
    BY <2>1 DEF Candidates, Eligible
  <2>3. /\ ops[i].oneShot => i \notin g.oneShots
        /\ (other # Unthreaded /\ ops[i].nonParallel /\ key \in DOMAIN g.owner) => g.owner[key] = other
    BY <1>1, <2>2
  <2>4. QED
    BY <2>1, <2>2, <2>3 DEF Candidates, Eligible
<1>3. QED
  BY <1>2

\* An operation that may not be drawn would break a rule
LEMMA NotEligibleRefused ==
    ASSUME NEW ops, NEW ls, NEW new, NEW s, NEW k, NEW a, Extends(ls, new, s, k, a),
           NEW threads \in SUBSET DOMAIN ls, NEW g,
           OneShotsDrawn(ops, ls, g.oneShots), Owns(ops, ls, threads, g.owner),
           NEW thread, thread # Unthreaded => thread = s /\ s \in threads,
           ~Eligible(ops, a, g, thread)
    PROVE  ~(Once(ops, new) /\ OneThread(ops, new, threads))
<1>1. /\ DOMAIN new = DOMAIN ls /\ s \in DOMAIN ls /\ k \notin DOMAIN ls[s] /\ k \in DOMAIN new[s]
      /\ new[s][k] = a
      /\ \A u \in DOMAIN ls : \A i \in DOMAIN ls[u] : i \in DOMAIN new[u] /\ new[u][i] = ls[u][i]
  BY DEF Extends
<1>2. PICK key : key = NonParallelKey(ops[a])
  OBVIOUS
<1>3. \/ ops[a].oneShot /\ a \in g.oneShots
      \/ thread # Unthreaded /\ ops[a].nonParallel /\ key \in DOMAIN g.owner /\ g.owner[key] # thread
  BY <1>2 DEF Eligible
<1>4. CASE ops[a].oneShot /\ a \in g.oneShots
  <2>1. PICK u \in DOMAIN ls : \E i \in DOMAIN ls[u] : ls[u][i] = a
    BY <1>4 DEF OneShotsDrawn
  <2>2. PICK i \in DOMAIN ls[u] : ls[u][i] = a
    BY <2>1
  <2>3. /\ u \in DOMAIN new /\ i \in DOMAIN new[u] /\ new[u][i] = a /\ s \in DOMAIN new
        /\ k \in DOMAIN new[s] /\ (s # u \/ k # i) /\ ops[new[s][k]].oneShot /\ new[s][k] = new[u][i]
    BY <1>1, <1>4, <2>2
  <2>4. ~Once(ops, new)
    BY <2>3 DEF Once
  <2>5. QED
    BY <2>4
<1>5. CASE thread # Unthreaded /\ ops[a].nonParallel /\ key \in DOMAIN g.owner /\ g.owner[key] # thread
  <2>1. PICK u \in threads : \E i \in DOMAIN ls[u] :
            g.owner[key] = u /\ ops[ls[u][i]].nonParallel /\ NonParallelKey(ops[ls[u][i]]) = key
    BY <1>5 DEF Owns
  <2>2. PICK i \in DOMAIN ls[u] :
            g.owner[key] = u /\ ops[ls[u][i]].nonParallel /\ NonParallelKey(ops[ls[u][i]]) = key
    BY <2>1
  <2>3. /\ s \in threads /\ u # s /\ i \in DOMAIN new[u] /\ k \in DOMAIN new[s]
        /\ ops[new[u][i]].nonParallel /\ ops[new[s][k]].nonParallel
        /\ NonParallelKey(ops[new[u][i]]) = NonParallelKey(ops[new[s][k]])
    BY <1>1, <1>2, <1>5, <2>2
  <2>4. ~OneThread(ops, new, threads)
    BY <2>3 DEF OneThread
  <2>5. QED
    BY <2>4
<1>6. QED
  BY <1>3, <1>4, <1>5

LEMMA OwnsIsOneThread ==
    ASSUME NEW ops, NEW ls, NEW threads, NEW owner, Owns(ops, ls, threads, owner)
    PROVE  OneThread(ops, ls, threads)
  BY DEF Owns, OneThread

-----------------------------------------------------------------------------
(* What validate_scenario_against_spec checks, said of the sections.       *)

ActorAt(scenario, place) ==
    CASE place[1] = 0 -> scenario.init[place[2]]
      [] place[1] = -1 -> scenario.post[place[2]]
      [] OTHER -> scenario.parallel[place[1]][place[2]]

AllPlaces(scenario) ==
    {<<0, i>> : i \in DOMAIN scenario.init} \cup {<<-1, i>> : i \in DOMAIN scenario.post}
        \cup InParallel(scenario)

ScenarioOf(ls) == [init |-> ls[0], parallel |-> [t \in Workers |-> ls[t]], post |-> ls[Post]]

LEMMA AcceptedIs ==
    ASSUME NEW ops, NEW scenario
    PROVE  ScenarioAccepted(ops, scenario) <=>
              /\ ops # <<>>
              /\ \A p, q \in AllPlaces(scenario) :
                    (p # q /\ ops[ActorAt(scenario, p)].oneShot) => ActorAt(scenario, p) # ActorAt(scenario, q)
              /\ \A p, q \in InParallel(scenario) :
                    (/\ ops[ActorAt(scenario, p)].nonParallel
                     /\ ops[ActorAt(scenario, q)].nonParallel
                     /\ NonParallelKey(ops[ActorAt(scenario, p)]) = NonParallelKey(ops[ActorAt(scenario, q)]))
                        => p[1] = q[1]
  BY DEF ScenarioAccepted, AllPlaces, ActorAt

\* The place of the scenario where actor i of section s is
PlaceIn(s, i) == IF s = Post THEN <<-1, i>> ELSE <<s, i>>

LEMMA PlaceInFacts ==
    ASSUME TypeOK, NEW ls, DOMAIN ls = Sections, NEW scenario, scenario = ScenarioOf(ls)
    PROVE  /\ \A s \in Sections : \A i \in DOMAIN ls[s] :
                 /\ PlaceIn(s, i) \in AllPlaces(scenario) /\ ActorAt(scenario, PlaceIn(s, i)) = ls[s][i]
                 /\ s \in Workers => PlaceIn(s, i) \in InParallel(scenario) /\ PlaceIn(s, i)[1] = s
           /\ \A s, u \in Sections : \A i \in DOMAIN ls[s], j \in DOMAIN ls[u] :
                 PlaceIn(s, i) = PlaceIn(u, j) => s = u /\ i = j
           /\ \A p \in AllPlaces(scenario) : \E s \in Sections : \E i \in DOMAIN ls[s] : p = PlaceIn(s, i)
           /\ \A p \in InParallel(scenario) : \E s \in Workers : \E i \in DOMAIN ls[s] : p = PlaceIn(s, i)
<1>1. /\ scenario.init = ls[0] /\ scenario.post = ls[Post] /\ DOMAIN scenario.parallel = Workers
      /\ \A t \in Workers : scenario.parallel[t] = ls[t]
  BY DEF ScenarioOf
<1>2. /\ 0 \in Sections /\ Post \in Sections /\ Workers \subseteq Sections /\ Workers \subseteq Nat \ {0}
      /\ 0 \notin Workers /\ Post \notin Workers /\ Post \in Nat \ {0}
      /\ \A s \in Sections : s = 0 \/ s = Post \/ s \in Workers
  <2>1. Workers = 1 .. config.threads /\ config.threads \in Nat /\ Post = config.threads + 1
    BY ConfigFacts
  <2>2. QED
    BY <2>1, ConfigFacts
<1>3. -1 \notin Nat
  OBVIOUS
<1>4. InParallel(scenario) = UNION {{t} \X DOMAIN ls[t] : t \in Workers}
  BY <1>1 DEF InParallel
<1>5. ASSUME NEW s \in Sections, NEW i \in DOMAIN ls[s]
      PROVE  /\ PlaceIn(s, i) \in AllPlaces(scenario) /\ ActorAt(scenario, PlaceIn(s, i)) = ls[s][i]
             /\ s \in Workers => PlaceIn(s, i) \in InParallel(scenario) /\ PlaceIn(s, i)[1] = s
  <2>1. CASE s = 0
    <3>1. PICK p : p = <<0, i>>
      OBVIOUS
    <3>2. p[1] = 0 /\ p[2] = i
      BY <3>1
    <3>3. PlaceIn(s, i) = p
      BY <1>2, <2>1, <3>1 DEF PlaceIn
    <3>4. p \in AllPlaces(scenario)
      BY <1>1, <2>1, <3>1 DEF AllPlaces
    <3>5. ActorAt(scenario, p) = ls[s][i]
      BY <1>1, <2>1, <3>2 DEF ActorAt
    <3>6. QED
      BY <1>2, <2>1, <3>3, <3>4, <3>5
  <2>2. CASE s = Post
    <3>1. PICK p : p = <<-1, i>>
      OBVIOUS
    <3>2. p[1] = -1 /\ p[2] = i
      BY <3>1
    <3>3. PlaceIn(s, i) = p
      BY <2>2, <3>1 DEF PlaceIn
    <3>4. p \in AllPlaces(scenario)
      BY <1>1, <2>2, <3>1 DEF AllPlaces
    <3>5. ActorAt(scenario, p) = ls[s][i]
      BY <1>1, <2>2, <3>2 DEF ActorAt
    <3>6. QED
      BY <1>2, <2>2, <3>3, <3>4, <3>5
  <2>3. CASE s \in Workers
    <3>1. PICK p : p = <<s, i>>
      OBVIOUS
    <3>2. p[1] = s /\ p[2] = i /\ s # 0 /\ s # -1
      BY <1>2, <1>3, <2>3, <3>1
    <3>3. PlaceIn(s, i) = p
      BY <1>2, <2>3, <3>1 DEF PlaceIn
    <3>4. p \in InParallel(scenario)
      BY <1>4, <2>3, <3>1
    <3>5. ActorAt(scenario, p) = ls[s][i]
      BY <1>1, <2>3, <3>2 DEF ActorAt
    <3>6. QED
      BY <3>2, <3>3, <3>4, <3>5 DEF AllPlaces
  <2>4. QED
    BY <1>2, <2>1, <2>2, <2>3
<1>6. ASSUME NEW s \in Sections, NEW u \in Sections, NEW i \in DOMAIN ls[s], NEW j \in DOMAIN ls[u],
             PlaceIn(s, i) = PlaceIn(u, j)
      PROVE  s = u /\ i = j
  <2>1. s \in Nat /\ u \in Nat
    BY <1>2
  <2>2. QED
    BY <1>3, <1>6, <2>1 DEF PlaceIn
<1>7. ASSUME NEW p \in InParallel(scenario)
      PROVE  \E s \in Workers : \E i \in DOMAIN ls[s] : p = PlaceIn(s, i)
  <2>1. PICK t \in Workers : p \in {t} \X DOMAIN ls[t]
    BY <1>4
  <2>2. PICK i \in DOMAIN ls[t] : p = <<t, i>>
    BY <2>1
  <2>3. p = PlaceIn(t, i)
    BY <1>2, <2>2 DEF PlaceIn
  <2>4. QED
    BY <2>3
<1>8. ASSUME NEW p \in AllPlaces(scenario)
      PROVE  \E s \in Sections : \E i \in DOMAIN ls[s] : p = PlaceIn(s, i)
  <2>1. CASE p \in InParallel(scenario)
    BY <1>2, <1>7, <2>1
  <2>2. CASE p \in {<<0, i>> : i \in DOMAIN ls[0]}
    <3>1. PICK i \in DOMAIN ls[0] : p = <<0, i>>
      BY <2>2
    <3>2. p = PlaceIn(0, i)
      BY <1>2, <3>1 DEF PlaceIn
    <3>3. QED
      BY <1>2, <3>2
  <2>3. CASE p \in {<<-1, i>> : i \in DOMAIN ls[Post]}
    <3>1. PICK i \in DOMAIN ls[Post] : p = <<-1, i>>
      BY <2>3
    <3>2. p = PlaceIn(Post, i)
      BY <3>1 DEF PlaceIn
    <3>3. QED
      BY <1>2, <3>2
  <2>4. QED
    BY <1>1, <2>1, <2>2, <2>3 DEF AllPlaces
<1>9. QED
  BY <1>5, <1>6, <1>7, <1>8

LEMMA AcceptedIsRules ==
    ASSUME TypeOK, NEW ls, DOMAIN ls = Sections, NEW ops, ops # <<>>
    PROVE  ScenarioAccepted(ops, ScenarioOf(ls)) <=> Once(ops, ls) /\ OneThread(ops, ls, Workers)
<1>1. PICK scenario : scenario = ScenarioOf(ls)
  OBVIOUS
<1>2. /\ \A s \in Sections : \A i \in DOMAIN ls[s] :
            /\ PlaceIn(s, i) \in AllPlaces(scenario) /\ ActorAt(scenario, PlaceIn(s, i)) = ls[s][i]
            /\ s \in Workers => PlaceIn(s, i) \in InParallel(scenario) /\ PlaceIn(s, i)[1] = s
      /\ \A s, u \in Sections : \A i \in DOMAIN ls[s], j \in DOMAIN ls[u] :
            PlaceIn(s, i) = PlaceIn(u, j) => s = u /\ i = j
      /\ \A p \in AllPlaces(scenario) : \E s \in Sections : \E i \in DOMAIN ls[s] : p = PlaceIn(s, i)
      /\ \A p \in InParallel(scenario) : \E s \in Workers : \E i \in DOMAIN ls[s] : p = PlaceIn(s, i)
      /\ Workers \subseteq Sections
  BY <1>1, PlaceInFacts, ConfigFacts
<1>3. ScenarioAccepted(ops, scenario) <=>
          /\ \A p, q \in AllPlaces(scenario) :
                (p # q /\ ops[ActorAt(scenario, p)].oneShot) => ActorAt(scenario, p) # ActorAt(scenario, q)
          /\ \A p, q \in InParallel(scenario) :
                (/\ ops[ActorAt(scenario, p)].nonParallel
                 /\ ops[ActorAt(scenario, q)].nonParallel
                 /\ NonParallelKey(ops[ActorAt(scenario, p)]) = NonParallelKey(ops[ActorAt(scenario, q)]))
                    => p[1] = q[1]
  BY AcceptedIs
<1>4. ASSUME ScenarioAccepted(ops, scenario) PROVE Once(ops, ls) /\ OneThread(ops, ls, Workers)
  <2>1. ASSUME NEW s \in Sections, NEW u \in Sections, NEW i \in DOMAIN ls[s], NEW j \in DOMAIN ls[u],
               s # u \/ i # j, ops[ls[s][i]].oneShot
        PROVE  ls[s][i] # ls[u][j]
    <3>1. PICK p \in AllPlaces(scenario), q \in AllPlaces(scenario) :
              /\ p = PlaceIn(s, i) /\ q = PlaceIn(u, j) /\ p # q
              /\ ActorAt(scenario, p) = ls[s][i] /\ ActorAt(scenario, q) = ls[u][j]
      BY <1>2, <2>1
    <3>2. QED
      BY <1>3, <1>4, <2>1, <3>1
  <2>2. ASSUME NEW s \in Workers, NEW u \in Workers, NEW i \in DOMAIN ls[s], NEW j \in DOMAIN ls[u],
               ops[ls[s][i]].nonParallel, ops[ls[u][j]].nonParallel,
               NonParallelKey(ops[ls[s][i]]) = NonParallelKey(ops[ls[u][j]])
        PROVE  s = u
    <3>1. PICK p \in InParallel(scenario), q \in InParallel(scenario) :
              /\ p[1] = s /\ q[1] = u
              /\ ActorAt(scenario, p) = ls[s][i] /\ ActorAt(scenario, q) = ls[u][j]
      BY <1>2, <2>2
    <3>2. QED
      BY <1>3, <1>4, <2>2, <3>1
  <2>3. QED
    BY <2>1, <2>2 DEF Once, OneThread
<1>5. ASSUME Once(ops, ls), OneThread(ops, ls, Workers) PROVE ScenarioAccepted(ops, scenario)
  <2>1. ASSUME NEW p \in AllPlaces(scenario), NEW q \in AllPlaces(scenario), p # q,
               ops[ActorAt(scenario, p)].oneShot
        PROVE  ActorAt(scenario, p) # ActorAt(scenario, q)
    <3>1. PICK s \in Sections : \E i \in DOMAIN ls[s] : p = PlaceIn(s, i)
      BY <1>2
    <3>2. PICK i \in DOMAIN ls[s] : p = PlaceIn(s, i)
      BY <3>1
    <3>3. PICK u \in Sections : \E j \in DOMAIN ls[u] : q = PlaceIn(u, j)
      BY <1>2
    <3>4. PICK j \in DOMAIN ls[u] : q = PlaceIn(u, j)
      BY <3>3
    <3>5. /\ ActorAt(scenario, p) = ls[s][i] /\ ActorAt(scenario, q) = ls[u][j] /\ (s # u \/ i # j)
      BY <1>2, <2>1, <3>2, <3>4
    <3>6. QED
      BY <1>5, <2>1, <3>5 DEF Once
  <2>2. ASSUME NEW p \in InParallel(scenario), NEW q \in InParallel(scenario),
               ops[ActorAt(scenario, p)].nonParallel, ops[ActorAt(scenario, q)].nonParallel,
               NonParallelKey(ops[ActorAt(scenario, p)]) = NonParallelKey(ops[ActorAt(scenario, q)])
        PROVE  p[1] = q[1]
    <3>1. PICK s \in Workers : \E i \in DOMAIN ls[s] : p = PlaceIn(s, i)
      BY <1>2
    <3>2. PICK i \in DOMAIN ls[s] : p = PlaceIn(s, i)
      BY <3>1
    <3>3. PICK u \in Workers : \E j \in DOMAIN ls[u] : q = PlaceIn(u, j)
      BY <1>2
    <3>4. PICK j \in DOMAIN ls[u] : q = PlaceIn(u, j)
      BY <3>3
    <3>5. /\ ActorAt(scenario, p) = ls[s][i] /\ ActorAt(scenario, q) = ls[u][j] /\ p[1] = s /\ q[1] = u
      BY <1>2, <3>2, <3>4
    <3>6. QED
      BY <1>5, <2>2, <3>5 DEF OneThread
  <2>3. QED
    BY <1>3, <2>1, <2>2
<1>6. QED
  BY <1>1, <1>4, <1>5

-----------------------------------------------------------------------------
(* The generator keeps the rules.                                          *)

Generation ==
    phase = "generate" =>
        /\ generation = [section |-> generation.section, state |-> generation.state]
        /\ generation.section \in 0 .. Post + 1
        /\ Once(config.operations, lists)
        /\ OneShotsDrawn(config.operations, lists, generation.state.oneShots)
        /\ Owns(config.operations, lists, Workers, generation.state.owner)
        /\ \A s \in Sections : s < generation.section =>
              \/ Len(lists[s]) = Count(s)
              \/ Candidates(config.operations, generation.state, ParallelThread(s)) = {}

LEMMA FreshLists ==
    ASSUME RunInv, config' = config, lists' = [s \in Sections |-> <<>>],
           generation' = [section |-> 0, state |-> FreshGeneration]
    PROVE  Generation'
<1>1. TypeOK /\ Sections' = Sections /\ Workers' = Workers /\ Post' = Post
  BY SameConfig DEF RunInv
<1>2. PICK ls, ops, g : ls = lists' /\ ops = config.operations /\ g = FreshGeneration
  OBVIOUS
<1>3. DOMAIN ls = Sections /\ \A s \in Sections : DOMAIN ls[s] = {}
  BY <1>2
<1>4. g.oneShots = {} /\ DOMAIN g.owner = {}
  BY <1>2 DEF FreshGeneration
<1>5. Workers \subseteq Sections /\ 0 \in 0 .. Post + 1 /\ \A s \in Sections : ~(s < 0)
  BY <1>1, ConfigFacts
<1>6. Once(ops, ls) /\ OneShotsDrawn(ops, ls, g.oneShots) /\ Owns(ops, ls, Workers, g.owner)
  BY <1>3, <1>4, <1>5 DEF Once, OneShotsDrawn, Owns
<1>7. generation'.section = 0 /\ generation'.state = g
      /\ generation' = [section |-> generation'.section, state |-> generation'.state]
  BY <1>2
<1>8. QED
  BY <1>1, <1>2, <1>5, <1>6, <1>7 DEF Generation

LEMMA GenerateActorGenerates ==
    ASSUME RunInv, Generation, GenerateActor
    PROVE  Generation'
<1>1. TypeOK /\ phase = "generate" /\ phase' = phase /\ config' = config
  BY DEF RunInv, GenerateActor
<1>2. Sections' = Sections /\ Workers' = Workers /\ Post' = Post
  BY <1>1, SameConfig
<1>3. PICK s, thread, ops, g :
          /\ s = generation.section /\ thread = ParallelThread(s) /\ ops = config.operations
          /\ g = generation.state
  OBVIOUS
<1>4. PICK a \in Candidates(ops, g, thread) :
          /\ lists' = [lists EXCEPT ![s] = Append(@, a)]
          /\ generation' = [generation EXCEPT !.state = MarkGenerated(ops, a, g, thread)]
  BY <1>3 DEF GenerateActor, Drawable
<1>5. /\ generation = [section |-> s, state |-> g] /\ s \in Sections /\ s \in 0 .. Post + 1
      /\ Once(ops, lists) /\ OneShotsDrawn(ops, lists, g.oneShots) /\ Owns(ops, lists, Workers, g.owner)
      /\ \A u \in Sections : u < s => Len(lists[u]) = Count(u) \/ Candidates(ops, g, ParallelThread(u)) = {}
  BY <1>1, <1>3 DEF Generation, GenerateActor
<1>6. PICK after, key : after = MarkGenerated(ops, a, g, thread) /\ key = NonParallelKey(ops[a])
  OBVIOUS
<1>7. generation' = [section |-> s, state |-> after]
  BY <1>4, <1>5, <1>6
<1>8. /\ a \in DOMAIN ops /\ (ops[a].oneShot => a \notin g.oneShots)
      /\ (thread # Unthreaded /\ ops[a].nonParallel /\ key \in DOMAIN g.owner) => g.owner[key] = thread
  BY <1>6 DEF Candidates, Eligible
<1>9. PICK ls, new, k : ls = lists /\ new = lists' /\ k = Len(lists[s]) + 1
  OBVIOUS
<1>10. ls \in [Sections -> Seq(DOMAIN ops)] /\ DOMAIN ls = Sections
  BY <1>1, <1>3, <1>9 DEF TypeOK
<1>11. Extends(ls, new, s, k, a)
  BY <1>4, <1>5, <1>8, <1>9, <1>10, AppendExtends
<1>12. Marked(ops, a, g, thread, after, key)
  BY <1>6, MarkFacts
<1>13. Once(ops, new) /\ OneShotsDrawn(ops, new, after.oneShots)
  <2>1. after.oneShots = IF ops[a].oneShot THEN g.oneShots \cup {a} ELSE g.oneShots
    BY <1>12 DEF Marked
  <2>2. Once(ops, ls) /\ OneShotsDrawn(ops, ls, g.oneShots)
    BY <1>5, <1>9
  <2>3. QED
    BY <1>8, <1>11, <2>1, <2>2, DrawnOnce
<1>14. Workers \subseteq Sections /\ 0 \notin Workers
       /\ (s \in Workers => thread = s /\ thread # Unthreaded) /\ (s \notin Workers => thread = Unthreaded)
  BY <1>1, <1>3, ConfigFacts DEF ParallelThread, Unthreaded
<1>15. Owns(ops, new, Workers, after.owner)
  <2>1. Owns(ops, ls, Workers, g.owner)
    BY <1>5, <1>9
  <2>2. CASE s \in Workers /\ ops[a].nonParallel
    <3>1. PICK owner, now : owner = g.owner /\ now = after.owner
      OBVIOUS
    <3>2. /\ DOMAIN now = DOMAIN owner \cup {key} /\ \A x \in DOMAIN owner : now[x] = owner[x]
          /\ key \notin DOMAIN owner => now[key] = s
      BY <1>12, <1>14, <2>2, <3>1 DEF Marked
    <3>3. key \in DOMAIN owner => owner[key] = s
      BY <1>8, <1>14, <2>2, <3>1
    <3>4. Noted(owner, now, NonParallelKey(ops[a]), s)
      BY <1>6, <3>2, <3>3 DEF Noted
    <3>5. Owns(ops, ls, Workers, owner) /\ Workers \subseteq DOMAIN ls
      BY <1>10, <1>14, <2>1, <3>1
    <3>6. Owns(ops, new, Workers, now)
      BY <1>11, <2>2, <3>4, <3>5, DrawnInThread
    <3>7. QED
      BY <3>1, <3>6
  <2>3. CASE ~(s \in Workers /\ ops[a].nonParallel)
    <3>1. after.owner = g.owner
      BY <1>12, <1>14, <2>3 DEF Marked
    <3>2. Owns(ops, new, Workers, g.owner)
      BY <1>10, <1>11, <1>14, <2>1, <2>3, DrawnElsewhere
    <3>3. QED
      BY <3>1, <3>2
  <2>4. QED
    BY <2>2, <2>3
<1>16. ASSUME NEW u \in Sections, u < s
       PROVE  Len(new[u]) = Count(u) \/ Candidates(ops, after, ParallelThread(u)) = {}
  <2>1. s \in Int /\ u \in Int /\ u # s
    BY <1>1, <1>5, <1>16, ConfigFacts
  <2>2. new[u] = lists[u]
    BY <1>4, <1>9, <1>10, <2>1
  <2>3. Candidates(ops, after, ParallelThread(u)) \subseteq Candidates(ops, g, ParallelThread(u))
    BY <1>6, CandidatesShrink
  <2>4. QED
    BY <1>5, <1>16, <2>2, <2>3
<1>17. generation'.section = s /\ generation'.state = after
       /\ generation' = [section |-> generation'.section, state |-> generation'.state]
  BY <1>7
<1>18. \A u \in Sections : Count(u)' = Count(u) /\ ParallelThread(u)' = ParallelThread(u)
  BY <1>1, <1>2 DEF Count, ParallelThread
<1>19. config'.operations = ops /\ lists' = new
  BY <1>1, <1>3, <1>9
<1>20. QED
  BY <1>2, <1>5, <1>13, <1>15, <1>16, <1>17, <1>18, <1>19 DEF Generation

LEMMA EndListGenerates ==
    ASSUME RunInv, Generation, EndList
    PROVE  Generation'
<1>1. TypeOK /\ phase = "generate" /\ phase' = phase /\ config' = config /\ lists' = lists
  BY DEF RunInv, EndList
<1>2. Sections' = Sections /\ Workers' = Workers /\ Post' = Post
  BY <1>1, SameConfig
<1>3. PICK s, g : s = generation.section /\ g = generation.state
  OBVIOUS
<1>4. /\ generation = [section |-> s, state |-> g] /\ s \in Sections
      /\ Once(config.operations, lists) /\ OneShotsDrawn(config.operations, lists, g.oneShots)
      /\ Owns(config.operations, lists, Workers, g.owner)
      /\ \A u \in Sections : u < s => \/ Len(lists[u]) = Count(u)
                                      \/ Candidates(config.operations, g, ParallelThread(u)) = {}
      /\ Len(lists[s]) = Count(s) \/ Candidates(config.operations, g, ParallelThread(s)) = {}
  BY <1>1, <1>3 DEF Generation, EndList, Drawable
<1>5. generation' = [section |-> s + 1, state |-> g]
  BY <1>3, <1>4 DEF EndList
<1>6. generation'.section = s + 1 /\ generation'.state = g
      /\ generation' = [section |-> generation'.section, state |-> generation'.state]
  BY <1>5
<1>7. s + 1 \in 0 .. Post + 1 /\ \A u \in Sections : u < s + 1 => u < s \/ u = s
  BY <1>1, <1>4, ConfigFacts
<1>8. \A u \in Sections : Count(u)' = Count(u) /\ ParallelThread(u)' = ParallelThread(u)
  BY <1>1, <1>2 DEF Count, ParallelThread
<1>9. QED
  BY <1>1, <1>2, <1>4, <1>6, <1>7, <1>8 DEF Generation

LEMMA NextIterationGenerates ==
    ASSUME RunInv, NextIteration, config' = config
    PROVE  Generation'
<1>1. CASE phase' = "done"
  BY <1>1 DEF Generation
<1>2. CASE lists' = [s \in Sections |-> <<>>] /\ generation' = [section |-> 0, state |-> FreshGeneration]
  BY <1>2, FreshLists
<1>3. QED
  BY <1>1, <1>2 DEF NextIteration, Finish

LEMMA GenerationNext ==
    ASSUME RunInv, Generation, [Next]_vars
    PROVE  Generation'
<1>1. CASE GenerateActor
  BY <1>1, GenerateActorGenerates
<1>2. CASE EndList
  BY <1>2, EndListGenerates
<1>3. CASE EndGeneration
  <2>1. CASE BeginInvocation
    BY <2>1 DEF BeginInvocation, Generation
  <2>2. CASE NextIteration /\ config' = config
    BY <2>2, NextIterationGenerates
  <2>3. QED
    BY <1>3, <2>1, <2>2 DEF EndGeneration
<1>4. CASE Judge
  <2>1. CASE phase' = "done" \/ BeginInvocation
    BY <2>1 DEF BeginInvocation, Generation
  <2>2. CASE NextIteration /\ config' = config
    BY <2>2, NextIterationGenerates
  <2>3. QED
    BY <1>4, <2>1, <2>2, JudgeCases DEF Finish
<1>5. CASE RunInvocation \/ \E t \in 1 .. MaxThreads : Worker(t)
  <2>1. 0 \in Sections /\ Post \in Sections
    BY ConfigFacts DEF RunInv
  <2>2. ASSUME NEW s \in Sections, Operate(s),
               (phase = "init" /\ s = 0) \/ (phase = "post" /\ s = Post) \/ s \in Workers
        PROVE  phase' # "generate"
    BY <2>2, OperatePhase DEF RunUnchanged
  <2>3. CASE RunInvocation
    <3>1. CASE (phase = "init" /\ Operate(0)) \/ (phase = "post" /\ Operate(Post))
      BY <2>1, <2>2, <3>1 DEF Generation
    <3>2. CASE FailSection(0) \/ FailSection(Post)
      BY <3>2 DEF FailSection, Finish, Generation
    <3>3. CASE EndInit \/ Start \/ NotifyAll
      BY <3>3 DEF EndInit, Start, NotifyAll, Finish, Generation
    <3>4. CASE Join \/ EndPost
      BY <3>4 DEF Join, EndPost, Finish, Generation
    <3>5. QED
      BY <2>3, <3>1, <3>2, <3>3, <3>4 DEF RunInvocation
  <2>4. CASE \E t \in 1 .. MaxThreads : Worker(t)
    <3>1. PICK t : Worker(t)
      BY <2>4
    <3>2. t \in Workers /\ t \in Sections
      BY <3>1, ConfigFacts DEF Worker, RunInv
    <3>3. CASE Operate(t)
      BY <2>2, <3>2, <3>3 DEF Generation
    <3>4. CASE Arrive(t) \/ Keep(t)
      BY <3>4 DEF Arrive, Keep, Generation
    <3>5. QED
      BY <3>1, <3>3, <3>4 DEF Worker
  <2>5. QED
    BY <1>5, <2>3, <2>4 DEF Generation
<1>6. CASE DeadlinePasses
  BY <1>6 DEF DeadlinePasses, Generation
<1>7. CASE UNCHANGED vars
  <2>1. Sections' = Sections /\ Workers' = Workers /\ Post' = Post
    BY <1>7, SameConfig DEF vars
  <2>2. \A u \in Sections : Count(u)' = Count(u) /\ ParallelThread(u)' = ParallelThread(u)
    BY <1>7, <2>1 DEF Count, ParallelThread, vars
  <2>3. config' = config /\ lists' = lists /\ generation' = generation /\ phase' = phase
    BY <1>7 DEF vars
  <2>4. CASE phase = "generate"
    <3>1. PICK old : old = generation
      OBVIOUS
    <3>2. /\ old = [section |-> old.section, state |-> old.state] /\ old.section \in 0 .. Post + 1
          /\ Once(config.operations, lists) /\ OneShotsDrawn(config.operations, lists, old.state.oneShots)
          /\ Owns(config.operations, lists, Workers, old.state.owner)
          /\ \A s \in Sections : s < old.section =>
                \/ Len(lists[s]) = Count(s)
                \/ Candidates(config.operations, old.state, ParallelThread(s)) = {}
      BY <2>4, <3>1 DEF Generation
    <3>3. generation' = old
      BY <2>3, <3>1
    <3>4. QED
      BY <2>1, <2>2, <2>3, <3>2, <3>3 DEF Generation
  <2>5. QED
    BY <2>3, <2>4 DEF Generation
<1>8. QED
  BY <1>1, <1>2, <1>3, <1>4, <1>5, <1>6, <1>7 DEF Next

\* RandomExecutionGenerator, for any operations and any sizes: a generated scenario passes
\* validate_scenario_against_spec, and a section is shorter than asked only when no operation
\* could be added to it.
THEOREM StressGeneratedScenario == Spec => []GeneratedScenario
<1>1. Init => Generation
  <2> SUFFICES ASSUME Init PROVE Generation
    OBVIOUS
  <2>1. RunInv /\ lists = [s \in Sections |-> <<>>] /\ generation = [section |-> 0, state |-> FreshGeneration]
    BY RunInit DEF Init
  <2>2. PICK ls, ops, g : ls = lists /\ ops = config.operations /\ g = FreshGeneration
    OBVIOUS
  <2>3. DOMAIN ls = Sections /\ \A s \in Sections : DOMAIN ls[s] = {}
    BY <2>1, <2>2
  <2>4. g.oneShots = {} /\ DOMAIN g.owner = {}
    BY <2>2 DEF FreshGeneration
  <2>5. Workers \subseteq Sections /\ 0 \in 0 .. Post + 1 /\ \A s \in Sections : ~(s < 0)
    BY <2>1, ConfigFacts DEF RunInv
  <2>6. Once(ops, ls) /\ OneShotsDrawn(ops, ls, g.oneShots) /\ Owns(ops, ls, Workers, g.owner)
    BY <2>3, <2>4, <2>5 DEF Once, OneShotsDrawn, Owns
  <2>7. generation.section = 0 /\ generation.state = g
        /\ generation = [section |-> generation.section, state |-> generation.state]
    BY <2>1, <2>2
  <2>8. QED
    BY <2>2, <2>5, <2>6, <2>7 DEF Generation
<1>2. RunInv /\ Generation /\ [Next]_vars => Generation'
  BY GenerationNext
<1>3. ASSUME RunInv, Generation PROVE GeneratedScenario
  <2> SUFFICES ASSUME phase = "generate", generation.section \notin Sections
               PROVE  /\ ScenarioAccepted(config.operations, Scenario)
                      /\ \A s \in Sections : \/ Len(lists[s]) = Count(s)
                                             \/ \A i \in DOMAIN config.operations :
                                                   ~ScenarioAccepted(config.operations,
                                                        ScenarioOf([lists EXCEPT ![s] = Append(@, i)]))
    BY DEF GeneratedScenario, ScenarioOf
  <2>1. PICK ops, g : ops = config.operations /\ g = generation.state
    OBVIOUS
  <2>2. /\ Once(ops, lists) /\ OneShotsDrawn(ops, lists, g.oneShots) /\ Owns(ops, lists, Workers, g.owner)
        /\ generation.section \in 0 .. Post + 1
        /\ \A s \in Sections : s < generation.section =>
              Len(lists[s]) = Count(s) \/ Candidates(ops, g, ParallelThread(s)) = {}
    BY <1>3, <2>1 DEF Generation
  <2>3. TypeOK /\ ops # <<>>
    BY <1>3, <2>1, ConfigsAssumption DEF RunInv, TypeOK
  <2>4. lists \in [Sections -> Seq(DOMAIN ops)]
    BY <2>1, <2>3 DEF TypeOK
  <2>5. Scenario = ScenarioOf(lists)
    BY DEF Scenario, ScenarioOf
  <2>6. ScenarioAccepted(ops, Scenario)
    BY <2>2, <2>3, <2>4, <2>5, AcceptedIsRules, OwnsIsOneThread
  <2>7. ASSUME NEW s \in Sections, Len(lists[s]) # Count(s), NEW i \in DOMAIN ops
        PROVE  ~ScenarioAccepted(ops, ScenarioOf([lists EXCEPT ![s] = Append(@, i)]))
    <3>1. s < generation.section
      BY <2>2, <2>3, ConfigFacts
    <3>2. ~Eligible(ops, i, g, ParallelThread(s))
      BY <2>2, <2>7, <3>1 DEF Candidates
    <3>3. PICK ls, new, k, thread :
              /\ ls = lists /\ new = [lists EXCEPT ![s] = Append(@, i)] /\ k = Len(lists[s]) + 1
              /\ thread = ParallelThread(s)
      OBVIOUS
    <3>4. Extends(ls, new, s, k, i)
      BY <2>4, <2>7, <3>3, AppendExtends
    <3>5. /\ DOMAIN ls = Sections /\ DOMAIN new = Sections /\ Workers \in SUBSET DOMAIN ls
          /\ thread # Unthreaded => thread = s /\ s \in Workers
      BY <2>3, <2>4, <3>3, ConfigFacts DEF ParallelThread
    <3>6. OneShotsDrawn(ops, ls, g.oneShots) /\ Owns(ops, ls, Workers, g.owner) /\ ~Eligible(ops, i, g, thread)
      BY <2>2, <3>2, <3>3
    <3>7. ~(Once(ops, new) /\ OneThread(ops, new, Workers))
      BY <3>4, <3>5, <3>6, NotEligibleRefused
    <3>8. QED
      BY <2>3, <3>3, <3>5, <3>7, AcceptedIsRules
  <2>8. QED
    BY <2>1, <2>6, <2>7
<1>4. QED
  BY <1>1, <1>2, <1>3, RunAlways, PTL DEF Spec
=============================================================================
