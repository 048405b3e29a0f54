---------------------------- MODULE OpacityProofs ----------------------------
(***************************************************************************)
(* verify_stm_opacity answers what opacity means, for any history that the *)
(* builder accepts: an order that it finds explains all transactions, and  *)
(* it finds one unless there is none or the limit was met.                 *)
(***************************************************************************)
EXTENDS Opacity, FiniteSetTheorems, WellFoundedInduction, TLAPS

-----------------------------------------------------------------------------
(* Counting up.  An induction is a set of numbers that has the first one   *)
(* and with each the next.                                                 *)

LEMMA Least ==
    ASSUME NEW T \in SUBSET Nat, T # {}
    PROVE  \E m \in T : \A n \in T : m <= n
<1> DEFINE R == {ss \in Nat \X Nat : ss[1] < ss[2]}
<1>1. IsWellFoundedOn(R, Nat)
  BY NatLessThanWellFounded DEF OpToRel
<1>2. PICK m \in T : \A n \in T : ~(<<n, m>> \in R)
  BY <1>1, WFMin
<1>3. ASSUME NEW n \in T, n < m PROVE FALSE
  <2>1. n \in Nat /\ m \in Nat
    OBVIOUS
  <2>2. <<n, m>> \in R
    BY <1>3, <2>1
  <2>3. QED
    BY <1>2, <2>2
<1>4. QED
  BY <1>2, <1>3

LEMMA Climb ==
    ASSUME NEW n \in Nat, NEW T, 0 \in T, \A i \in 1 .. n : i - 1 \in T => i \in T
    PROVE  0 .. n \subseteq T
<1> DEFINE U == (0 .. n) \ T
<1> SUFFICES ASSUME U # {} PROVE FALSE
  OBVIOUS
<1>1. PICK m \in U : \A k \in U : m <= k
  <2>1. U \in SUBSET Nat
    OBVIOUS
  <2>2. QED
    BY <2>1, Least
<1>2. m \in 1 .. n /\ m - 1 \notin U
  BY <1>1
<1>3. QED
  BY <1>2

\* A loop of n rounds on values in S, and what it makes of a
Rounds(n, S) == [1 .. n -> [S -> S]]
Follows(f, n, S, a, step) ==
    f \in [0 .. n -> S] /\ f[0] = a /\ \A i \in 1 .. n : f[i] = step[i][f[i - 1]]

LEMMA Iterate ==
    ASSUME NEW n \in Nat, NEW S, NEW a \in S, NEW step \in Rounds(n, S)
    PROVE  \E f : Follows(f, n, S, a, step)
<1> USE DEF Rounds, Follows
<1> DEFINE Loop(f, m) == /\ f \in [0 .. m -> S]
                         /\ f[0] = a
                         /\ \A i \in 1 .. m : f[i] = step[i][f[i - 1]]
           T == {m \in 0 .. n : \E f : Loop(f, m)}
<1>1. 0 \in T
  <2>1. /\ [i \in 0 .. 0 |-> a] \in [0 .. 0 -> S]
        /\ [i \in 0 .. 0 |-> a][0] = a
        /\ 1 .. 0 = {}
    OBVIOUS
  <2>2. \E f : Loop(f, 0)
    BY <2>1
  <2>3. QED
    BY <2>2
<1>2. ASSUME NEW m \in 1 .. n, m - 1 \in T PROVE m \in T
  <2>1. PICK f : Loop(f, m - 1)
    BY <1>2
  <2>2. PICK g : g = [i \in 0 .. m |-> IF i = m THEN step[m][f[m - 1]] ELSE f[i]]
    OBVIOUS
  <2>3. f[m - 1] \in S
    BY <2>1
  <2>4. step[m][f[m - 1]] \in S
    BY <2>3
  <2>5. g \in [0 .. m -> S] /\ g[0] = a
    BY <2>1, <2>2, <2>4
  <2>6. ASSUME NEW i \in 1 .. m PROVE g[i] = step[i][g[i - 1]]
    BY <2>1, <2>2
  <2>7. \E h : Loop(h, m)
    BY <2>5, <2>6
  <2>8. m \in 0 .. n
    OBVIOUS
  <2>9. QED
    <3> HIDE DEF Loop
    <3>1. QED
      BY <2>7, <2>8
<1>3. n \in T
  <2> HIDE DEF T
  <2>1. 0 .. n \subseteq T
    BY <1>1, <1>2, Climb
  <2>2. QED
    BY <2>1
<1>4. QED
  BY <1>3

\* e makes of a function another one, whose value at x depends on its values where m is less
Descends(e, S, A, m) ==
    /\ e \in [[S -> A] -> [S -> A]]
    /\ \A f, g \in [S -> A], x \in S :
          (\A y \in S : m[y] < m[x] => f[y] = g[y]) => e[f][x] = e[g][x]

Fixed(f, e, S, A) == f \in [S -> A] /\ e[f] = f

\* A function may be defined by recursion on a measure
LEMMA Recursion ==
    ASSUME NEW S, NEW A, NEW a \in A, NEW M \in Nat, NEW m \in [S -> 0 .. M],
           NEW e, Descends(e, S, A, m)
    PROVE  \E f : Fixed(f, e, S, A)
<1> USE DEF Descends, Fixed
<1> DEFINE F == [S -> A]
           base == [x \in S |-> a]
           step == [i \in 1 .. M + 2 |-> e]
<1>1. PICK fs \in [0 .. M + 2 -> F] : \A i \in 1 .. M + 2 : fs[i] = e[fs[i - 1]]
  <2>1. base \in F /\ step \in Rounds(M + 2, F) /\ M + 2 \in Nat
    BY DEF Rounds
  <2> HIDE DEF base, step
  <2>2. PICK fs : Follows(fs, M + 2, F, base, step)
    BY <2>1, Iterate
  <2>3. fs \in [0 .. M + 2 -> F] /\ \A i \in 1 .. M + 2 : fs[i] = step[i][fs[i - 1]]
    BY <2>2 DEF Follows
  <2>4. ASSUME NEW i \in 1 .. M + 2 PROVE fs[i] = e[fs[i - 1]]
    <3>1. step[i] = e
      BY DEF step
    <3>2. QED
      BY <2>3, <3>1
  <2> HIDE DEF F
  <2>5. QED
    BY <2>3, <2>4
<1> DEFINE T == {i \in 0 .. M + 1 : \A x \in S : m[x] < i => fs[i][x] = fs[i + 1][x]}
<1>2. 0 \in T
  BY DEF T
<1>3. ASSUME NEW i \in 1 .. M + 1, i - 1 \in T PROVE i \in T
  <2>1. /\ i \in 1 .. M + 2 /\ i + 1 \in 1 .. M + 2 /\ (i + 1) - 1 = i
        /\ i - 1 \in 0 .. M + 2 /\ i \in 0 .. M + 2 /\ (i - 1) + 1 = i
    OBVIOUS
  <2>2. fs[i] = e[fs[i - 1]] /\ fs[i + 1] = e[fs[i]] /\ fs[i - 1] \in F /\ fs[i] \in F
    BY <1>1, <2>1
  <2>3. \A y \in S : m[y] < i - 1 => fs[i - 1][y] = fs[i][y]
    BY <1>3, <2>1 DEF T
  <2>4. ASSUME NEW x \in S, m[x] < i PROVE fs[i][x] = fs[i + 1][x]
    <3>1. \A y \in S : m[y] < m[x] => fs[i - 1][y] = fs[i][y]
      BY <2>3, <2>4
    <3>2. e[fs[i - 1]][x] = e[fs[i]][x]
      BY <2>2, <3>1
    <3>3. QED
      BY <2>2, <3>2
  <2>5. QED
    BY <2>4 DEF T
<1>4. M + 1 \in T
  <2> HIDE DEF T
  <2>1. M + 1 \in Nat /\ M + 1 \in 0 .. M + 1
    OBVIOUS
  <2>2. 0 .. M + 1 \subseteq T
    BY <1>2, <1>3, <2>1, Climb
  <2>3. QED
    BY <2>1, <2>2
<1>5. fs[M + 1] \in F /\ fs[M + 2] = e[fs[M + 1]] /\ fs[M + 2] \in F
  <2>1. M + 2 \in 1 .. M + 2 /\ (M + 2) - 1 = M + 1 /\ M + 1 \in 0 .. M + 2 /\ M + 2 \in 0 .. M + 2
    OBVIOUS
  <2>2. QED
    BY <1>1, <2>1
<1>6. \A x \in S : fs[M + 1][x] = fs[M + 2][x]
  <2>1. \A x \in S : m[x] < M + 1 /\ (M + 1) + 1 = M + 2
    OBVIOUS
  <2>2. QED
    BY <1>4, <2>1 DEF T
<1>7. fs[M + 1] = fs[M + 2]
  BY <1>5, <1>6
<1>8. QED
  BY <1>5, <1>7

LEMMA Highest ==
    ASSUME NEW n \in Nat, NEW T \in SUBSET (1 .. n), T # {}
    PROVE  \E m \in T : \A i \in T : i <= m
<1> DEFINE U == {n - i : i \in T}
<1>1. U \in SUBSET Nat /\ U # {}
  OBVIOUS
<1>2. PICK u \in U : \A v \in U : u <= v
  <2> HIDE DEF U
  <2>1. QED
    BY <1>1, Least
<1>3. PICK m \in T : u = n - m
  BY <1>2
<1>4. \A i \in T : n - m <= n - i
  BY <1>2, <1>3
<1>5. QED
  BY <1>4

LEMMA LatestFacts ==
    ASSUME NEW n \in Nat, NEW T \in SUBSET (1 .. n)
    PROVE  /\ T = {} => Latest(T) = 0
           /\ T # {} => Latest(T) \in T /\ \A i \in T : i <= Latest(T)
<1>1. CASE T = {}
  BY <1>1 DEF Latest
<1>2. CASE T # {}
  <2>1. \E m \in T : \A i \in T : i <= m
    BY <1>2, Highest
  <2>2. QED
    BY <1>2, <2>1 DEF Latest
<1>3. QED
  BY <1>1, <1>2

-----------------------------------------------------------------------------
(* Histories, orders and the states they lead through.                     *)

\* Transactions in the order of their begins, each with an end after its begin or none, and an
\* initial value for whatever they access
WellFormed(history) ==
    LET txs == history.transactions
    IN  /\ Len(txs) \in Nat /\ DOMAIN txs = 1 .. Len(txs)
        /\ history.initial = [x \in DOMAIN history.initial |-> history.initial[x]]
        /\ \A i \in DOMAIN txs : /\ txs[i].begin \in Nat /\ txs[i].end \in Nat
                                 /\ txs[i].end # 0 => txs[i].begin < txs[i].end
                                 /\ \A k \in DOMAIN txs[i].accesses :
                                       txs[i].accesses[k].loc \in DOMAIN history.initial
        /\ \A i, j \in DOMAIN txs : i < j => txs[i].begin < txs[j].begin

LEMMA WellFormedFacts ==
    ASSUME NEW history, WellFormed(history)
    PROVE  /\ Len(history.transactions) \in Nat
           /\ DOMAIN history.transactions = 1 .. Len(history.transactions)
           /\ Committed(history) \subseteq 1 .. Len(history.transactions)
           /\ Observers(history) \subseteq 1 .. Len(history.transactions)
           /\ IsFiniteSet(Committed(history)) /\ Cardinality(Committed(history)) \in Nat
           /\ IsFiniteSet(Observers(history))
           /\ \A i, j \in DOMAIN history.transactions :
                 Precedes(history.transactions[i], history.transactions[j]) => i < j
<1>1. /\ Len(history.transactions) \in Nat
      /\ DOMAIN history.transactions = 1 .. Len(history.transactions)
  BY DEF WellFormed
<1>2. /\ Committed(history) \subseteq 1 .. Len(history.transactions)
      /\ Observers(history) \subseteq 1 .. Len(history.transactions)
  BY <1>1 DEF Committed, Observers
<1>3. IsFiniteSet(1 .. Len(history.transactions))
  BY <1>1, FS_Interval
<1>4. IsFiniteSet(Committed(history)) /\ IsFiniteSet(Observers(history))
  BY <1>2, <1>3, FS_Subset
<1>5. Cardinality(Committed(history)) \in Nat
  BY <1>4, FS_CardinalityType
<1>6. ASSUME NEW i \in DOMAIN history.transactions, NEW j \in DOMAIN history.transactions,
             Precedes(history.transactions[i], history.transactions[j])
      PROVE  i < j
  <2>1. PICK l : l = history.transactions[i]
    OBVIOUS
  <2>2. PICK r : r = history.transactions[j]
    OBVIOUS
  <2>3. /\ l.begin \in Nat /\ l.end \in Nat /\ (l.end # 0 => l.begin < l.end) /\ r.begin \in Nat
        /\ (j < i => r.begin < l.begin) /\ (i = j => l = r)
    BY <2>1, <2>2 DEF WellFormed
  <2>4. l.end # 0 /\ l.end < r.begin
    BY <1>6, <2>1, <2>2 DEF Precedes
  <2>5. QED
    BY <1>1, <2>3, <2>4
<1>7. QED
  BY <1>1, <1>2, <1>4, <1>5, <1>6

\* Committed transactions, each at most once
Arranged(history, order) ==
    /\ order \in Seq(Committed(history))
    /\ \A k, l \in 1 .. Len(order) : k # l => order[k] # order[l]

LEMMA CountTo ==
    ASSUME NEW n \in Nat
    PROVE  IsFiniteSet(1 .. n) /\ Cardinality(1 .. n) = n
<1>1. 1 \in Int /\ n \in Int
  OBVIOUS
<1>2. IsFiniteSet(1 .. n) /\ Cardinality(1 .. n) = IF 1 > n THEN 0 ELSE n - 1 + 1
  BY <1>1, FS_Interval, Zenon
<1>3. (IF 1 > n THEN 0 ELSE n - 1 + 1) = n
  OBVIOUS
<1>4. QED
  BY <1>2, <1>3

LEMMA ArrangedFacts ==
    ASSUME NEW history, WellFormed(history), NEW order, Arranged(history, order)
    PROVE  /\ Len(order) \in Nat /\ DOMAIN order = 1 .. Len(order)
           /\ \A k \in 1 .. Len(order) : order[k] \in Committed(history)
           /\ Placed(order) = {order[k] : k \in 1 .. Len(order)}
           /\ Placed(order) \subseteq Committed(history)
           /\ IsFiniteSet(Placed(order)) /\ Cardinality(Placed(order)) = Len(order)
           /\ Len(order) <= Cardinality(Committed(history))
           /\ (Len(order) = Cardinality(Committed(history)) <=> Placed(order) = Committed(history))
<1>1. /\ Len(order) \in Nat /\ DOMAIN order = 1 .. Len(order)
      /\ \A k \in 1 .. Len(order) : order[k] \in Committed(history)
  BY DEF Arranged
<1>2. Placed(order) = {order[k] : k \in 1 .. Len(order)} /\ Placed(order) \subseteq Committed(history)
  BY <1>1 DEF Placed
<1>3. IsFiniteSet(Committed(history))
  BY WellFormedFacts
<1>4. /\ IsFiniteSet(Placed(order)) /\ Cardinality(Placed(order)) <= Cardinality(Committed(history))
      /\ (Cardinality(Committed(history)) = Cardinality(Placed(order)) => Committed(history) = Placed(order))
  BY <1>2, <1>3, FS_Subset
<1>5. order \in Bijection(1 .. Len(order), Placed(order))
  <2>1. order \in [1 .. Len(order) -> Placed(order)]
    BY <1>1, <1>2 DEF Arranged
  <2>2. \A k, l \in 1 .. Len(order) : order[k] = order[l] => k = l
    BY DEF Arranged
  <2>3. \A y \in Placed(order) : \E k \in 1 .. Len(order) : order[k] = y
    BY <1>2
  <2>4. order \in Injection(1 .. Len(order), Placed(order))
    BY <2>1, <2>2 DEF Injection, IsInjective
  <2>5. order \in Surjection(1 .. Len(order), Placed(order))
    BY <2>1, <2>3 DEF Surjection
  <2>6. QED
    BY <2>4, <2>5 DEF Bijection
<1>6. IsFiniteSet(1 .. Len(order)) /\ Cardinality(1 .. Len(order)) = Len(order)
  BY <1>1, CountTo
<1>7. Cardinality(Placed(order)) = Len(order)
  <2>1. ExistsBijection(1 .. Len(order), Placed(order))
    BY <1>5 DEF ExistsBijection
  <2>2. QED
    BY <1>6, <2>1, FS_Bijection
<1>8. QED
  BY <1>1, <1>2, <1>4, <1>7

\* What the places hold when the transactions run in this order
LEMMA StatesEquation ==
    ASSUME NEW history, WellFormed(history), NEW order, Arranged(history, order)
    PROVE  /\ StatesAfter(history, order)[0] = history.initial
           /\ \A k \in 1 .. Len(order) :
                 StatesAfter(history, order)[k]
                     = After(history.transactions[order[k]], StatesAfter(history, order)[k - 1])
<1>1. PICK n : n = Len(order)
  OBVIOUS
<1>2. n \in Nat /\ DOMAIN order = 1 .. n
  BY <1>1, ArrangedFacts
<1>3. PICK txs : txs = history.transactions
  OBVIOUS
<1>4. PICK first : first = history.initial
  OBVIOUS
<1> DEFINE Good(s) == s[0] = first /\ \A k \in 1 .. n : s[k] = After(txs[order[k]], s[k - 1])
           body(s) == [k \in 0 .. n |-> IF k = 0 THEN first ELSE After(txs[order[k]], s[k - 1])]
<1>5. \E s : s = body(s)
  <2>1. \E s : Good(s) /\ DOMAIN s = 0 .. n /\ s = [k \in 0 .. n |-> s[k]]
    <3> DEFINE T == {m \in 0 .. n : \E s : /\ s = [k \in 0 .. n |-> s[k]]
                                           /\ s[0] = first
                                           /\ \A k \in 1 .. m : s[k] = After(txs[order[k]], s[k - 1])}
    <3>1. 0 \in T
      <4>1. PICK s : s = [k \in 0 .. n |-> first]
        OBVIOUS
      <4>2. s = [k \in 0 .. n |-> s[k]] /\ s[0] = first /\ 1 .. 0 = {}
        BY <1>2, <4>1
      <4>3. QED
        BY <1>2, <4>2
    <3>2. ASSUME NEW m \in 1 .. n, m - 1 \in T PROVE m \in T
      <4>1. PICK s : /\ s = [k \in 0 .. n |-> s[k]]
                     /\ s[0] = first
                     /\ \A k \in 1 .. m - 1 : s[k] = After(txs[order[k]], s[k - 1])
        BY <3>2
      <4>2. PICK after : after = After(txs[order[m]], s[m - 1])
        OBVIOUS
      <4>3. PICK t : t = [k \in 0 .. n |-> IF k = m THEN after ELSE s[k]]
        OBVIOUS
      <4>4. t = [k \in 0 .. n |-> t[k]] /\ t[0] = first
        BY <1>2, <4>1, <4>3
      <4>5. ASSUME NEW k \in 1 .. m PROVE t[k] = After(txs[order[k]], t[k - 1])
        <5>1. t[k - 1] = s[k - 1]
          BY <1>2, <4>3
        <5>2. CASE k = m
          BY <1>2, <4>2, <4>3, <5>1, <5>2
        <5>3. CASE k # m
          <6>1. k \in 1 .. m - 1 /\ t[k] = s[k]
            BY <1>2, <4>3, <5>3
          <6>2. QED
            BY <4>1, <5>1, <6>1
        <5>4. QED
          BY <5>2, <5>3
      <4>6. \E s2 : /\ s2 = [k \in 0 .. n |-> s2[k]]
                    /\ s2[0] = first
                    /\ \A k \in 1 .. m : s2[k] = After(txs[order[k]], s2[k - 1])
        BY <4>4, <4>5
      <4>7. m \in 0 .. n
        BY <1>2
      <4>8. QED
        BY <4>6, <4>7
    <3>3. n \in T
      <4> HIDE DEF T
      <4>1. 0 .. n \subseteq T
        BY <1>2, <3>1, <3>2, Climb
      <4>2. QED
        BY <1>2, <4>1
    <3>4. QED
      BY <3>3
  <2>2. PICK s : Good(s) /\ s = [k \in 0 .. n |-> s[k]]
    BY <2>1
  <2>3. ASSUME NEW k \in 0 .. n
        PROVE  s[k] = IF k = 0 THEN first ELSE After(txs[order[k]], s[k - 1])
    <3>1. k = 0 \/ k \in 1 .. n
      BY <1>2
    <3>2. QED
      BY <2>2, <3>1
  <2>4. QED
    BY <2>2, <2>3
<1>6. StatesAfter(history, order) = CHOOSE s : s = body(s)
  BY <1>1, <1>3, <1>4 DEF StatesAfter
<1>7. PICK s : s = StatesAfter(history, order)
  OBVIOUS
<1>8. s = body(s)
  <2> HIDE DEF body
  <2>1. QED
    BY <1>5, <1>6, <1>7
<1>9. Good(s)
  <2>1. s[0] = first
    BY <1>2, <1>8
  <2>2. ASSUME NEW k \in 1 .. n PROVE s[k] = After(txs[order[k]], s[k - 1])
    <3>1. k \in 0 .. n /\ k # 0
      BY <1>2
    <3>2. s[k] = IF k = 0 THEN first ELSE After(txs[order[k]], s[k - 1])
      BY <1>8, <3>1
    <3>3. QED
      BY <3>1, <3>2
  <2>3. QED
    BY <2>1, <2>2
<1>10. QED
  BY <1>1, <1>3, <1>4, <1>7, <1>9

\* The places of an order up to k whose transactions write to x
WritesTo(history, order, k, x) ==
    {l \in 1 .. k : x \in DOMAIN FinalWrites(history.transactions[order[l]])}

\* Each location holds what the last of them wrote
Holding(history, order, k, x) ==
    LET last == Latest(WritesTo(history, order, k, x))
    IN  IF last = 0 THEN history.initial[x] ELSE FinalWrites(history.transactions[order[last]])[x]

LEMMA AfterAt ==
    ASSUME NEW tx, NEW state, NEW x \in DOMAIN state
    PROVE  After(tx, state)[x] = IF x \in DOMAIN FinalWrites(tx) THEN FinalWrites(tx)[x] ELSE state[x]
BY DEF After

LEMMA AfterShape ==
    ASSUME NEW tx, NEW state
    PROVE  /\ DOMAIN After(tx, state) = DOMAIN state
           /\ After(tx, state) = [x \in DOMAIN state |-> After(tx, state)[x]]
BY DEF After
LEMMA StatesHold ==
    ASSUME NEW history, WellFormed(history), NEW order, Arranged(history, order),
           NEW k \in 0 .. Len(order)
    PROVE  /\ DOMAIN StatesAfter(history, order)[k] = DOMAIN history.initial
           /\ StatesAfter(history, order)[k]
                 = [x \in DOMAIN history.initial |-> Holding(history, order, k, x)]
<1>1. PICK n : n = Len(order)
  OBVIOUS
<1>2. n \in Nat
  BY <1>1, ArrangedFacts
<1>3. PICK txs : txs = history.transactions
  OBVIOUS
<1>4. PICK first : first = history.initial
  OBVIOUS
<1>5. PICK s : s = StatesAfter(history, order)
  OBVIOUS
<1>6. s[0] = first /\ \A l \in 1 .. n : s[l] = After(txs[order[l]], s[l - 1])
  BY <1>1, <1>3, <1>4, <1>5, StatesEquation
<1> DEFINE Held(l) == /\ s[l] = [x \in DOMAIN first |-> s[l][x]]
                      /\ \A x \in DOMAIN first : s[l][x] = Holding(history, order, l, x)
           T == {l \in 0 .. n : Held(l)}
<1>7. 0 \in T
  <2>1. first = [x \in DOMAIN first |-> first[x]]
    BY <1>4 DEF WellFormed
  <2>2. ASSUME NEW x \in DOMAIN first PROVE Holding(history, order, 0, x) = first[x]
    <3>1. WritesTo(history, order, 0, x) = {}
      BY DEF WritesTo
    <3>2. Latest(WritesTo(history, order, 0, x)) = 0
      BY <3>1 DEF Latest
    <3>3. QED
      BY <1>4, <3>2 DEF Holding
  <2>3. QED
    BY <1>2, <1>6, <2>1, <2>2
<1>8. ASSUME NEW l \in 1 .. n, l - 1 \in T PROVE l \in T
  <2>1. Held(l - 1)
    BY <1>8
  <2>2. s[l] = After(txs[order[l]], s[l - 1])
    BY <1>6
  <2>3. DOMAIN s[l - 1] = DOMAIN first
    BY <2>1
  <2>4. s[l] = [x \in DOMAIN first |-> s[l][x]]
    BY <2>2, <2>3, AfterShape
  <2>5. ASSUME NEW x \in DOMAIN first PROVE s[l][x] = Holding(history, order, l, x)
    <3>1. PICK final : final = FinalWrites(txs[order[l]])
      OBVIOUS
    <3>2. s[l][x] = IF x \in DOMAIN final THEN final[x] ELSE s[l - 1][x]
      BY <2>2, <2>3, <3>1, AfterAt
    <3>3. PICK W : W = WritesTo(history, order, l, x)
      OBVIOUS
    <3>4. PICK V : V = WritesTo(history, order, l - 1, x)
      OBVIOUS
    <3>5. /\ W \in SUBSET (1 .. l) /\ V \in SUBSET (1 .. (l - 1)) /\ l \in Nat /\ l - 1 \in Nat
          /\ \A m \in 1 .. (l - 1) : m \in W <=> m \in V
          /\ l \in W <=> x \in DOMAIN final
      BY <1>2, <1>3, <3>1, <3>3, <3>4 DEF WritesTo
    <3>6. CASE x \in DOMAIN final
      <4>1. W # {} /\ l \in W
        BY <3>5, <3>6
      <4>2. Latest(W) \in W /\ l <= Latest(W)
        BY <3>5, <4>1, LatestFacts
      <4>3. PICK last : last = Latest(W)
        OBVIOUS
      <4>4. last \in 1 .. l /\ l <= last
        BY <3>5, <4>2, <4>3
      <4>5. last = l /\ l # 0
        BY <3>5, <4>4
      <4>6. Holding(history, order, l, x) = final[x]
        BY <1>3, <3>1, <3>3, <4>3, <4>5 DEF Holding
      <4>7. QED
        BY <3>2, <3>6, <4>6
    <3>7. CASE x \notin DOMAIN final
      <4>1. W = V
        <5>1. ASSUME NEW m \in W PROVE m \in V
          BY <3>5, <3>7
        <5>2. ASSUME NEW m \in V PROVE m \in W
          BY <3>5
        <5>3. QED
          BY <5>1, <5>2
      <4>2. Holding(history, order, l, x) = Holding(history, order, l - 1, x)
        BY <3>3, <3>4, <4>1 DEF Holding
      <4>3. QED
        BY <2>1, <3>2, <3>7, <4>2
    <3>8. QED
      BY <3>6, <3>7
  <2>6. l \in 0 .. n
    BY <1>2
  <2>7. QED
    BY <2>4, <2>5, <2>6
<1>9. Held(k)
  <2> HIDE DEF T
  <2>1. 0 .. n \subseteq T
    BY <1>2, <1>7, <1>8, Climb
  <2>2. k \in T
    BY <1>1, <2>1
  <2> USE DEF T
  <2> HIDE DEF Held
  <2>3. QED
    BY <2>2
<1>10. QED
  BY <1>4, <1>5, <1>9

LEMMA HoldingAgrees ==
    ASSUME NEW history, NEW left, NEW right, NEW k \in Nat,
           \A l \in 1 .. k : left[l] = right[l], NEW x
    PROVE  Holding(history, left, k, x) = Holding(history, right, k, x)
<1>1. PICK W : W = WritesTo(history, left, k, x)
  OBVIOUS
<1>2. W = WritesTo(history, right, k, x) /\ W \in SUBSET (1 .. k)
  BY <1>1 DEF WritesTo
<1>3. Latest(W) = 0 \/ Latest(W) \in 1 .. k
  BY <1>2, LatestFacts
<1>4. QED
  BY <1>1, <1>2, <1>3 DEF Holding

LEMMA StatesAgree ==
    ASSUME NEW history, WellFormed(history), NEW left, Arranged(history, left),
           NEW right, Arranged(history, right), NEW k \in Nat, k <= Len(left), k <= Len(right),
           \A l \in 1 .. k : left[l] = right[l]
    PROVE  StatesAfter(history, left)[k] = StatesAfter(history, right)[k]
<1>1. Len(left) \in Nat /\ Len(right) \in Nat
  BY ArrangedFacts
<1>2. k \in 0 .. Len(left) /\ k \in 0 .. Len(right)
  BY <1>1
<1>3. \A x \in DOMAIN history.initial : Holding(history, left, k, x) = Holding(history, right, k, x)
  BY HoldingAgrees
<1>4. /\ StatesAfter(history, left)[k]
            = [x \in DOMAIN history.initial |-> Holding(history, left, k, x)]
      /\ StatesAfter(history, right)[k]
            = [x \in DOMAIN history.initial |-> Holding(history, right, k, x)]
  BY <1>2, StatesHold
<1>5. QED
  BY <1>3, <1>4

-----------------------------------------------------------------------------
(* Serial orders: each transaction reads what those before it left, and    *)
(* comes after those that precede it in time.                              *)

ReadsAt(history, order, k) ==
    ReadsValid(history.transactions[order[k]], StatesAfter(history, order)[k - 1])

InTime(history, order, k) ==
    \A i \in Committed(history) :
        Precedes(history.transactions[i], history.transactions[order[k]])
            => \E l \in 1 .. (k - 1) : order[l] = i

Serial(history, order) ==
    /\ Arranged(history, order)
    /\ \A k \in 1 .. Len(order) : ReadsAt(history, order, k) /\ InTime(history, order, k)

Full(history, order) == Serial(history, order) /\ Placed(order) = Committed(history)

\* A serial order of all the committed transactions that starts with this one
Extends(order, prefix) ==
    Len(prefix) <= Len(order) /\ \A k \in 1 .. Len(prefix) : order[k] = prefix[k]

LEMMA AppendArranged ==
    ASSUME NEW history, WellFormed(history), NEW order, Arranged(history, order),
           NEW i \in Committed(history) \ Placed(order)
    PROVE  /\ Arranged(history, Append(order, i))
           /\ Len(Append(order, i)) = Len(order) + 1
           /\ Append(order, i)[Len(order) + 1] = i
           /\ \A k \in 1 .. Len(order) : Append(order, i)[k] = order[k]
           /\ Placed(Append(order, i)) = Placed(order) \cup {i}
<1>1. PICK n : n = Len(order)
  OBVIOUS
<1>2. PICK longer : longer = Append(order, i)
  OBVIOUS
<1>3. n \in Nat /\ order \in Seq(Committed(history)) /\ Placed(order) = {order[k] : k \in 1 .. n}
  BY <1>1, ArrangedFacts DEF Arranged
<1>4. /\ longer \in Seq(Committed(history)) /\ Len(longer) = n + 1 /\ longer[n + 1] = i
      /\ \A k \in 1 .. n : longer[k] = order[k]
      /\ DOMAIN longer = 1 .. (n + 1)
  BY <1>1, <1>2, <1>3
<1>5. ASSUME NEW k \in 1 .. (n + 1), NEW l \in 1 .. (n + 1), k # l PROVE longer[k] # longer[l]
  <2>1. CASE k \in 1 .. n /\ l \in 1 .. n
    BY <1>1, <1>4, <1>5, <2>1 DEF Arranged
  <2>2. CASE k = n + 1
    <3>1. l \in 1 .. n
      BY <1>3, <1>5, <2>2
    <3>2. longer[l] \in Placed(order)
      BY <1>3, <1>4, <3>1
    <3>3. QED
      BY <1>4, <2>2, <3>2
  <2>3. CASE l = n + 1
    <3>1. k \in 1 .. n
      BY <1>3, <1>5, <2>3
    <3>2. longer[k] \in Placed(order)
      BY <1>3, <1>4, <3>1
    <3>3. QED
      BY <1>4, <2>3, <3>2
  <2>4. QED
    BY <1>3, <2>1, <2>2, <2>3
<1>6. Placed(longer) = Placed(order) \cup {i}
  <2>1. Placed(longer) = {longer[k] : k \in 1 .. (n + 1)}
    BY <1>4 DEF Placed
  <2>2. ASSUME NEW y \in Placed(order) PROVE y \in Placed(longer)
    <3>1. PICK k \in 1 .. n : y = order[k]
      BY <1>3
    <3>2. k \in 1 .. (n + 1) /\ longer[k] = y
      BY <1>3, <1>4, <3>1
    <3>3. QED
      BY <2>1, <3>2
  <2>3. i \in Placed(longer)
    <3>1. n + 1 \in 1 .. (n + 1)
      BY <1>3
    <3>2. QED
      BY <1>4, <2>1, <3>1
  <2>4. ASSUME NEW y \in Placed(longer) PROVE y \in Placed(order) \/ y = i
    <3>1. PICK k \in 1 .. (n + 1) : y = longer[k]
      BY <2>1
    <3>2. CASE k = n + 1
      BY <1>4, <3>1, <3>2
    <3>3. CASE k # n + 1
      <4>1. k \in 1 .. n
        BY <1>3, <3>3
      <4>2. QED
        BY <1>3, <1>4, <3>1, <4>1
    <3>4. QED
      BY <3>2, <3>3
  <2>5. QED
    BY <2>2, <2>3, <2>4
<1>7. Arranged(history, longer)
  BY <1>4, <1>5 DEF Arranged
<1>8. QED
  BY <1>1, <1>2, <1>4, <1>6, <1>7

\* One more transaction keeps the order serial exactly if its reads are valid in the state
\* reached and those that precede it in time are placed
FitsNext(history, order, i) ==
    /\ ReadsValid(history.transactions[i], StateOf(history, order))
    /\ \A j \in Committed(history) :
          Precedes(history.transactions[j], history.transactions[i]) => j \in Placed(order)

LEMMA AppendSerial ==
    ASSUME NEW history, WellFormed(history), NEW order, Serial(history, order),
           NEW i \in Committed(history) \ Placed(order), FitsNext(history, order, i)
    PROVE  Serial(history, Append(order, i))
<1>1. Arranged(history, order)
  BY DEF Serial
<1>2. PICK longer : longer = Append(order, i)
  OBVIOUS
<1>3. PICK n : n = Len(order)
  OBVIOUS
<1>4. n \in Nat /\ Placed(order) = {order[k] : k \in 1 .. n}
  BY <1>1, <1>3, ArrangedFacts
<1>5. /\ Arranged(history, longer) /\ Len(longer) = n + 1 /\ longer[n + 1] = i
      /\ \A k \in 1 .. n : longer[k] = order[k]
  BY <1>1, <1>2, <1>3, AppendArranged
<1>6. ASSUME NEW k \in 0 .. n
      PROVE  StatesAfter(history, longer)[k] = StatesAfter(history, order)[k]
  <2>1. /\ k \in Nat /\ k <= Len(longer) /\ k <= Len(order)
        /\ \A l \in 1 .. k : longer[l] = order[l]
    BY <1>3, <1>4, <1>5
  <2>2. QED
    BY <1>1, <1>5, <2>1, StatesAgree
<1>7. ASSUME NEW k \in 1 .. (n + 1) PROVE ReadsAt(history, longer, k) /\ InTime(history, longer, k)
  <2>1. CASE k \in 1 .. n
    <3>1. ReadsAt(history, order, k) /\ InTime(history, order, k)
      BY <1>3, <2>1 DEF Serial
    <3>2. longer[k] = order[k] /\ k - 1 \in 0 .. n /\ \A l \in 1 .. (k - 1) : longer[l] = order[l]
      BY <1>4, <1>5, <2>1
    <3>3. StatesAfter(history, longer)[k - 1] = StatesAfter(history, order)[k - 1]
      BY <1>6, <3>2
    <3>4. ReadsAt(history, longer, k)
      BY <3>1, <3>2, <3>3 DEF ReadsAt
    <3>5. InTime(history, longer, k)
      BY <3>1, <3>2 DEF InTime
    <3>6. QED
      BY <3>4, <3>5
  <2>2. CASE k = n + 1
    <3>1. k - 1 = n /\ n \in 0 .. n /\ longer[k] = i
      BY <1>4, <1>5, <2>2
    <3>2. StatesAfter(history, longer)[k - 1] = StateOf(history, order)
      BY <1>3, <1>6, <3>1 DEF StateOf
    <3>3. ReadsAt(history, longer, k)
      BY <3>1, <3>2 DEF ReadsAt, FitsNext
    <3>4. ASSUME NEW j \in Committed(history),
                 Precedes(history.transactions[j], history.transactions[longer[k]])
          PROVE  \E l \in 1 .. (k - 1) : longer[l] = j
      <4>1. j \in Placed(order)
        BY <3>1, <3>4 DEF FitsNext
      <4>2. PICK l \in 1 .. n : order[l] = j
        BY <1>4, <4>1
      <4>3. QED
        BY <1>5, <3>1, <4>2
    <3>5. QED
      BY <3>3, <3>4 DEF InTime
  <2>3. QED
    BY <1>4, <2>1, <2>2
<1>8. QED
  BY <1>2, <1>5, <1>7 DEF Serial

\* What comes next in an order fits
LEMMA NextFits ==
    ASSUME NEW history, WellFormed(history), NEW order, Arranged(history, order),
           NEW whole, Serial(history, whole), Extends(whole, order), Len(order) < Len(whole),
           NEW i, i = whole[Len(order) + 1]
    PROVE  i \in Committed(history) \ Placed(order) /\ FitsNext(history, order, i)
           /\ Extends(whole, Append(order, i))
<1>1. Arranged(history, whole)
  BY DEF Serial
<1>2. PICK n : n = Len(order)
  OBVIOUS
<1>3. /\ n \in Nat /\ Len(whole) \in Nat /\ n + 1 \in 1 .. Len(whole)
      /\ Placed(order) = {order[k] : k \in 1 .. n}
      /\ \A k \in 1 .. n : order[k] = whole[k] /\ k \in 1 .. Len(whole)
      /\ \A k \in 1 .. Len(whole) : whole[k] \in Committed(history)
  BY <1>1, <1>2, ArrangedFacts DEF Extends
<1>4. i \in Committed(history)
  BY <1>2, <1>3
<1>5. i \notin Placed(order)
  <2>1. \A k \in 1 .. n : whole[k] # whole[n + 1]
    BY <1>1, <1>3 DEF Arranged
  <2>2. QED
    BY <1>2, <1>3, <2>1
<1>6. FitsNext(history, order, i)
  <2>1. ReadsAt(history, whole, n + 1) /\ InTime(history, whole, n + 1)
    BY <1>3 DEF Serial
  <2>2. (n + 1) - 1 = n /\ whole[n + 1] = i /\ n <= Len(whole) /\ n <= Len(order)
    BY <1>2, <1>3
  <2>3. StatesAfter(history, whole)[n] = StatesAfter(history, order)[n]
    BY <1>1, <1>3, <2>2, StatesAgree
  <2>4. ReadsValid(history.transactions[i], StateOf(history, order))
    BY <1>2, <2>1, <2>2, <2>3 DEF ReadsAt, StateOf
  <2>5. ASSUME NEW j \in Committed(history),
               Precedes(history.transactions[j], history.transactions[i])
        PROVE  j \in Placed(order)
    <3>1. PICK l \in 1 .. n : whole[l] = j
      BY <2>1, <2>2, <2>5 DEF InTime
    <3>2. QED
      BY <1>3, <3>1
  <2>6. QED
    BY <2>4, <2>5 DEF FitsNext
<1>7. Extends(whole, Append(order, i))
  <2>1. PICK longer : longer = Append(order, i)
    OBVIOUS
  <2>2. Len(longer) = n + 1 /\ longer[n + 1] = i /\ \A k \in 1 .. n : longer[k] = order[k]
    BY <1>2, <1>4, <1>5, <2>1, AppendArranged
  <2>3. ASSUME NEW k \in 1 .. (n + 1) PROVE whole[k] = longer[k]
    <3>1. k \in 1 .. n \/ k = n + 1
      BY <1>3
    <3>2. QED
      BY <1>2, <1>3, <2>2, <3>1
  <2>4. n + 1 <= Len(whole)
    BY <1>3
  <2>5. QED
    BY <2>1, <2>2, <2>3, <2>4 DEF Extends
<1>8. QED
  BY <1>4, <1>5, <1>6, <1>7

Completable(history, order) == \E whole : Full(history, whole) /\ Extends(whole, order)

\* The end of a full order, from here on
Spliced(order, whole, m, n) == [k \in 1 .. n |-> IF k <= m THEN order[k] ELSE whole[k]]

LEMMA SplicedArranged ==
    ASSUME NEW history, WellFormed(history), NEW order, Arranged(history, order),
           NEW other, Arranged(history, other), Placed(other) = Placed(order),
           NEW whole, Arranged(history, whole), Placed(whole) = Committed(history),
           Extends(whole, order), NEW spliced, spliced = Spliced(other, whole, Len(other), Len(whole))
    PROVE  /\ Arranged(history, spliced) /\ Len(spliced) = Len(whole)
           /\ Len(other) = Len(order) /\ Len(other) <= Len(whole)
           /\ Placed(spliced) = Committed(history)
           /\ \A k \in 1 .. Len(other) : spliced[k] = other[k]
           /\ \A k \in (Len(other) + 1) .. Len(whole) : spliced[k] = whole[k]
           /\ \A k \in 1 .. Len(other) : order[k] = whole[k]
<1>1. PICK m : m = Len(other)
  OBVIOUS
<1>2. PICK n : n = Len(whole)
  OBVIOUS
<1>3. PICK C : C = Committed(history)
  OBVIOUS
<1>4. /\ m \in Nat /\ n \in Nat /\ Len(order) = m
      /\ Placed(other) = {other[k] : k \in 1 .. m} /\ Placed(order) = {order[k] : k \in 1 .. m}
      /\ \A k \in 1 .. m : other[k] \in C
      /\ \A k \in 1 .. n : whole[k] \in C
      /\ Cardinality(C) = n
  BY <1>1, <1>2, <1>3, ArrangedFacts
<1>5. m <= n /\ \A k \in 1 .. m : order[k] = whole[k]
  BY <1>1, <1>2, <1>4 DEF Extends
<1>6. /\ spliced \in Seq(C) /\ Len(spliced) = n
      /\ \A k \in 1 .. m : spliced[k] = other[k]
      /\ \A k \in (m + 1) .. n : spliced[k] = whole[k]
  <2>1. spliced = [k \in 1 .. n |-> IF k <= m THEN other[k] ELSE whole[k]]
    BY <1>1, <1>2 DEF Spliced
  <2>2. \A k \in 1 .. n : (IF k <= m THEN other[k] ELSE whole[k]) \in C
    BY <1>4
  <2>3. spliced \in [1 .. n -> C]
    BY <2>1, <2>2
  <2>4. spliced \in Seq(C) /\ Len(spliced) = n
    BY <1>4, <2>3
  <2>5. QED
    BY <1>4, <1>5, <2>1, <2>4
<1>7. ASSUME NEW k \in 1 .. m, NEW l \in (m + 1) .. n PROVE other[k] # whole[l]
  <2>1. PICK j \in 1 .. m : order[j] = other[k]
    BY <1>4
  <2>2. j \in 1 .. n /\ l \in 1 .. n /\ j # l /\ whole[j] = other[k]
    BY <1>4, <1>5, <2>1
  <2>3. QED
    BY <1>2, <2>2 DEF Arranged
<1>8. ASSUME NEW k \in 1 .. n, NEW l \in 1 .. n, k # l PROVE spliced[k] # spliced[l]
  <2>1. CASE k \in 1 .. m /\ l \in 1 .. m
    BY <1>1, <1>6, <1>8, <2>1 DEF Arranged
  <2>2. CASE k \in (m + 1) .. n /\ l \in (m + 1) .. n
    BY <1>2, <1>6, <1>8, <2>2 DEF Arranged
  <2>3. CASE k \in 1 .. m /\ l \in (m + 1) .. n
    BY <1>6, <1>7, <2>3
  <2>4. CASE l \in 1 .. m /\ k \in (m + 1) .. n
    BY <1>6, <1>7, <2>4
  <2>5. QED
    BY <1>4, <2>1, <2>2, <2>3, <2>4
<1>9. Arranged(history, spliced)
  BY <1>3, <1>6, <1>8 DEF Arranged
<1>10. Placed(spliced) = C
  BY <1>3, <1>4, <1>6, <1>9, ArrangedFacts
<1>11. QED
  BY <1>1, <1>2, <1>3, <1>4, <1>5, <1>6, <1>9, <1>10

\* The search may go on from an order as from another that has placed the same transactions
\* and leads to the same state
LEMMA Transfer ==
    ASSUME NEW history, WellFormed(history), NEW order, Serial(history, order),
           NEW other, Serial(history, other), SearchKey(history, other) = SearchKey(history, order),
           Completable(history, order)
    PROVE  Completable(history, other)
<1>1. PICK whole : Full(history, whole) /\ Extends(whole, order)
  BY DEF Completable
<1>2. Placed(other) = Placed(order) /\ StateOf(history, other) = StateOf(history, order)
  BY DEF SearchKey
<1>3. /\ Arranged(history, order) /\ Arranged(history, other) /\ Arranged(history, whole)
      /\ Serial(history, whole) /\ Placed(whole) = Committed(history)
  BY <1>1 DEF Full, Serial
<1>4. PICK m : m = Len(other)
  OBVIOUS
<1>5. PICK n : n = Len(whole)
  OBVIOUS
<1>6. PICK spliced : spliced = Spliced(other, whole, m, n)
  OBVIOUS
<1>7. /\ Arranged(history, spliced) /\ Len(spliced) = n /\ Len(order) = m /\ m <= n
      /\ Placed(spliced) = Committed(history)
      /\ \A k \in 1 .. m : spliced[k] = other[k]
      /\ \A k \in (m + 1) .. n : spliced[k] = whole[k]
      /\ \A k \in 1 .. m : order[k] = whole[k]
  BY <1>1, <1>2, <1>3, <1>4, <1>5, <1>6, SplicedArranged
<1>8. /\ m \in Nat /\ n \in Nat
      /\ Placed(other) = {other[k] : k \in 1 .. m} /\ Placed(order) = {order[k] : k \in 1 .. m}
  BY <1>3, <1>4, <1>5, <1>7, ArrangedFacts
<1>9. ASSUME NEW k \in 0 .. m
      PROVE  StatesAfter(history, spliced)[k] = StatesAfter(history, other)[k]
  <2>1. k \in Nat /\ k <= Len(spliced) /\ k <= Len(other) /\ \A l \in 1 .. k : spliced[l] = other[l]
    BY <1>4, <1>7, <1>8
  <2>2. QED
    BY <1>3, <1>7, <2>1, StatesAgree
<1>10. ASSUME NEW k \in m .. n
       PROVE  StatesAfter(history, spliced)[k] = StatesAfter(history, whole)[k]
  <2> DEFINE T == {j \in 0 .. (n - m) :
                     StatesAfter(history, spliced)[m + j] = StatesAfter(history, whole)[m + j]}
  <2>1. 0 \in T
    <3>1. m + 0 = m /\ m \in 0 .. m /\ m <= Len(whole) /\ m <= Len(order) /\ m \in Nat
      BY <1>5, <1>7, <1>8
    <3>2. StatesAfter(history, spliced)[m] = StateOf(history, other)
      BY <1>4, <1>9, <3>1 DEF StateOf
    <3>3. StatesAfter(history, whole)[m] = StatesAfter(history, order)[m]
      BY <1>3, <1>7, <3>1, StatesAgree
    <3>4. StatesAfter(history, whole)[m] = StateOf(history, order)
      BY <1>7, <3>3 DEF StateOf
    <3>5. 0 \in 0 .. (n - m)
      BY <1>7, <1>8
    <3>6. QED
      BY <1>2, <3>1, <3>2, <3>4, <3>5
  <2>2. ASSUME NEW j \in 1 .. (n - m), j - 1 \in T PROVE j \in T
    <3>1. PICK k1 : k1 = m + j
      OBVIOUS
    <3>2. k1 \in 1 .. n /\ k1 \in (m + 1) .. n /\ k1 - 1 = m + (j - 1) /\ j \in 0 .. (n - m)
      BY <1>7, <1>8, <3>1
    <3>3. StatesAfter(history, spliced)[k1 - 1] = StatesAfter(history, whole)[k1 - 1]
      BY <2>2, <3>2
    <3>4. spliced[k1] = whole[k1]
      BY <1>7, <3>2
    <3>5. /\ StatesAfter(history, spliced)[k1]
                = After(history.transactions[spliced[k1]], StatesAfter(history, spliced)[k1 - 1])
          /\ StatesAfter(history, whole)[k1]
                = After(history.transactions[whole[k1]], StatesAfter(history, whole)[k1 - 1])
      BY <1>3, <1>5, <1>7, <3>2, StatesEquation
    <3>6. StatesAfter(history, spliced)[k1] = StatesAfter(history, whole)[k1]
      BY <3>3, <3>4, <3>5
    <3>7. QED
      BY <3>1, <3>2, <3>6
  <2>3. k - m \in T
    <3> HIDE DEF T
    <3>1. n - m \in Nat /\ k - m \in 0 .. (n - m)
      BY <1>7, <1>8
    <3>2. 0 .. (n - m) \subseteq T
      BY <2>1, <2>2, <3>1, Climb
    <3>3. QED
      BY <3>1, <3>2
  <2>4. m + (k - m) = k
    BY <1>7, <1>8
  <2>5. QED
    BY <2>3, <2>4
<1>11. ASSUME NEW k \in 1 .. n PROVE ReadsAt(history, spliced, k) /\ InTime(history, spliced, k)
  <2>1. CASE k \in 1 .. m
    <3>1. ReadsAt(history, other, k) /\ InTime(history, other, k)
      BY <1>4, <2>1 DEF Serial
    <3>2. spliced[k] = other[k] /\ k - 1 \in 0 .. m /\ \A l \in 1 .. (k - 1) : spliced[l] = other[l]
      BY <1>7, <1>8, <2>1
    <3>3. StatesAfter(history, spliced)[k - 1] = StatesAfter(history, other)[k - 1]
      BY <1>9, <3>2
    <3>4. ReadsAt(history, spliced, k)
      BY <3>1, <3>2, <3>3 DEF ReadsAt
    <3>5. InTime(history, spliced, k)
      BY <3>1, <3>2 DEF InTime
    <3>6. QED
      BY <3>4, <3>5
  <2>2. CASE k \in (m + 1) .. n
    <3>1. ReadsAt(history, whole, k) /\ InTime(history, whole, k)
      BY <1>3, <1>5 DEF Serial
    <3>2. spliced[k] = whole[k] /\ k - 1 \in m .. n
      BY <1>7, <1>8, <2>2
    <3>3. StatesAfter(history, spliced)[k - 1] = StatesAfter(history, whole)[k - 1]
      BY <1>10, <3>2
    <3>4. ReadsAt(history, spliced, k)
      BY <3>1, <3>2, <3>3 DEF ReadsAt
    <3>5. ASSUME NEW i \in Committed(history),
                 Precedes(history.transactions[i], history.transactions[spliced[k]])
          PROVE  \E l \in 1 .. (k - 1) : spliced[l] = i
      <4>1. PICK j \in 1 .. (k - 1) : whole[j] = i
        BY <3>1, <3>2, <3>5 DEF InTime
      <4>2. CASE j \in 1 .. m
        <5>1. order[j] = i
          BY <1>7, <4>1, <4>2
        <5>2. i \in Placed(other)
          BY <1>2, <1>8, <4>2, <5>1
        <5>3. PICK l \in 1 .. m : other[l] = i
          BY <1>8, <5>2
        <5>4. l \in 1 .. (k - 1) /\ spliced[l] = i
          BY <1>7, <1>8, <2>2, <5>3
        <5>5. QED
          BY <5>4
      <4>3. CASE j \in (m + 1) .. n
        BY <1>7, <4>1, <4>3
      <4>4. QED
        BY <1>8, <4>1, <4>2, <4>3
    <3>6. QED
      BY <3>4, <3>5 DEF InTime
  <2>3. QED
    BY <1>8, <2>1, <2>2
<1>12. Full(history, spliced)
  BY <1>7, <1>11 DEF Full, Serial
<1>13. Extends(spliced, other)
  BY <1>4, <1>7 DEF Extends
<1>14. QED
  BY <1>12, <1>13 DEF Completable

LEMMA ExtendsWhole ==
    ASSUME NEW history, WellFormed(history), NEW order, Arranged(history, order),
           NEW whole, Full(history, whole), Extends(whole, order)
    PROVE  /\ Len(whole) = Cardinality(Committed(history))
           /\ Len(order) = Cardinality(Committed(history)) => whole = order
<1>1. Arranged(history, whole) /\ Placed(whole) = Committed(history)
  BY DEF Full, Serial
<1>2. Len(whole) = Cardinality(Committed(history)) /\ Len(whole) \in Nat
  BY <1>1, ArrangedFacts
<1>3. ASSUME Len(order) = Cardinality(Committed(history)) PROVE whole = order
  <2>1. whole \in Seq(Committed(history)) /\ order \in Seq(Committed(history))
    BY <1>1 DEF Arranged
  <2>2. Len(whole) = Len(order) /\ \A k \in 1 .. Len(whole) : whole[k] = order[k]
    BY <1>2, <1>3 DEF Extends
  <2>3. QED
    BY <2>1, <2>2
<1>4. QED
  BY <1>2, <1>3

-----------------------------------------------------------------------------
(* The ordering graph: it has the order in time, and all that it says is   *)
(* true of every full serial order.                                        *)

BeforeIn(order, a, b) ==
    \E k, l \in 1 .. Len(order) : k < l /\ order[k] = a /\ order[l] = b

Respects(order, edges) == \A e \in edges : BeforeIn(order, e[1], e[2])

\* The last of its writers that the order has before the reader is one that it may have read from
SourcedAt(order, choice, k) ==
    \/ choice.initial /\ \A l \in 1 .. (k - 1) : order[l] \notin choice.alternatives \cup choice.conflicting
    \/ \E l \in 1 .. (k - 1) :
          /\ order[l] \in choice.alternatives
          /\ \A j \in (l + 1) .. (k - 1) : order[j] \notin choice.alternatives \cup choice.conflicting

Sourced(order, choice) ==
    \E k \in 1 .. Len(order) : order[k] = choice.reader /\ SourcedAt(order, choice, k)

TrueOf(order, graph) ==
    /\ Respects(order, graph.edges)
    /\ \A choice \in graph.choices : Sourced(order, choice)
    /\ ~ graph.inconsistent

Edges(history) == SUBSET (Committed(history) \X Committed(history))

Choices(history) ==
    [reader : Committed(history), alternatives : SUBSET Committed(history),
     conflicting : SUBSET Committed(history), initial : BOOLEAN]

OrderingGraphs(history) ==
    [edges : Edges(history), choices : SUBSET Choices(history), inconsistent : BOOLEAN,
     settled : BOOLEAN]

LEMMA BeforeOnce ==
    ASSUME NEW history, WellFormed(history), NEW order, Arranged(history, order),
           NEW a, NEW b, BeforeIn(order, a, b), NEW k \in 1 .. Len(order)
    PROVE  /\ order[k] = b => \E l \in 1 .. (k - 1) : order[l] = a
           /\ order[k] = a => \E l \in (k + 1) .. Len(order) : order[l] = b
<1>1. PICK n : n = Len(order)
  OBVIOUS
<1>2. n \in Nat /\ \A i, j \in 1 .. n : order[i] = order[j] => i = j
  BY <1>1, ArrangedFacts DEF Arranged
<1>3. PICK i \in 1 .. n, j \in 1 .. n : i < j /\ order[i] = a /\ order[j] = b
  BY <1>1 DEF BeforeIn
<1>4. ASSUME order[k] = b PROVE \E l \in 1 .. (k - 1) : order[l] = a
  <2>1. k = j
    BY <1>1, <1>2, <1>3, <1>4
  <2>2. QED
    BY <1>2, <1>3, <2>1
<1>5. ASSUME order[k] = a PROVE \E l \in (k + 1) .. Len(order) : order[l] = b
  <2>1. k = i
    BY <1>1, <1>2, <1>3, <1>5
  <2>2. QED
    BY <1>1, <1>2, <1>3, <2>1
<1>6. QED
  BY <1>4, <1>5

LEMMA BeforeChain ==
    ASSUME NEW history, WellFormed(history), NEW order, Arranged(history, order), NEW a, NEW b, NEW c
    PROVE  /\ BeforeIn(order, a, b) /\ BeforeIn(order, b, c) => BeforeIn(order, a, c)
           /\ ~ BeforeIn(order, a, a)
<1>1. PICK n : n = Len(order)
  OBVIOUS
<1>2. n \in Nat /\ \A i, j \in 1 .. n : order[i] = order[j] => i = j
  BY <1>1, ArrangedFacts DEF Arranged
<1>3. ASSUME BeforeIn(order, a, b), BeforeIn(order, b, c) PROVE BeforeIn(order, a, c)
  <2>1. PICK i \in 1 .. n, j \in 1 .. n : i < j /\ order[i] = a /\ order[j] = b
    BY <1>1, <1>3 DEF BeforeIn
  <2>2. PICK k \in 1 .. n, l \in 1 .. n : k < l /\ order[k] = b /\ order[l] = c
    BY <1>1, <1>3 DEF BeforeIn
  <2>3. j = k
    BY <1>2, <2>1, <2>2
  <2>4. i < l
    BY <1>2, <2>1, <2>2, <2>3
  <2>5. QED
    BY <1>1, <2>1, <2>2, <2>4 DEF BeforeIn
<1>4. ASSUME BeforeIn(order, a, a) PROVE FALSE
  <2>1. PICK i \in 1 .. n, j \in 1 .. n : i < j /\ order[i] = a /\ order[j] = a
    BY <1>1, <1>4 DEF BeforeIn
  <2>2. QED
    BY <1>2, <2>1
<1>5. QED
  BY <1>3, <1>4

LEMMA ThroughFacts ==
    ASSUME NEW history, WellFormed(history), NEW edges \in Edges(history), NEW pivot
    PROVE  /\ Through(edges, Committed(history), pivot) \in Edges(history)
           /\ edges \subseteq Through(edges, Committed(history), pivot)
           /\ \A order : Arranged(history, order) /\ Respects(order, edges)
                            => Respects(order, Through(edges, Committed(history), pivot))
<1>1. PICK C : C = Committed(history)
  OBVIOUS
<1>2. PICK more : more = Through(edges, C, pivot)
  OBVIOUS
<1>3. /\ edges \subseteq C \X C /\ more \subseteq C \X C /\ edges \subseteq more
      /\ \A e \in more : e \in edges \/ (<<e[1], pivot>> \in edges /\ <<pivot, e[2]>> \in edges)
  BY <1>1, <1>2 DEF Through, Edges
<1>4. ASSUME NEW order, Arranged(history, order), Respects(order, edges), NEW e \in more
      PROVE  BeforeIn(order, e[1], e[2])
  <2>1. CASE e \in edges
    BY <1>4, <2>1 DEF Respects
  <2>2. CASE <<e[1], pivot>> \in edges /\ <<pivot, e[2]>> \in edges
    <3>1. PICK l : l = <<e[1], pivot>>
      OBVIOUS
    <3>2. PICK r : r = <<pivot, e[2]>>
      OBVIOUS
    <3>3. l[1] = e[1] /\ l[2] = pivot /\ r[1] = pivot /\ r[2] = e[2] /\ l \in edges /\ r \in edges
      BY <2>2, <3>1, <3>2
    <3>4. BeforeIn(order, e[1], pivot) /\ BeforeIn(order, pivot, e[2])
      BY <1>4, <3>3 DEF Respects
    <3>5. QED
      BY <1>4, <3>4, BeforeChain
  <2>3. QED
    BY <1>3, <2>1, <2>2
<1>5. \A order : Arranged(history, order) /\ Respects(order, edges) => Respects(order, more)
  BY <1>4 DEF Respects
<1>6. more \in Edges(history)
  BY <1>1, <1>3 DEF Edges
<1>7. QED
  BY <1>1, <1>2, <1>3, <1>5, <1>6

LEMMA ClosedFacts ==
    ASSUME NEW history, WellFormed(history), NEW edges \in Edges(history)
    PROVE  /\ CloseGraph(history, edges) \in Edges(history)
           /\ edges \subseteq CloseGraph(history, edges)
           /\ \A order : Arranged(history, order) /\ Respects(order, edges)
                            => Respects(order, CloseGraph(history, edges))
<1>1. PICK C : C = Committed(history)
  OBVIOUS
<1>2. PICK n : n = Len(history.transactions)
  OBVIOUS
<1>3. n \in Nat
  BY <1>2, WellFormedFacts
<1>4. PICK S : S = Edges(history)
  OBVIOUS
<1> DEFINE body(f) == [pivot \in 0 .. n |-> IF pivot = 0 THEN edges ELSE Through(f[pivot - 1], C, pivot)]
           step == [p \in 1 .. n |-> [s \in S |-> Through(s, C, p)]]
<1>5. PICK f : Follows(f, n, S, edges, step)
  <2>1. \A s \in S, p \in 1 .. n : Through(s, C, p) \in S
    BY <1>1, <1>4, ThroughFacts
  <2>2. step \in Rounds(n, S)
    BY <2>1 DEF Rounds
  <2> HIDE DEF step
  <2>3. QED
    BY <1>3, <1>4, <2>2, Iterate
<1>6. f \in [0 .. n -> S] /\ f[0] = edges /\ \A p \in 1 .. n : f[p] = Through(f[p - 1], C, p)
  <2>1. f \in [0 .. n -> S] /\ f[0] = edges
    BY <1>5 DEF Follows
  <2>2. ASSUME NEW p \in 1 .. n PROVE f[p] = Through(f[p - 1], C, p)
    <3>1. f[p] = step[p][f[p - 1]]
      <4> HIDE DEF step
      <4>1. QED
        BY <1>5 DEF Follows
    <3>2. p - 1 \in 0 .. n
      BY <1>3
    <3>3. f[p - 1] \in S
      BY <2>1, <3>2
    <3>4. QED
      BY <3>1, <3>3
  <2>3. QED
    BY <2>1, <2>2
<1>7. f = body(f)
  <2>1. ASSUME NEW p \in 0 .. n PROVE f[p] = IF p = 0 THEN edges ELSE Through(f[p - 1], C, p)
    <3>1. p = 0 \/ p \in 1 .. n
      BY <1>3
    <3>2. QED
      BY <1>6, <3>1
  <2>2. f = [p \in 0 .. n |-> f[p]]
    BY <1>6
  <2>3. QED
    BY <2>1, <2>2
<1>8. PICK closed : closed = CHOOSE g : g = body(g)
  OBVIOUS
<1>9. CloseGraph(history, edges) = closed[n]
  BY <1>1, <1>2, <1>8 DEF CloseGraph
<1>10. closed = body(closed)
  <2> HIDE DEF body
  <2>1. QED
    BY <1>7, <1>8
<1>11. closed[0] = edges /\ \A p \in 1 .. n : closed[p] = Through(closed[p - 1], C, p)
  <2>1. \A p \in 0 .. n : closed[p] = IF p = 0 THEN edges ELSE Through(closed[p - 1], C, p)
    BY <1>10
  <2>2. 0 \in 0 .. n /\ \A p \in 1 .. n : p \in 0 .. n /\ p # 0
    BY <1>3
  <2>3. QED
    BY <2>1, <2>2
<1> DEFINE Fine(s) == /\ s \in S /\ edges \subseteq s
                      /\ \A order : Arranged(history, order) /\ Respects(order, edges)
                                       => Respects(order, s)
           T == {p \in 0 .. n : Fine(closed[p])}
<1>12. 0 \in T
  BY <1>3, <1>4, <1>11
<1>13. ASSUME NEW p \in 1 .. n, p - 1 \in T PROVE p \in T
  <2>1. Fine(closed[p - 1])
    BY <1>13
  <2>2. closed[p] = Through(closed[p - 1], C, p)
    BY <1>11
  <2>3. PICK s : s = closed[p - 1]
    OBVIOUS
  <2>4. /\ closed[p] \in S /\ s \subseteq closed[p]
        /\ \A order : Arranged(history, order) /\ Respects(order, s) => Respects(order, closed[p])
    BY <1>1, <1>4, <2>1, <2>2, <2>3, ThroughFacts
  <2>5. Fine(closed[p])
    BY <2>1, <2>3, <2>4
  <2>6. p \in 0 .. n
    BY <1>3
  <2> HIDE DEF Fine
  <2>7. QED
    BY <2>5, <2>6
<1>14. Fine(closed[n])
  <2> HIDE DEF T
  <2>1. 0 .. n \subseteq T
    BY <1>3, <1>12, <1>13, Climb
  <2>2. n \in T
    BY <1>3, <2>1
  <2> USE DEF T
  <2> HIDE DEF Fine
  <2>3. QED
    BY <2>2
<1>15. QED
  BY <1>4, <1>9, <1>14

LEMMA RefineChoiceFacts ==
    ASSUME NEW history, WellFormed(history), NEW edges \in Edges(history),
           NEW choice \in Choices(history)
    PROVE  /\ RefineChoice(edges, choice) \in Choices(history)
           /\ RefineChoice(edges, choice).reader = choice.reader
           /\ \A order : Arranged(history, order) /\ Respects(order, edges) /\ Sourced(order, choice)
                            => Sourced(order, RefineChoice(edges, choice))
<1>1. PICK C : C = Committed(history)
  OBVIOUS
<1>2. PICK new : new = RefineChoice(edges, choice)
  OBVIOUS
<1>3. /\ choice.reader \in C /\ choice.alternatives \subseteq C /\ choice.conflicting \subseteq C
      /\ choice.initial \in BOOLEAN
  BY <1>1 DEF Choices
<1>4. /\ new.reader = choice.reader /\ new.conflicting = choice.conflicting
      /\ new.alternatives = {s \in choice.alternatives : /\ <<choice.reader, s>> \notin edges
                                                         /\ ~ Shadowed(edges, s, choice)}
      /\ new.initial = (choice.initial /\ \A w \in choice.conflicting : <<w, choice.reader>> \notin edges)
  BY <1>2 DEF RefineChoice, Choices
<1>5. new \in Choices(history)
  BY <1>1, <1>2, <1>3 DEF RefineChoice, Choices
<1>6. ASSUME NEW order, Arranged(history, order), Respects(order, edges), Sourced(order, choice)
      PROVE  Sourced(order, new)
  <2>1. PICK k \in 1 .. Len(order) : order[k] = choice.reader /\ SourcedAt(order, choice, k)
    BY <1>6 DEF Sourced
  <2>2. Len(order) \in Nat
    BY <1>6, ArrangedFacts
  <2>3. ASSUME NEW s, <<s, choice.reader>> \in edges PROVE \E l \in 1 .. (k - 1) : order[l] = s
    <3>1. BeforeIn(order, s, choice.reader)
      <4>1. PICK e : e = <<s, choice.reader>>
        OBVIOUS
      <4>2. e \in edges /\ e[1] = s /\ e[2] = choice.reader
        BY <2>3, <4>1
      <4>3. QED
        BY <1>6, <4>2 DEF Respects
    <3>2. QED
      BY <1>6, <2>1, <3>1, BeforeOnce
  <2>4. CASE choice.initial /\ \A l \in 1 .. (k - 1) :
                 order[l] \notin choice.alternatives \cup choice.conflicting
    <3>1. \A w \in choice.conflicting : <<w, choice.reader>> \notin edges
      BY <2>3, <2>4
    <3>2. new.initial /\ \A l \in 1 .. (k - 1) : order[l] \notin new.alternatives \cup new.conflicting
      BY <1>4, <2>4, <3>1
    <3>3. SourcedAt(order, new, k)
      BY <3>2 DEF SourcedAt
    <3>4. QED
      BY <1>4, <2>1, <3>3 DEF Sourced
  <2>5. ASSUME NEW l \in 1 .. (k - 1), order[l] \in choice.alternatives,
               \A j \in (l + 1) .. (k - 1) : order[j] \notin choice.alternatives \cup choice.conflicting
        PROVE  Sourced(order, new)
    <3>1. <<choice.reader, order[l]>> \notin edges
      <4> SUFFICES ASSUME <<choice.reader, order[l]>> \in edges PROVE FALSE
        OBVIOUS
      <4>1. PICK e : e = <<choice.reader, order[l]>>
        OBVIOUS
      <4>2. e \in edges /\ e[1] = order[k] /\ e[2] = order[l]
        BY <2>1, <4>1
      <4>3. BeforeIn(order, order[k], order[l])
        BY <1>6, <4>2 DEF Respects
      <4>4. k \in 1 .. Len(order) /\ l \in 1 .. Len(order) /\ l < k
        BY <2>2
      <4>5. BeforeIn(order, order[l], order[k])
        BY <4>4 DEF BeforeIn
      <4>6. QED
        BY <1>6, <4>3, <4>5, BeforeChain
    <3>2. ~ Shadowed(edges, order[l], choice)
      <4> SUFFICES ASSUME NEW w \in choice.conflicting, <<order[l], w>> \in edges,
                          <<w, choice.reader>> \in edges
                   PROVE  FALSE
        BY DEF Shadowed
      <4>1. PICK j \in 1 .. (k - 1) : order[j] = w
        BY <2>3
      <4>2. PICK e : e = <<order[l], w>>
        OBVIOUS
      <4>3. e \in edges /\ e[1] = order[l] /\ e[2] = order[j]
        BY <4>1, <4>2
      <4>4. BeforeIn(order, order[l], order[j])
        BY <1>6, <4>3 DEF Respects
      <4>5. j \in 1 .. Len(order) /\ l \in 1 .. Len(order)
        BY <2>2
      <4>6. j > l
        <5>1. j # l
          BY <1>6, <4>4, BeforeChain
        <5>2. ~ j < l
          <6> SUFFICES ASSUME j < l PROVE FALSE
            OBVIOUS
          <6>1. BeforeIn(order, order[j], order[l])
            BY <4>5 DEF BeforeIn
          <6>2. QED
            BY <1>6, <4>4, <6>1, BeforeChain
        <5>3. QED
          BY <4>5, <5>1, <5>2
      <4>7. j \in (l + 1) .. (k - 1)
        BY <4>5, <4>6
      <4>8. QED
        BY <2>5, <4>1, <4>7
    <3>3. order[l] \in new.alternatives
      BY <1>4, <2>5, <3>1, <3>2
    <3>4. \A j \in (l + 1) .. (k - 1) : order[j] \notin new.alternatives \cup new.conflicting
      BY <1>4, <2>5
    <3>5. SourcedAt(order, new, k)
      BY <3>3, <3>4 DEF SourcedAt
    <3>6. QED
      BY <1>4, <2>1, <3>5 DEF Sourced
  <2>6. QED
    BY <2>1, <2>4, <2>5 DEF SourcedAt
<1>7. QED
  BY <1>2, <1>4, <1>5, <1>6

\* What a sourced read says when there is only one source, or none
LEMMA SourceForced ==
    ASSUME NEW history, WellFormed(history), NEW order, Arranged(history, order),
           NEW choice \in Choices(history), Sourced(order, choice), ~ choice.initial
    PROVE  /\ choice.alternatives # {}
           /\ Cardinality(choice.alternatives) = 1
                 => \A s \in choice.alternatives : BeforeIn(order, s, choice.reader)
<1>1. PICK k \in 1 .. Len(order) : order[k] = choice.reader /\ SourcedAt(order, choice, k)
  BY DEF Sourced
<1>2. Len(order) \in Nat
  BY ArrangedFacts
<1>3. PICK l \in 1 .. (k - 1) : order[l] \in choice.alternatives
  BY <1>1 DEF SourcedAt
<1>4. ASSUME Cardinality(choice.alternatives) = 1, NEW s \in choice.alternatives
      PROVE  BeforeIn(order, s, choice.reader)
  <2>1. choice.alternatives \subseteq Committed(history)
    BY DEF Choices
  <2>2. IsFiniteSet(choice.alternatives)
    BY <2>1, WellFormedFacts, FS_Subset
  <2>3. \E y : choice.alternatives = {y}
    BY <1>4, <2>2, FS_Singleton
  <2>4. s = order[l]
    BY <1>3, <1>4, <2>3
  <2>5. l \in 1 .. Len(order) /\ l < k
    BY <1>2
  <2>6. QED
    BY <1>1, <2>4, <2>5 DEF BeforeIn
<1>5. QED
  BY <1>3, <1>4

\* A graph that follows from another one, and says no less
FollowsFrom(history, next, graph) ==
    /\ next \in OrderingGraphs(history)
    /\ graph.edges \subseteq next.edges
    /\ \A order : Arranged(history, order) /\ TrueOf(order, graph) => TrueOf(order, next)

LEMMA RefineFacts ==
    ASSUME NEW history, WellFormed(history), NEW graph \in OrderingGraphs(history)
    PROVE  FollowsFrom(history, Refine(graph), graph)
<1>1. PICK C : C = Committed(history)
  OBVIOUS
<1>2. PICK E0 : E0 = graph.edges
  OBVIOUS
<1>3. E0 \in Edges(history) /\ graph.choices \subseteq Choices(history) /\ graph.inconsistent \in BOOLEAN
      /\ graph.settled \in BOOLEAN
  BY <1>2 DEF OrderingGraphs
<1>4. PICK refined : refined = {RefineChoice(E0, c) : c \in graph.choices}
  OBVIOUS
<1>5. PICK resolved : resolved = {c \in refined : ~ c.initial /\ Cardinality(c.alternatives) = 1}
  OBVIOUS
<1>6. PICK more : more = UNION {c.alternatives \X {c.reader} : c \in resolved}
  OBVIOUS
<1>7. PICK next : next = Refine(graph)
  OBVIOUS
<1>8. next = [graph EXCEPT !.choices = refined, !.edges = @ \cup more,
                           !.inconsistent = @ \/ \E c \in refined : ~ c.initial /\ c.alternatives = {}]
  BY <1>2, <1>4, <1>5, <1>6, <1>7 DEF Refine
<1>9. refined \subseteq Choices(history)
  <2>1. \A c \in graph.choices : RefineChoice(E0, c) \in Choices(history)
    BY <1>3, RefineChoiceFacts
  <2>2. QED
    BY <1>4, <2>1
<1>10. more \in Edges(history)
  <2>1. ASSUME NEW e \in more PROVE e \in C \X C
    <3>1. PICK c \in resolved : e \in c.alternatives \X {c.reader}
      BY <1>6
    <3>2. c \in Choices(history)
      BY <1>5, <1>9, <3>1
    <3>3. c.reader \in C /\ c.alternatives \subseteq C
      BY <1>1, <3>2 DEF Choices
    <3>4. QED
      BY <3>1, <3>3
  <2>2. QED
    BY <1>1, <2>1 DEF Edges
<1>11. /\ next.edges = E0 \cup more /\ next.choices = refined /\ next.settled = graph.settled
       /\ next.inconsistent <=> graph.inconsistent \/ \E c \in refined : ~ c.initial /\ c.alternatives = {}
  BY <1>2, <1>3, <1>8 DEF OrderingGraphs
<1>12. next \in OrderingGraphs(history)
  <2>1. (graph.inconsistent \/ \E c \in refined : ~ c.initial /\ c.alternatives = {}) \in BOOLEAN
    OBVIOUS
  <2>2. E0 \cup more \in Edges(history)
    BY <1>3, <1>10 DEF Edges
  <2>3. QED
    BY <1>2, <1>8, <1>9, <2>1, <2>2 DEF OrderingGraphs
<1>13. ASSUME NEW order, Arranged(history, order), TrueOf(order, graph)
       PROVE  TrueOf(order, next)
  <2>1. /\ Respects(order, E0) /\ ~ graph.inconsistent
        /\ \A c \in graph.choices : Sourced(order, c)
    BY <1>2, <1>13 DEF TrueOf
  <2>2. ASSUME NEW c \in refined PROVE Sourced(order, c)
    <3>1. PICK d \in graph.choices : c = RefineChoice(E0, d)
      BY <1>4
    <3>2. d \in Choices(history)
      BY <1>3
    <3>3. QED
      BY <1>3, <1>13, <2>1, <3>1, <3>2, RefineChoiceFacts
  <2>3. ASSUME NEW e \in more PROVE BeforeIn(order, e[1], e[2])
    <3>1. PICK c \in resolved : e \in c.alternatives \X {c.reader}
      BY <1>6
    <3>2. e[1] \in c.alternatives /\ e[2] = c.reader
      BY <3>1
    <3>3. c \in refined /\ ~ c.initial /\ Cardinality(c.alternatives) = 1
      BY <1>5, <3>1
    <3>4. Sourced(order, c) /\ c \in Choices(history)
      BY <1>9, <2>2, <3>3
    <3>5. QED
      BY <1>13, <3>2, <3>3, <3>4, SourceForced
  <2>4. ASSUME NEW c \in refined, ~ c.initial PROVE c.alternatives # {}
    <3>1. Sourced(order, c) /\ c \in Choices(history)
      BY <1>9, <2>2
    <3>2. QED
      BY <1>13, <2>4, <3>1, SourceForced
  <2>5. Respects(order, next.edges)
    BY <1>11, <2>1, <2>3 DEF Respects
  <2>6. ~ next.inconsistent
    BY <1>11, <2>1, <2>4
  <2>7. QED
    BY <1>11, <2>2, <2>5, <2>6 DEF TrueOf
<1>14. QED
  BY <1>2, <1>7, <1>11, <1>12, <1>13 DEF FollowsFrom

LEMMA RefineRoundFacts ==
    ASSUME NEW history, WellFormed(history), NEW graph \in OrderingGraphs(history)
    PROVE  FollowsFrom(history, RefineRound(history, graph), graph)
<1>1. PICK closed : closed = CloseGraph(history, graph.edges)
  OBVIOUS
<1>2. graph.edges \in Edges(history)
  BY DEF OrderingGraphs
<1>3. /\ closed \in Edges(history) /\ graph.edges \subseteq closed
      /\ \A order : Arranged(history, order) /\ Respects(order, graph.edges) => Respects(order, closed)
  BY <1>1, <1>2, ClosedFacts
<1>4. PICK wider : wider = [graph EXCEPT !.edges = closed]
  OBVIOUS
<1>5. /\ wider \in OrderingGraphs(history) /\ wider.edges = closed
      /\ wider.choices = graph.choices /\ wider.inconsistent = graph.inconsistent
  BY <1>3, <1>4 DEF OrderingGraphs
<1>6. PICK next : next = Refine(wider)
  OBVIOUS
<1>7. FollowsFrom(history, next, wider)
  BY <1>5, <1>6, RefineFacts
<1>8. PICK same : same <=> (next.edges = closed)
  OBVIOUS
<1>9. RefineRound(history, graph)
         = IF graph.settled THEN graph
           ELSE IF graph.inconsistent \/ \E i \in Committed(history) : <<i, i>> \in closed
           THEN [graph EXCEPT !.inconsistent = TRUE, !.settled = TRUE]
           ELSE [next EXCEPT !.settled = (next.edges = closed)]
  BY <1>1, <1>4, <1>6 DEF RefineRound
<1>10. CASE graph.settled
  <2>1. RefineRound(history, graph) = graph
    BY <1>9, <1>10
  <2>2. QED
    BY <2>1 DEF FollowsFrom
<1>11. CASE ~ graph.settled /\ (graph.inconsistent \/ \E i \in Committed(history) : <<i, i>> \in closed)
  <2>1. PICK bad : bad = [graph EXCEPT !.inconsistent = TRUE, !.settled = TRUE]
    OBVIOUS
  <2>2. RefineRound(history, graph) = bad
    BY <1>9, <1>11, <2>1
  <2>3. bad \in OrderingGraphs(history) /\ bad.edges = graph.edges
    BY <2>1 DEF OrderingGraphs
  <2>4. ASSUME NEW order, Arranged(history, order), TrueOf(order, graph) PROVE FALSE
    <3>1. ~ graph.inconsistent /\ Respects(order, closed)
      BY <1>3, <2>4 DEF TrueOf
    <3>2. PICK i : <<i, i>> \in closed
      BY <1>11, <3>1
    <3>3. PICK e : e = <<i, i>>
      OBVIOUS
    <3>4. e \in closed /\ e[1] = i /\ e[2] = i
      BY <3>2, <3>3
    <3>5. BeforeIn(order, i, i)
      BY <3>1, <3>4 DEF Respects
    <3>6. QED
      BY <2>4, <3>5, BeforeChain
  <2>5. QED
    BY <2>2, <2>3, <2>4 DEF FollowsFrom
<1>12. CASE ~ graph.settled /\ ~ (graph.inconsistent \/ \E i \in Committed(history) : <<i, i>> \in closed)
  <2>1. PICK after : after = [next EXCEPT !.settled = (next.edges = closed)]
    OBVIOUS
  <2>2. RefineRound(history, graph) = after
    BY <1>9, <1>12, <2>1
  <2>3. next \in OrderingGraphs(history) /\ closed \subseteq next.edges
    BY <1>5, <1>7 DEF FollowsFrom
  <2>4. (next.edges = closed) \in BOOLEAN
    OBVIOUS
  <2>5. /\ after \in OrderingGraphs(history) /\ after.edges = next.edges
        /\ after.choices = next.choices /\ after.inconsistent = next.inconsistent
    BY <2>1, <2>3, <2>4 DEF OrderingGraphs
  <2>6. ASSUME NEW order, Arranged(history, order), TrueOf(order, graph) PROVE TrueOf(order, after)
    <3>1. TrueOf(order, wider)
      BY <1>3, <1>5, <2>6 DEF TrueOf
    <3>2. TrueOf(order, next)
      BY <1>7, <2>6, <3>1 DEF FollowsFrom
    <3>3. QED
      BY <2>5, <3>2 DEF TrueOf
  <2>7. graph.edges \subseteq after.edges
    BY <1>3, <2>3, <2>5
  <2>8. QED
    BY <2>2, <2>5, <2>6, <2>7 DEF FollowsFrom
<1>13. QED
  BY <1>10, <1>11, <1>12

LEMMA RefineAllFacts ==
    ASSUME NEW history, WellFormed(history), NEW graph \in OrderingGraphs(history)
    PROVE  FollowsFrom(history, RefineAll(history, graph), graph)
<1>1. PICK c : c = Cardinality(Committed(history))
  OBVIOUS
<1>2. PICK n : n = c * c + 1
  OBVIOUS
<1>3. n \in Nat
  <2>1. c \in Nat
    BY <1>1, WellFormedFacts
  <2>2. c * c \in Nat
    BY <2>1
  <2>3. QED
    BY <1>2, <2>2
<1>4. PICK S : S = OrderingGraphs(history)
  OBVIOUS
<1> DEFINE body(f) == [k \in 0 .. n |-> IF k = 0 THEN graph ELSE RefineRound(history, f[k - 1])]
           step == [k \in 1 .. n |-> [g \in S |-> RefineRound(history, g)]]
<1>5. PICK f : Follows(f, n, S, graph, step)
  <2>1. \A g \in S : RefineRound(history, g) \in S
    BY <1>4, RefineRoundFacts DEF FollowsFrom
  <2>2. step \in Rounds(n, S)
    BY <2>1 DEF Rounds
  <2> HIDE DEF step
  <2>3. QED
    BY <1>3, <1>4, <2>2, Iterate
<1>6. f \in [0 .. n -> S] /\ f[0] = graph /\ \A p \in 1 .. n : f[p] = RefineRound(history, f[p - 1])
  <2>1. f \in [0 .. n -> S] /\ f[0] = graph
    BY <1>5 DEF Follows
  <2>2. ASSUME NEW p \in 1 .. n PROVE f[p] = RefineRound(history, f[p - 1])
    <3>1. f[p] = step[p][f[p - 1]]
      <4> HIDE DEF step
      <4>1. QED
        BY <1>5 DEF Follows
    <3>2. p - 1 \in 0 .. n
      BY <1>3
    <3>3. f[p - 1] \in S
      BY <2>1, <3>2
    <3>4. QED
      BY <3>1, <3>3
  <2>3. QED
    BY <2>1, <2>2
<1>7. f = body(f)
  <2>1. ASSUME NEW p \in 0 .. n PROVE f[p] = IF p = 0 THEN graph ELSE RefineRound(history, f[p - 1])
    <3>1. p = 0 \/ p \in 1 .. n
      BY <1>3
    <3>2. QED
      BY <1>6, <3>1
  <2>2. f = [p \in 0 .. n |-> f[p]]
    BY <1>6
  <2>3. QED
    BY <2>1, <2>2
<1>8. PICK round : round = CHOOSE g : g = body(g)
  OBVIOUS
<1>9. RefineAll(history, graph) = round[n]
  BY <1>1, <1>2, <1>8 DEF RefineAll
<1>10. round = body(round)
  <2> HIDE DEF body
  <2>1. QED
    BY <1>7, <1>8
<1>11. round[0] = graph /\ \A p \in 1 .. n : round[p] = RefineRound(history, round[p - 1])
  <2>1. \A p \in 0 .. n : round[p] = IF p = 0 THEN graph ELSE RefineRound(history, round[p - 1])
    BY <1>10
  <2>2. 0 \in 0 .. n /\ \A p \in 1 .. n : p \in 0 .. n /\ p # 0
    BY <1>3
  <2>3. QED
    BY <2>1, <2>2
<1> DEFINE T == {p \in 0 .. n : FollowsFrom(history, round[p], graph)}
<1>12. 0 \in T
  <2>1. FollowsFrom(history, graph, graph)
    BY DEF FollowsFrom
  <2>2. QED
    BY <1>3, <1>11, <2>1
<1>13. ASSUME NEW p \in 1 .. n, p - 1 \in T PROVE p \in T
  <2>1. PICK g : g = round[p - 1]
    OBVIOUS
  <2>2. FollowsFrom(history, g, graph) /\ round[p] = RefineRound(history, g)
    BY <1>11, <1>13, <2>1
  <2>3. FollowsFrom(history, round[p], g)
    BY <2>2, RefineRoundFacts DEF FollowsFrom
  <2>4. FollowsFrom(history, round[p], graph)
    BY <2>2, <2>3 DEF FollowsFrom
  <2>5. p \in 0 .. n
    BY <1>3
  <2>6. QED
    BY <2>4, <2>5
<1>14. n \in T
  <2> HIDE DEF T
  <2>1. 0 .. n \subseteq T
    BY <1>3, <1>12, <1>13, Climb
  <2>2. QED
    BY <1>3, <2>1
<1>15. QED
  BY <1>9, <1>14

LEMMA ReadFromType ==
    ASSUME NEW history, WellFormed(history), NEW reader \in Committed(history), NEW access
    PROVE  /\ ReadFrom(history, reader, access) \in Choices(history)
           /\ ReadFrom(history, reader, access).reader = reader
           /\ reader \notin ReadFrom(history, reader, access).conflicting
<1>1. PICK C : C = Committed(history)
  OBVIOUS
<1>2. PICK writers : writers = WritersOf(history, reader, access.loc)
  OBVIOUS
<1>3. writers \subseteq C /\ reader \notin writers
  BY <1>1, <1>2 DEF WritersOf
<1>4. PICK matching : matching = {w \in writers :
                                    FinalWrites(history.transactions[w])[access.loc] = access.value}
  OBVIOUS
<1>5. PICK initial \in BOOLEAN : initial <=> history.initial[access.loc] = access.value
  OBVIOUS
<1>6. ReadFrom(history, reader, access)
         = [reader |-> reader, alternatives |-> matching, conflicting |-> writers \ matching,
            initial |-> history.initial[access.loc] = access.value]
  BY <1>2, <1>4 DEF ReadFrom
<1>7. (history.initial[access.loc] = access.value) \in BOOLEAN
  OBVIOUS
<1>8. matching \subseteq C /\ writers \ matching \subseteq C
  BY <1>3, <1>4
<1>9. QED
  BY <1>1, <1>3, <1>6, <1>7, <1>8 DEF Choices

LEMMA ReadFromSourced ==
    ASSUME NEW history, WellFormed(history), NEW order, Full(history, order),
           NEW reader \in Committed(history),
           NEW i \in ExternalReads(history.transactions[reader])
    PROVE  Sourced(order, ReadFrom(history, reader, history.transactions[reader].accesses[i]))
<1>1. PICK tx : tx = history.transactions[reader]
  OBVIOUS
<1>2. PICK access : access = tx.accesses[i]
  OBVIOUS
<1>3. PICK x : x = access.loc
  OBVIOUS
<1>4. i \in DOMAIN tx.accesses /\ ~ access.write /\ LastWrite(tx, x, i) = 0
  BY <1>1, <1>2, <1>3 DEF ExternalReads
<1>5. reader \in DOMAIN history.transactions
  BY DEF Committed
<1>6. x \in DOMAIN history.initial
  BY <1>1, <1>2, <1>3, <1>4, <1>5 DEF WellFormed
<1>7. Arranged(history, order) /\ Placed(order) = Committed(history)
  BY DEF Full, Serial
<1>8. /\ Len(order) \in Nat /\ Placed(order) = {order[l] : l \in 1 .. Len(order)}
      /\ \A l \in 1 .. Len(order) : order[l] \in Committed(history)
  BY <1>7, ArrangedFacts
<1>9. PICK k \in 1 .. Len(order) : order[k] = reader
  BY <1>7, <1>8
<1>10. PICK s : s = StatesAfter(history, order)[k - 1]
  OBVIOUS
<1>11. access.value = s[x]
  <2>1. ReadsValid(tx, s)
    BY <1>1, <1>9, <1>10 DEF Full, Serial, ReadsAt
  <2>2. QED
    BY <1>2, <1>3, <1>4, <2>1 DEF ReadsValid
<1>12. s[x] = Holding(history, order, k - 1, x)
  <2>1. k - 1 \in 0 .. Len(order)
    BY <1>8
  <2>2. s = [y \in DOMAIN history.initial |-> Holding(history, order, k - 1, y)]
    BY <1>7, <1>10, <2>1, StatesHold
  <2>3. QED
    BY <1>6, <2>2
<1>13. PICK W : W = WritesTo(history, order, k - 1, x)
  OBVIOUS
<1>14. W \in SUBSET (1 .. (k - 1)) /\ k - 1 \in Nat
  BY <1>8, <1>13 DEF WritesTo
<1>15. PICK writers : writers = WritersOf(history, reader, x)
  OBVIOUS
<1>16. ASSUME NEW l \in 1 .. (k - 1) PROVE l \in W <=> order[l] \in writers
  <2>1. l \in 1 .. Len(order) /\ l # k
    BY <1>8
  <2>2. order[l] \in Committed(history) /\ order[l] # reader
    BY <1>7, <1>8, <1>9, <2>1 DEF Arranged
  <2>3. QED
    BY <1>13, <1>15, <2>2 DEF WritersOf, WritesTo
<1>17. PICK r : r = ReadFrom(history, reader, access)
  OBVIOUS
<1>18. /\ r.reader = reader
       /\ r.alternatives = {w \in writers : FinalWrites(history.transactions[w])[x] = access.value}
       /\ r.conflicting = writers \ r.alternatives
       /\ r.initial = (history.initial[x] = access.value)
  BY <1>3, <1>15, <1>17 DEF ReadFrom
<1>19. r.alternatives \cup r.conflicting = writers
  BY <1>18
<1>20. PICK l : l = Latest(W)
  OBVIOUS
<1>21. CASE W = {}
  <2>1. l = 0
    BY <1>14, <1>20, <1>21, LatestFacts
  <2>2. access.value = history.initial[x]
    BY <1>11, <1>12, <1>13, <1>20, <2>1 DEF Holding
  <2>3. r.initial
    BY <1>18, <2>2
  <2>4. \A j \in 1 .. (k - 1) : order[j] \notin r.alternatives \cup r.conflicting
    BY <1>16, <1>19, <1>21
  <2>5. SourcedAt(order, r, k)
    BY <2>3, <2>4 DEF SourcedAt
  <2>6. QED
    BY <1>1, <1>2, <1>9, <1>17, <1>18, <2>5 DEF Sourced
<1>22. CASE W # {}
  <2>1. l \in W /\ \A j \in W : j <= l
    BY <1>14, <1>20, <1>22, LatestFacts
  <2>2. l \in 1 .. (k - 1) /\ l # 0
    BY <1>14, <2>1
  <2>3. access.value = FinalWrites(history.transactions[order[l]])[x]
    BY <1>11, <1>12, <1>13, <1>20, <2>2 DEF Holding
  <2>4. order[l] \in r.alternatives
    BY <1>16, <1>18, <2>1, <2>2, <2>3
  <2>5. ASSUME NEW j \in (l + 1) .. (k - 1) PROVE order[j] \notin r.alternatives \cup r.conflicting
    <3>1. j \in 1 .. (k - 1) /\ j > l
      BY <1>14, <2>2
    <3>2. j \notin W
      BY <1>14, <2>1, <2>2, <3>1
    <3>3. QED
      BY <1>16, <1>19, <3>1, <3>2
  <2>6. SourcedAt(order, r, k)
    BY <2>2, <2>4, <2>5 DEF SourcedAt
  <2>7. QED
    BY <1>1, <1>2, <1>9, <1>17, <1>18, <2>6 DEF Sourced
<1>23. QED
  BY <1>21, <1>22

LEMMA ReadsFromFacts ==
    ASSUME NEW history, WellFormed(history)
    PROVE  /\ ReadsFrom(history) \subseteq Choices(history)
           /\ \A r \in ReadsFrom(history) : r.reader \notin r.conflicting
           /\ \A order : Full(history, order) => \A r \in ReadsFrom(history) : Sourced(order, r)
<1>1. ASSUME NEW r \in ReadsFrom(history)
      PROVE  /\ r \in Choices(history) /\ r.reader \notin r.conflicting
             /\ \A order : Full(history, order) => Sourced(order, r)
  <2>1. PICK i \in Committed(history) : \E k \in ExternalReads(history.transactions[i]) :
              r = ReadFrom(history, i, history.transactions[i].accesses[k])
    BY DEF ReadsFrom
  <2>2. r \in Choices(history) /\ r.reader \notin r.conflicting
    BY <2>1, ReadFromType
  <2>3. \A order : Full(history, order) => Sourced(order, r)
    BY <2>1, ReadFromSourced
  <2>4. QED
    BY <2>2, <2>3
<1>2. QED
  BY <1>1

LEMMA InTimeBefore ==
    ASSUME NEW history, WellFormed(history), NEW order, Full(history, order),
           NEW i \in Committed(history), NEW j \in Committed(history),
           Precedes(history.transactions[i], history.transactions[j])
    PROVE  BeforeIn(order, i, j)
<1>1. Arranged(history, order) /\ Placed(order) = Committed(history)
  BY DEF Full, Serial
<1>2. Len(order) \in Nat /\ Placed(order) = {order[l] : l \in 1 .. Len(order)}
  BY <1>1, ArrangedFacts
<1>3. PICK k \in 1 .. Len(order) : order[k] = j
  BY <1>1, <1>2
<1>4. InTime(history, order, k)
  BY <1>3 DEF Full, Serial
<1>5. PICK l \in 1 .. (k - 1) : order[l] = i
  BY <1>3, <1>4 DEF InTime
<1>6. l \in 1 .. Len(order) /\ l < k
  BY <1>2
<1>7. QED
  BY <1>3, <1>5, <1>6 DEF BeforeIn

LEMMA ConflictsLater ==
    ASSUME NEW history, WellFormed(history), NEW order, Full(history, order),
           NEW r \in Choices(history), Sourced(order, r), r.alternatives = {},
           r.reader \notin r.conflicting, NEW w \in r.conflicting
    PROVE  BeforeIn(order, r.reader, w)
<1>1. Arranged(history, order) /\ Placed(order) = Committed(history)
  BY DEF Full, Serial
<1>2. Len(order) \in Nat /\ Placed(order) = {order[l] : l \in 1 .. Len(order)}
  BY <1>1, ArrangedFacts
<1>3. PICK k \in 1 .. Len(order) : order[k] = r.reader /\ SourcedAt(order, r, k)
  BY DEF Sourced
<1>4. \A l \in 1 .. (k - 1) : order[l] \notin r.conflicting
  BY <1>3 DEF SourcedAt
<1>5. w \in Committed(history)
  BY DEF Choices
<1>6. PICK l \in 1 .. Len(order) : order[l] = w
  BY <1>1, <1>2, <1>5
<1>7. l # k
  BY <1>3, <1>6
<1>8. l \notin 1 .. (k - 1)
  BY <1>4, <1>6
<1>9. k < l
  BY <1>2, <1>7, <1>8
<1>10. QED
  BY <1>3, <1>6, <1>9 DEF BeforeIn

LEMMA FirstGraphFacts ==
    ASSUME NEW history, WellFormed(history)
    PROVE  /\ FirstGraph(history) \in OrderingGraphs(history)
           /\ \A i, j \in Committed(history) :
                 Precedes(history.transactions[i], history.transactions[j])
                     => <<i, j>> \in FirstGraph(history).edges
           /\ \A order : Full(history, order) => TrueOf(order, FirstGraph(history))
<1>1. PICK C : C = Committed(history)
  OBVIOUS
<1>2. PICK txs : txs = history.transactions
  OBVIOUS
<1>3. PICK reads : reads = ReadsFrom(history)
  OBVIOUS
<1>4. PICK ofInitial : ofInitial = {r \in reads : r.initial /\ r.alternatives = {}}
  OBVIOUS
<1>5. PICK ofOne : ofOne = {r \in reads : ~ r.initial /\ Cardinality(r.alternatives) = 1}
  OBVIOUS
<1>6. PICK inTime : inTime = {e \in C \X C : e[1] # e[2] /\ Precedes(txs[e[1]], txs[e[2]])}
  OBVIOUS
<1>7. PICK later : later = UNION {{r.reader} \X r.conflicting : r \in ofInitial}
  OBVIOUS
<1>8. PICK earlier : earlier = UNION {r.alternatives \X {r.reader} : r \in ofOne}
  OBVIOUS
<1>9. PICK graph : graph = FirstGraph(history)
  OBVIOUS
<1>10. PICK edges : edges = UNION {inTime, later, earlier}
  OBVIOUS
<1>11. graph = [edges |-> edges, choices |-> reads \ (ofInitial \cup ofOne),
                inconsistent |-> (\E r \in reads : ~ r.initial /\ r.alternatives = {}),
                settled |-> FALSE]
  BY <1>1, <1>2, <1>3, <1>4, <1>5, <1>6, <1>7, <1>8, <1>9, <1>10 DEF FirstGraph
<1>12. /\ reads \subseteq Choices(history)
       /\ \A r \in reads : r.reader \notin r.conflicting
       /\ \A order : Full(history, order) => \A r \in reads : Sourced(order, r)
  BY <1>3, ReadsFromFacts
<1>13. ASSUME NEW r \in reads
       PROVE  r.reader \in C /\ r.alternatives \subseteq C /\ r.conflicting \subseteq C
  BY <1>1, <1>12 DEF Choices
<1>14. later \subseteq C \X C
  <2>1. ASSUME NEW e \in later PROVE e \in C \X C
    <3>1. PICK r \in ofInitial : e \in {r.reader} \X r.conflicting
      BY <1>7
    <3>2. r.reader \in C /\ r.conflicting \subseteq C
      BY <1>4, <1>13, <3>1
    <3>3. QED
      BY <3>1, <3>2
  <2>2. QED
    BY <2>1
<1>15. earlier \subseteq C \X C
  <2>1. ASSUME NEW e \in earlier PROVE e \in C \X C
    <3>1. PICK r \in ofOne : e \in r.alternatives \X {r.reader}
      BY <1>8
    <3>2. r.reader \in C /\ r.alternatives \subseteq C
      BY <1>5, <1>13, <3>1
    <3>3. QED
      BY <3>1, <3>2
  <2>2. QED
    BY <2>1
<1>16. inTime \subseteq C \X C
  BY <1>6
<1>17. edges \in Edges(history) /\ \A e : e \in edges <=> e \in inTime \/ e \in later \/ e \in earlier
  BY <1>1, <1>10, <1>14, <1>15, <1>16 DEF Edges
<1>18. graph \in OrderingGraphs(history)
  <2>1. (\E r \in reads : ~ r.initial /\ r.alternatives = {}) \in BOOLEAN
    OBVIOUS
  <2>2. reads \ (ofInitial \cup ofOne) \subseteq Choices(history)
    BY <1>12
  <2>3. QED
    BY <1>11, <1>17, <2>1, <2>2 DEF OrderingGraphs
<1>19. ASSUME NEW i \in C, NEW j \in C, Precedes(txs[i], txs[j])
       PROVE  <<i, j>> \in graph.edges
  <2>1. i \in DOMAIN txs /\ j \in DOMAIN txs
    BY <1>1, <1>2 DEF Committed
  <2>2. i < j /\ i \in Nat /\ j \in Nat
    BY <1>2, <1>19, <2>1, WellFormedFacts
  <2>3. i # j
    BY <2>2
  <2>4. PICK e : e = <<i, j>>
    OBVIOUS
  <2>5. e \in C \X C /\ e[1] = i /\ e[2] = j
    BY <2>4
  <2>6. e \in inTime
    BY <1>6, <1>19, <2>3, <2>5
  <2>7. QED
    BY <1>11, <1>17, <2>4, <2>6
<1>20. ASSUME NEW order, Full(history, order) PROVE TrueOf(order, graph)
  <2>1. Arranged(history, order) /\ \A r \in reads : Sourced(order, r)
    BY <1>12, <1>20 DEF Full, Serial
  <2>2. ASSUME NEW e \in inTime PROVE BeforeIn(order, e[1], e[2])
    <3>1. e[1] \in C /\ e[2] \in C /\ Precedes(txs[e[1]], txs[e[2]])
      BY <1>6
    <3>2. QED
      BY <1>1, <1>2, <1>20, <3>1, InTimeBefore
  <2>3. ASSUME NEW e \in later PROVE BeforeIn(order, e[1], e[2])
    <3>1. PICK r \in ofInitial : e \in {r.reader} \X r.conflicting
      BY <1>7
    <3>2. /\ r \in reads /\ r.alternatives = {} /\ r \in Choices(history)
          /\ e[1] = r.reader /\ e[2] \in r.conflicting
      BY <1>4, <1>12, <3>1
    <3>3. QED
      BY <1>12, <1>20, <2>1, <3>2, ConflictsLater
  <2>4. ASSUME NEW e \in earlier PROVE BeforeIn(order, e[1], e[2])
    <3>1. PICK r \in ofOne : e \in r.alternatives \X {r.reader}
      BY <1>8
    <3>2. /\ r \in reads /\ ~ r.initial /\ Cardinality(r.alternatives) = 1 /\ r \in Choices(history)
          /\ e[1] \in r.alternatives /\ e[2] = r.reader
      BY <1>5, <1>12, <3>1
    <3>3. QED
      BY <2>1, <3>2, SourceForced
  <2>5. \A r \in reads : ~ (~ r.initial /\ r.alternatives = {})
    BY <1>12, <2>1, SourceForced
  <2>6. /\ graph.edges = edges /\ graph.choices \subseteq reads
        /\ graph.inconsistent <=> \E r \in reads : ~ r.initial /\ r.alternatives = {}
    BY <1>11
  <2>7. Respects(order, graph.edges)
    BY <1>17, <2>2, <2>3, <2>4, <2>6 DEF Respects
  <2>8. QED
    BY <2>1, <2>5, <2>6, <2>7 DEF TrueOf
<1>21. QED
  BY <1>1, <1>2, <1>9, <1>18, <1>19, <1>20

\* What the graph that the search works with says
Sound(history, graph) ==
    /\ graph \in OrderingGraphs(history)
    /\ \A i, j \in Committed(history) :
          Precedes(history.transactions[i], history.transactions[j]) => <<i, j>> \in graph.edges
    /\ \A order : Full(history, order) => TrueOf(order, graph)

LEMMA BuiltGraphSound ==
    ASSUME NEW history, WellFormed(history)
    PROVE  Sound(history, BuildOrderingGraph(history))
<1>1. PICK first : first = FirstGraph(history)
  OBVIOUS
<1>2. Sound(history, first)
  BY <1>1, FirstGraphFacts DEF Sound
<1>3. FollowsFrom(history, RefineAll(history, first), first)
  BY <1>2, RefineAllFacts DEF Sound
<1>4. BuildOrderingGraph(history) = RefineAll(history, first)
  BY <1>1 DEF BuildOrderingGraph
<1>5. \A order : Full(history, order) => Arranged(history, order)
  BY DEF Full, Serial
<1>6. QED
  BY <1>2, <1>3, <1>4, <1>5 DEF Sound, FollowsFrom

-----------------------------------------------------------------------------
(* The candidates: the search goes on with a transaction only if the order *)
(* stays serial, and with every one that comes next in a full order.       *)

Posed(problem) ==
    WellFormed(problem.history) /\ Sound(problem.history, problem.graph) /\ problem.limit \in Nat

Admits(problem, order, i) ==
    /\ i \in Committed(problem.history) \ Placed(order)
    /\ PredecessorsPlaced(problem.graph, order, i)
    /\ ReadsValid(problem.history.transactions[i], StateOf(problem.history, order))

LEMMA AdmittedSerial ==
    ASSUME NEW problem, Posed(problem), NEW order, Serial(problem.history, order),
           NEW i, Admits(problem, order, i)
    PROVE  Serial(problem.history, Append(order, i))
<1>1. PICK h : h = problem.history
  OBVIOUS
<1>2. PICK graph : graph = problem.graph
  OBVIOUS
<1>3. WellFormed(h) /\ Sound(h, graph) /\ Serial(h, order)
  BY <1>1, <1>2 DEF Posed
<1>4. /\ i \in Committed(h) \ Placed(order) /\ PredecessorsPlaced(graph, order, i)
      /\ ReadsValid(h.transactions[i], StateOf(h, order))
  BY <1>1, <1>2 DEF Admits
<1>5. ASSUME NEW j \in Committed(h), Precedes(h.transactions[j], h.transactions[i])
      PROVE  j \in Placed(order)
  <2>1. PICK e : e = <<j, i>>
    OBVIOUS
  <2>2. e \in graph.edges /\ e[1] = j /\ e[2] = i
    BY <1>3, <1>4, <1>5, <2>1 DEF Sound
  <2>3. QED
    BY <1>4, <2>2 DEF PredecessorsPlaced
<1>6. FitsNext(h, order, i)
  BY <1>4, <1>5 DEF FitsNext
<1>7. QED
  BY <1>1, <1>3, <1>4, <1>6, AppendSerial

LEMMA NextPredecessorsPlaced ==
    ASSUME NEW problem, Posed(problem), NEW order, Serial(problem.history, order),
           NEW whole, Full(problem.history, whole), Extends(whole, order), Len(order) < Len(whole)
    PROVE  PredecessorsPlaced(problem.graph, order, whole[Len(order) + 1])
<1>1. PICK h : h = problem.history
  OBVIOUS
<1>2. PICK graph : graph = problem.graph
  OBVIOUS
<1>3. PICK n : n = Len(order)
  OBVIOUS
<1>4. PICK i : i = whole[n + 1]
  OBVIOUS
<1>5. /\ WellFormed(h) /\ Arranged(h, order) /\ Arranged(h, whole)
      /\ TrueOf(whole, graph) /\ graph \in OrderingGraphs(h)
  BY <1>1, <1>2 DEF Posed, Full, Serial, Sound
<1>6. /\ n \in Nat /\ Len(whole) \in Nat /\ n + 1 \in 1 .. Len(whole)
      /\ DOMAIN order = 1 .. n /\ Placed(order) = {order[k] : k \in 1 .. n}
      /\ \A k \in 1 .. n : order[k] = whole[k] /\ k \in 1 .. Len(whole)
  BY <1>3, <1>5, ArrangedFacts DEF Extends
<1>7. ASSUME NEW e \in graph.edges, e[2] = i PROVE e[1] \in Placed(order)
  <2>1. BeforeIn(whole, e[1], i)
    BY <1>5, <1>7 DEF TrueOf, Respects
  <2>2. PICK l \in 1 .. ((n + 1) - 1) : whole[l] = e[1]
    BY <1>4, <1>5, <1>6, <2>1, BeforeOnce
  <2>3. l \in 1 .. n
    BY <1>6
  <2>4. QED
    BY <1>6, <2>2, <2>3
<1>8. ASSUME NEW c \in graph.choices, c.reader = i
      PROVE  LET latest == Latest({k \in DOMAIN order : order[k] \in c.alternatives \cup c.conflicting})
             IN  /\ c.initial \/ c.alternatives \cap Placed(order) # {}
                 /\ latest # 0 => order[latest] \in c.alternatives
  <2>1. PICK W : W = {k \in DOMAIN order : order[k] \in c.alternatives \cup c.conflicting}
    OBVIOUS
  <2>2. W \in SUBSET (1 .. n)
    BY <1>6, <2>1
  <2>3. PICK k \in 1 .. Len(whole) : whole[k] = i /\ SourcedAt(whole, c, k)
    BY <1>5, <1>8 DEF TrueOf, Sourced
  <2>4. k = n + 1
    BY <1>4, <1>5, <1>6, <2>3 DEF Arranged
  <2>5. k - 1 = n
    BY <1>6, <2>4
  <2>6. CASE c.initial /\ \A l \in 1 .. n : whole[l] \notin c.alternatives \cup c.conflicting
    <3>1. W = {}
      BY <1>6, <2>1, <2>6
    <3>2. Latest(W) = 0
      BY <1>6, <2>2, <3>1, LatestFacts
    <3>3. QED
      BY <2>1, <2>6, <3>2
  <2>7. ASSUME NEW l \in 1 .. n, whole[l] \in c.alternatives,
               \A j \in (l + 1) .. n : whole[j] \notin c.alternatives \cup c.conflicting
        PROVE  /\ c.alternatives \cap Placed(order) # {}
               /\ order[Latest(W)] \in c.alternatives
    <3>1. order[l] \in c.alternatives /\ l \in W
      BY <1>6, <2>1, <2>7
    <3>2. PICK last : last = Latest(W)
      OBVIOUS
    <3>3. last \in W /\ l <= last
      BY <1>6, <2>2, <3>1, <3>2, LatestFacts
    <3>4. last \in 1 .. n /\ whole[last] \in c.alternatives \cup c.conflicting
      BY <1>6, <2>1, <2>2, <3>3
    <3>5. last \notin (l + 1) .. n
      BY <2>7, <3>4
    <3>6. last = l
      BY <1>6, <3>3, <3>4, <3>5
    <3>7. order[l] \in Placed(order)
      BY <1>6
    <3>8. QED
      BY <3>1, <3>2, <3>6, <3>7
  <2>8. QED
    BY <2>1, <2>3, <2>5, <2>6, <2>7 DEF SourcedAt
<1>9. QED
  BY <1>2, <1>3, <1>4, <1>7, <1>8 DEF PredecessorsPlaced

LEMMA NextAdmitted ==
    ASSUME NEW problem, Posed(problem), NEW order, Serial(problem.history, order),
           NEW whole, Full(problem.history, whole), Extends(whole, order), Len(order) < Len(whole)
    PROVE  /\ Admits(problem, order, whole[Len(order) + 1])
           /\ Extends(whole, Append(order, whole[Len(order) + 1]))
<1>1. PICK h : h = problem.history
  OBVIOUS
<1>2. PICK i : i = whole[Len(order) + 1]
  OBVIOUS
<1>3. WellFormed(h) /\ Serial(h, whole) /\ Arranged(h, order)
  BY <1>1 DEF Posed, Full, Serial
<1>4. i \in Committed(h) \ Placed(order) /\ FitsNext(h, order, i) /\ Extends(whole, Append(order, i))
  BY <1>2, <1>3, NextFits
<1>5. PredecessorsPlaced(problem.graph, order, i)
  BY <1>2, NextPredecessorsPlaced
<1>6. QED
  BY <1>1, <1>2, <1>4, <1>5 DEF Admits, FitsNext

-----------------------------------------------------------------------------
(* The search answers every question.                                      *)

Answers(history) ==
    [found : BOOLEAN, completed : BOOLEAN, order : Seq(DOMAIN history.transactions),
     memo : SUBSET Seq(DOMAIN history.transactions), explored : Nat, exceeded : BOOLEAN]

\* The committed transactions that an order has not placed
Left(history, order) == Cardinality(Committed(history) \ Placed(order))

LEMMA LeftFacts ==
    ASSUME NEW history, WellFormed(history), NEW order \in Seq(DOMAIN history.transactions)
    PROVE  /\ Left(history, order) \in 0 .. Cardinality(Committed(history))
           /\ \A i \in Committed(history) \ Placed(order) :
                 /\ Append(order, i) \in Seq(DOMAIN history.transactions)
                 /\ Left(history, Append(order, i)) = Left(history, order) - 1
<1>1. PICK C : C = Committed(history)
  OBVIOUS
<1>2. PICK D : D = DOMAIN history.transactions
  OBVIOUS
<1>3. IsFiniteSet(C) /\ Cardinality(C) \in Nat /\ C \subseteq D /\ order \in Seq(D)
  BY <1>1, <1>2, WellFormedFacts DEF Committed
<1>4. PICK R : R = C \ Placed(order)
  OBVIOUS
<1>5. IsFiniteSet(R) /\ Cardinality(R) <= Cardinality(C) /\ Cardinality(R) \in Nat
  <2>1. R \in SUBSET C
    BY <1>4
  <2>2. IsFiniteSet(R) /\ Cardinality(R) <= Cardinality(C)
    BY <1>3, <2>1, FS_Subset
  <2>3. QED
    BY <2>2, FS_CardinalityType
<1>6. ASSUME NEW i \in C \ Placed(order)
      PROVE  Append(order, i) \in Seq(D) /\ Left(history, Append(order, i)) = Left(history, order) - 1
  <2>1. PICK n : n = Len(order)
    OBVIOUS
  <2>2. PICK longer : longer = Append(order, i)
    OBVIOUS
  <2>3. /\ n \in Nat /\ DOMAIN order = 1 .. n /\ longer \in Seq(D) /\ DOMAIN longer = 1 .. (n + 1)
        /\ longer[n + 1] = i /\ \A k \in 1 .. n : longer[k] = order[k]
    BY <1>3, <2>1, <2>2
  <2>4. ASSUME NEW y \in R PROVE y \in Placed(longer) <=> y = i
    <3>1. ASSUME y \in Placed(longer) PROVE y = i
      <4>1. PICK k \in 1 .. (n + 1) : longer[k] = y
        BY <2>3, <3>1 DEF Placed
      <4>2. CASE k = n + 1
        BY <2>3, <4>1, <4>2
      <4>3. CASE k \in 1 .. n
        BY <1>4, <2>3, <4>1, <4>3 DEF Placed
      <4>4. QED
        BY <2>3, <4>2, <4>3
    <3>2. ASSUME y = i PROVE y \in Placed(longer)
      <4>1. n + 1 \in DOMAIN longer
        BY <2>3
      <4>2. QED
        BY <2>3, <3>2, <4>1 DEF Placed
    <3>3. QED
      BY <3>1, <3>2
  <2>5. ASSUME NEW y \in C, y \notin R PROVE y \in Placed(longer)
    <3>1. PICK k \in 1 .. n : order[k] = y
      BY <1>4, <2>3, <2>5 DEF Placed
    <3>2. k \in DOMAIN longer /\ longer[k] = y
      BY <2>3, <3>1
    <3>3. QED
      BY <3>2 DEF Placed
  <2>6. C \ Placed(longer) = R \ {i}
    BY <1>4, <2>4, <2>5
  <2>7. i \in R
    BY <1>4
  <2>8. Cardinality(R \ {i}) = Cardinality(R) - 1
    BY <1>5, <2>7, FS_RemoveElement
  <2>9. QED
    BY <1>1, <1>4, <2>2, <2>3, <2>6, <2>8 DEF Left
<1>7. Left(history, order) = Cardinality(R)
  BY <1>1, <1>4 DEF Left
<1>8. Cardinality(R) \in 0 .. Cardinality(C)
  BY <1>3, <1>5
<1>9. QED
  BY <1>1, <1>2, <1>6, <1>7, <1>8

Child(q, i, before) ==
    [order |-> Append(q.order, i), memo |-> before.memo, explored |-> before.explored,
     exceeded |-> before.exceeded]

LEMMA TryCandidateCases ==
    ASSUME NEW problem, NEW g, NEW q, NEW i, NEW before
    PROVE  /\ before.found \/ ~ Admits(problem, q.order, i) => TryCandidate(problem, g, q, i, before) = before
           /\ ~ before.found /\ Admits(problem, q.order, i)
                 => TryCandidate(problem, g, q, i, before)
                       = [g[Child(q, i, before)] EXCEPT !.completed = @ \/ before.completed]
<1>1. PICK skip \in BOOLEAN : skip <=> before.found \/ ~ Admits(problem, q.order, i)
  OBVIOUS
<1>2. TryCandidate(problem, g, q, i, before)
         = IF \/ before.found \/ i \notin Committed(problem.history) \/ i \in Placed(q.order)
              \/ ~PredecessorsPlaced(problem.graph, q.order, i)
              \/ ~ReadsValid(problem.history.transactions[i], StateOf(problem.history, q.order))
           THEN before
           ELSE [g[Child(q, i, before)] EXCEPT !.completed = @ \/ before.completed]
  BY DEF TryCandidate, Child
<1>3. skip <=> \/ before.found \/ i \notin Committed(problem.history) \/ i \in Placed(q.order)
               \/ ~PredecessorsPlaced(problem.graph, q.order, i)
               \/ ~ReadsValid(problem.history.transactions[i], StateOf(problem.history, q.order))
  BY <1>1 DEF Admits
<1>4. skip => TryCandidate(problem, g, q, i, before) = before
  BY <1>2, <1>3
<1>5. ~skip => TryCandidate(problem, g, q, i, before)
                  = [g[Child(q, i, before)] EXCEPT !.completed = @ \/ before.completed]
  BY <1>2, <1>3
<1>6. QED
  BY <1>1, <1>4, <1>5

\* Two functions that agree on what has less left to place than q
Agree(history, q, f, g) ==
    \A y \in Questions(history) : Left(history, y.order) < Left(history, q.order) => g[y] = f[y]

LEMMA ChildFacts ==
    ASSUME NEW history, WellFormed(history), NEW q \in Questions(history),
           NEW i \in Committed(history) \ Placed(q.order), NEW before \in Answers(history)
    PROVE  /\ Child(q, i, before) \in Questions(history)
           /\ Left(history, Child(q, i, before).order) < Left(history, q.order)
<1>1. q.order \in Seq(DOMAIN history.transactions)
  BY DEF Questions
<1>2. /\ Append(q.order, i) \in Seq(DOMAIN history.transactions)
      /\ Left(history, Append(q.order, i)) = Left(history, q.order) - 1
      /\ Left(history, q.order) \in 0 .. Cardinality(Committed(history))
  BY <1>1, LeftFacts
<1>3. Cardinality(Committed(history)) \in Nat
  BY WellFormedFacts
<1>4. Child(q, i, before) \in Questions(history) /\ Child(q, i, before).order = Append(q.order, i)
  BY <1>2 DEF Child, Questions, Answers
<1>5. QED
  BY <1>2, <1>3, <1>4

LEMMA TryCandidateAgrees ==
    ASSUME NEW problem, Posed(problem), NEW q \in Questions(problem.history), NEW i,
           NEW before \in Answers(problem.history),
           NEW f \in [Questions(problem.history) -> Answers(problem.history)], NEW g,
           Agree(problem.history, q, f, g)
    PROVE  /\ TryCandidate(problem, g, q, i, before) = TryCandidate(problem, f, q, i, before)
           /\ TryCandidate(problem, f, q, i, before) \in Answers(problem.history)
<1>1. PICK h : h = problem.history
  OBVIOUS
<1>2. CASE before.found \/ ~ Admits(problem, q.order, i)
  BY <1>2, TryCandidateCases
<1>3. CASE ~ before.found /\ Admits(problem, q.order, i)
  <2>1. PICK child : child = Child(q, i, before)
    OBVIOUS
  <2>2. i \in Committed(h) \ Placed(q.order) /\ WellFormed(h)
    BY <1>1, <1>3 DEF Admits, Posed
  <2>3. child \in Questions(h) /\ Left(h, child.order) < Left(h, q.order)
    BY <1>1, <2>1, <2>2, ChildFacts
  <2>4. g[child] = f[child] /\ f[child] \in Answers(h)
    BY <1>1, <2>3 DEF Agree
  <2>5. [f[child] EXCEPT !.completed = @ \/ before.completed] \in Answers(h)
    <3>1. PICK a : a = f[child]
      OBVIOUS
    <3>2. (a.completed \/ before.completed) \in BOOLEAN
      OBVIOUS
    <3>3. QED
      BY <2>4, <3>1, <3>2 DEF Answers
  <2>6. /\ TryCandidate(problem, g, q, i, before)
              = [g[child] EXCEPT !.completed = @ \/ before.completed]
        /\ TryCandidate(problem, f, q, i, before)
              = [f[child] EXCEPT !.completed = @ \/ before.completed]
    BY <1>3, <2>1, TryCandidateCases
  <2>7. QED
    BY <1>1, <2>4, <2>5, <2>6
<1>4. QED
  BY <1>2, <1>3

\* What came of the first i candidates is tr[i]
Tries(problem, f, q, tr) ==
    /\ tr \in [0 .. Len(problem.history.transactions) -> Answers(problem.history)]
    /\ tr[0] = Untried(q)
    /\ \A i \in 1 .. Len(problem.history.transactions) :
          tr[i] = TryCandidate(problem, f, q, i, tr[i - 1])
    /\ TryCandidates(problem, f, q) = tr[Len(problem.history.transactions)]

LEMMA UntriedType ==
    ASSUME NEW history, NEW q \in Questions(history)
    PROVE  /\ Untried(q) \in Answers(history) /\ ~ Untried(q).found /\ ~ Untried(q).completed
           /\ Untried(q).memo = q.memo /\ Untried(q).exceeded = q.exceeded
           /\ Untried(q).explored = q.explored
<1>1. PICK memo : memo = q.memo
  OBVIOUS
<1>2. <<>> \in Seq(DOMAIN history.transactions)
  OBVIOUS
<1>3. QED
  BY <1>2 DEF Untried, Questions, Answers

LEMMA TriedLoop ==
    ASSUME NEW problem, Posed(problem), NEW q \in Questions(problem.history),
           NEW f \in [Questions(problem.history) -> Answers(problem.history)], NEW g,
           Agree(problem.history, q, f, g)
    PROVE  \E tr : /\ Tries(problem, f, q, tr)
                   /\ TryCandidates(problem, g, q) = tr[Len(problem.history.transactions)]
<1> USE DEF Agree, Tries
<1> DEFINE h == problem.history
           n == Len(h.transactions)
           A == Answers(h)
           a == Untried(q)
           step == [i \in 1 .. n |-> [before \in A |-> TryCandidate(problem, f, q, i, before)]]
<1>0. n \in Nat
  BY WellFormedFacts DEF Posed
<1>1. a \in A
  BY UntriedType
<1>2. \A i \in 1 .. n, before \in A : TryCandidate(problem, f, q, i, before) \in A
  BY TryCandidateAgrees
<1>3. step \in Rounds(n, A)
  BY <1>2 DEF Rounds
<1>4. PICK tr \in [0 .. n -> A] : tr[0] = a /\ \A i \in 1 .. n : tr[i] = step[i][tr[i - 1]]
  <2>1. \E tr : Follows(tr, n, A, a, step)
    <3> HIDE DEF n, A, a, step
    <3>1. QED
      BY <1>0, <1>1, <1>3, Iterate
  <2>2. QED
    BY <2>1 DEF Follows
<1>5. ASSUME NEW i \in 1 .. n
      PROVE  tr[i - 1] \in A /\ tr[i] = TryCandidate(problem, f, q, i, tr[i - 1])
  <2>1. tr[i - 1] \in A
    BY <1>0, <1>4
  <2>2. QED
    BY <1>4, <2>1
<1>6. ASSUME NEW k, \A y \in Questions(h) : Left(h, y.order) < Left(h, q.order) => k[y] = f[y]
      PROVE  TryCandidates(problem, k, q) = tr[n]
  <2> DEFINE Loop(l) == l = [i \in 0 .. n |->
                              IF i = 0 THEN a ELSE TryCandidate(problem, k, q, i, l[i - 1])]
             loop == CHOOSE l : Loop(l)
  <2>1. ASSUME NEW i \in 1 .. n PROVE tr[i] = TryCandidate(problem, k, q, i, tr[i - 1])
    <3>1. tr[i - 1] \in Answers(h)
      BY <1>5
    <3>2. TryCandidate(problem, k, q, i, tr[i - 1]) = TryCandidate(problem, f, q, i, tr[i - 1])
      BY <1>6, <3>1, TryCandidateAgrees
    <3>3. QED
      BY <1>5, <3>2
  <2>2. Loop(tr)
    <3>1. \A i \in 0 .. n : i = 0 \/ i \in 1 .. n
      BY <1>0
    <3>2. \A i \in 0 .. n : tr[i] = IF i = 0 THEN a ELSE TryCandidate(problem, k, q, i, tr[i - 1])
      BY <1>4, <2>1, <3>1
    <3>3. QED
      BY <1>4, <3>2
  <2>3. Loop(loop)
    BY <2>2
  <2>4. TryCandidates(problem, k, q) = loop[n]
    BY DEF TryCandidates
  <2> HIDE DEF loop
  <2> DEFINE T == {i \in 0 .. n : loop[i] = tr[i]}
  <2>5. 0 \in T
    BY <1>0, <1>4, <2>3
  <2>6. ASSUME NEW i \in 1 .. n, i - 1 \in T PROVE i \in T
    <3>1. i \in 0 .. n /\ i # 0
      BY <1>0
    <3>2. loop[i] = TryCandidate(problem, k, q, i, loop[i - 1])
      BY <2>3, <3>1
    <3>3. QED
      BY <2>1, <2>6, <3>1, <3>2
  <2>7. 0 .. n \subseteq T
    <3> HIDE DEF T, n
    <3>1. QED
      BY <1>0, <2>5, <2>6, Climb
  <2>8. n \in 0 .. n
    BY <1>0
  <2>9. QED
    BY <2>4, <2>7, <2>8
<1>7. TryCandidates(problem, f, q) = tr[n] /\ TryCandidates(problem, g, q) = tr[n]
  BY <1>6
<1>8. QED
  BY <1>0, <1>4, <1>5, <1>7

LEMMA AnswerAgrees ==
    ASSUME NEW problem, Posed(problem), NEW q \in Questions(problem.history),
           NEW f \in [Questions(problem.history) -> Answers(problem.history)], NEW g,
           Agree(problem.history, q, f, g)
    PROVE  /\ Answer(problem, g, q) = Answer(problem, f, q)
           /\ Answer(problem, f, q) \in Answers(problem.history)
<1>1. PICK h : h = problem.history
  OBVIOUS
<1>2. PICK tried \in Answers(h) :
          tried = TryCandidates(problem, f, q) /\ tried = TryCandidates(problem, g, q)
  <2>1. Len(h.transactions) \in 0 .. Len(h.transactions)
    BY <1>1, WellFormedFacts DEF Posed
  <2>2. PICK tr : /\ Tries(problem, f, q, tr)
                  /\ TryCandidates(problem, g, q) = tr[Len(problem.history.transactions)]
    BY TriedLoop
  <2>3. /\ tr[Len(h.transactions)] \in Answers(h)
        /\ TryCandidates(problem, f, q) = tr[Len(h.transactions)]
    BY <1>1, <2>1, <2>2 DEF Tries
  <2>4. QED
    BY <1>1, <2>2, <2>3
<1>3. q.order \in Seq(DOMAIN h.transactions)
  BY <1>1 DEF Questions
<1>4. [tried EXCEPT !.memo = @ \cup {q.order}] \in Answers(h)
  BY <1>3 DEF Answers
<1>5. PICK none \in Answers(h) : none = Untried(q)
  BY <1>1, UntriedType
<1>6. CompleteOrder(problem, q) \in Answers(h)
  <2>2. VerifyObservers(problem.history, q.order) \in BOOLEAN
    BY DEF VerifyObservers
  <2>3. [none EXCEPT !.exceeded = TRUE] \in Answers(h)
    BY DEF Answers
  <2>4. [none EXCEPT !.explored = @ + 1, !.completed = TRUE, !.order = q.order,
                     !.found = VerifyObservers(problem.history, q.order)] \in Answers(h)
    <3>1. PICK seen \in BOOLEAN : seen = VerifyObservers(problem.history, q.order)
      BY <2>2
    <3>2. PICK more \in Nat : more = none.explored + 1
      BY DEF Answers
    <3>3. [none EXCEPT !.explored = more, !.completed = TRUE, !.order = q.order, !.found = seen]
            \in Answers(h)
      BY <1>3 DEF Answers
    <3>4. QED
      BY <3>1, <3>2, <3>3
  <2>5. QED
    BY <1>5, <2>3, <2>4 DEF CompleteOrder
<1>7. QED
  BY <1>1, <1>2, <1>4, <1>5, <1>6 DEF Answer

\* SearchCommittedOrder is the function that its recursion describes
LEMMA SearchFacts ==
    ASSUME NEW problem, Posed(problem)
    PROVE  /\ SearchCommittedOrder(problem) \in [Questions(problem.history) -> Answers(problem.history)]
           /\ \A q \in Questions(problem.history) :
                 SearchCommittedOrder(problem)[q] = Answer(problem, SearchCommittedOrder(problem), q)
<1> DEFINE history == problem.history
           Q == Questions(history)
           A == Answers(history)
           M == Cardinality(Committed(history))
           m == [q \in Q |-> Left(history, q.order)]
           e == [f \in [Q -> A] |-> [q \in Q |-> Answer(problem, f, q)]]
<1>0. WellFormed(history)
  BY DEF Posed
<1>1. M \in Nat /\ m \in [Q -> 0 .. M]
  <2>1. M \in Nat
    BY <1>0, WellFormedFacts
  <2>2. \A q \in Q : Left(history, q.order) \in 0 .. M
    BY <1>0, LeftFacts DEF Questions
  <2>3. QED
    BY <2>1, <2>2
<1>2. \A f \in [Q -> A], q \in Q : Answer(problem, f, q) \in A
  BY AnswerAgrees DEF Agree
<1>3. e \in [[Q -> A] -> [Q -> A]]
  BY <1>2
<1>4. ASSUME NEW f \in [Q -> A], NEW g \in [Q -> A], NEW q \in Q,
             \A y \in Q : m[y] < m[q] => f[y] = g[y]
      PROVE  e[f][q] = e[g][q]
  <2>1. \A y \in Q : Left(history, y.order) < Left(history, q.order) => f[y] = g[y]
    BY <1>4
  <2>2. Answer(problem, f, q) = Answer(problem, g, q)
    BY <2>1, AnswerAgrees DEF Agree
  <2>3. QED
    BY <2>2
<1>5. PICK a \in A : TRUE
  <2>1. PICK d : d = DOMAIN history.transactions
    OBVIOUS
  <2>2. <<>> \in Seq(d)
    OBVIOUS
  <2>3. [found |-> FALSE, completed |-> FALSE, order |-> <<>>, memo |-> {}, explored |-> 0,
         exceeded |-> FALSE] \in A
    BY <2>1, <2>2 DEF Answers
  <2>4. QED
    BY <2>3
<1>6. PICK f \in [Q -> A] : e[f] = f
  <2>1. \A f, g \in [Q -> A], q \in Q :
            (\A y \in Q : m[y] < m[q] => f[y] = g[y]) => e[f][q] = e[g][q]
    <3> HIDE DEF e, m
    <3>1. QED
      BY <1>4
  <2>2. Descends(e, Q, A, m)
    <3> HIDE DEF e, m
    <3>1. QED
      BY <1>3, <2>1 DEF Descends
  <2>3. \E f : Fixed(f, e, Q, A)
    <3> HIDE DEF Q, A, M, m, e
    <3>1. QED
      BY <1>1, <1>5, <2>2, Recursion
  <2>4. QED
    <3> HIDE DEF Q, A, M, m, e
    <3>1. QED
      BY <2>3 DEF Fixed
<1> DEFINE Search(s) == s = [q \in Q |-> Answer(problem, s, q)]
           h == CHOOSE s : Search(s)
<1>7. \A q \in Q : f[q] = Answer(problem, f, q)
  BY <1>6
<1>8. Search(f)
  BY <1>6
<1>9. Search(h)
  BY <1>8
<1>10. SearchCommittedOrder(problem) = h
  BY DEF SearchCommittedOrder
<1> HIDE DEF h
<1> DEFINE T == {i \in 0 .. M + 1 : \A q \in Q : m[q] < i => h[q] = f[q]}
<1>11. 0 \in T
  BY <1>1
<1>12. ASSUME NEW i \in 1 .. M + 1, i - 1 \in T PROVE i \in T
  <2>1. i \in 0 .. M + 1
    BY <1>1
  <2>2. ASSUME NEW q \in Q, m[q] < i PROVE h[q] = f[q]
    <3>1. ASSUME NEW y \in Q, Left(history, y.order) < Left(history, q.order)
          PROVE  h[y] = f[y]
      <4>1. m[y] < m[q] /\ m[y] \in Int /\ m[q] \in Int
        BY <1>1, <3>1
      <4>2. m[y] < i - 1
        BY <2>2, <4>1
      <4>3. QED
        BY <1>12, <4>2
    <3>2. Answer(problem, h, q) = Answer(problem, f, q)
      BY <3>1, AnswerAgrees DEF Agree
    <3>3. h[q] = Answer(problem, h, q)
      BY <1>9
    <3>4. QED
      BY <1>7, <3>2, <3>3
  <2>3. QED
    BY <2>1, <2>2
<1>13. M + 1 \in T
  <2>1. M + 1 \in Nat /\ M + 1 \in 0 .. M + 1
    BY <1>1
  <2> HIDE DEF T
  <2>2. 0 .. M + 1 \subseteq T
    BY <1>11, <1>12, <2>1, Climb
  <2>3. QED
    BY <2>1, <2>2
<1>14. \A q \in Q : h[q] = f[q]
  <2>1. \A q \in Q : m[q] < M + 1
    <3> HIDE DEF m, M
    <3>1. QED
      BY <1>1
  <2>2. QED
    BY <1>13, <2>1
<1>15. h = f
  BY <1>9, <1>14
<1>16. QED
  BY <1>7, <1>10, <1>15

-----------------------------------------------------------------------------
(* The answers are true.                                                   *)

\* The orders that failed are serial, and no full order goes on from them
MemoTrue(history, memo) ==
    \A failed \in memo : Serial(history, failed) /\ ~ Completable(history, failed)

Asked(history, q) == Serial(history, q.order) /\ MemoTrue(history, q.memo)

\* No full order that goes on from this one is explained
Hopeless(history, order) ==
    \A whole : Full(history, whole) /\ Extends(whole, order) => ~ VerifyObservers(history, whole)

\* What holds of an answer whatever was tried
Honest(problem, q, a) ==
    /\ MemoTrue(problem.history, a.memo)
    /\ a.found => Full(problem.history, a.order) /\ VerifyObservers(problem.history, a.order)
    /\ q.exceeded => a.exceeded
    /\ a.exceeded => q.exceeded \/ problem.limit # 0

Truthful(problem, q, a) ==
    /\ Honest(problem, q, a)
    /\ ~ a.found /\ ~ a.exceeded => Hopeless(problem.history, q.order)
    /\ ~ a.found /\ ~ a.exceeded /\ ~ a.completed => ~ Completable(problem.history, q.order)

\* The full orders that go on with one of the first i transactions were tried
TriedUpTo(problem, q, i, a) ==
    \A whole :
        Full(problem.history, whole) /\ Extends(whole, q.order)
            /\ Len(q.order) < Len(whole) /\ whole[Len(q.order) + 1] <= i
        => a.completed /\ ~ VerifyObservers(problem.history, whole)

TruthfulUpTo(problem, q, i, a) ==
    Honest(problem, q, a) /\ (~ a.found /\ ~ a.exceeded => TriedUpTo(problem, q, i, a))

LEMMA CandidateTruth ==
    ASSUME NEW problem, Posed(problem), NEW q \in Questions(problem.history),
           Asked(problem.history, q), NEW i \in 1 .. Len(problem.history.transactions),
           NEW before \in Answers(problem.history), TruthfulUpTo(problem, q, i - 1, before),
           NEW f \in [Questions(problem.history) -> Answers(problem.history)],
           \A y \in Questions(problem.history) :
              Left(problem.history, y.order) < Left(problem.history, q.order)
                 /\ Asked(problem.history, y) => Truthful(problem, y, f[y])
    PROVE  TruthfulUpTo(problem, q, i, TryCandidate(problem, f, q, i, before))
<1>1. PICK h : h = problem.history
  OBVIOUS
<1>2. PICK n : n = Len(q.order)
  OBVIOUS
<1>3. PICK after : after = TryCandidate(problem, f, q, i, before)
  OBVIOUS
<1>4. /\ WellFormed(h) /\ Serial(h, q.order) /\ MemoTrue(h, q.memo) /\ i \in Nat
      /\ Committed(h) \subseteq Nat
  BY <1>1, WellFormedFacts DEF Posed, Asked
<1>5. Honest(problem, q, before)
  BY DEF TruthfulUpTo
\* A full order that goes on with i, or with what was tried before
<1>6. ASSUME NEW whole, Full(h, whole), Extends(whole, q.order), n < Len(whole), whole[n + 1] <= i
      PROVE  whole[n + 1] = i \/ whole[n + 1] <= i - 1
  <2>1. Arranged(h, whole) /\ Arranged(h, q.order)
    BY <1>4, <1>6 DEF Full, Serial
  <2>2. n \in Nat /\ Len(whole) \in Nat /\ \A k \in 1 .. Len(whole) : whole[k] \in Committed(h)
    BY <1>2, <1>4, <2>1, ArrangedFacts
  <2>3. whole[n + 1] \in Nat
    BY <1>4, <1>6, <2>2
  <2>4. QED
    BY <1>4, <1>6, <2>3
<1>7. CASE before.found
  <2>1. after = before
    BY <1>3, <1>7, TryCandidateCases
  <2>2. QED
    BY <1>3, <1>5, <1>7, <2>1 DEF TruthfulUpTo
<1>8. CASE ~ before.found /\ ~ Admits(problem, q.order, i)
  <2>1. after = before
    BY <1>3, <1>8, TryCandidateCases
  <2>2. ASSUME ~ before.exceeded, NEW whole, Full(h, whole), Extends(whole, q.order),
               n < Len(whole), whole[n + 1] <= i
        PROVE  before.completed /\ ~ VerifyObservers(h, whole)
    <3>1. whole[n + 1] # i
      BY <1>1, <1>2, <1>4, <1>8, <2>2, NextAdmitted
    <3>2. whole[n + 1] <= i - 1
      BY <1>6, <2>2, <3>1
    <3>3. QED
      BY <1>1, <1>2, <1>8, <2>2, <3>2 DEF TruthfulUpTo, TriedUpTo
  <2>3. QED
    <3>1. ~ before.exceeded => TriedUpTo(problem, q, i, before)
      BY <1>1, <1>2, <2>2 DEF TriedUpTo
    <3>2. QED
      BY <1>3, <1>5, <2>1, <3>1 DEF TruthfulUpTo
<1>9. CASE ~ before.found /\ Admits(problem, q.order, i)
  <2>1. PICK y : y = Child(q, i, before)
    OBVIOUS
  <2>2. i \in Committed(h) \ Placed(q.order)
    BY <1>1, <1>9 DEF Admits
  <2>3. y \in Questions(h) /\ Left(h, y.order) < Left(h, q.order)
    BY <1>1, <1>4, <2>1, <2>2, ChildFacts
  <2>4. y.order = Append(q.order, i) /\ y.memo = before.memo /\ y.exceeded = before.exceeded
    BY <2>1 DEF Child
  <2>5. Serial(h, y.order)
    BY <1>1, <1>4, <1>9, <2>4, AdmittedSerial
  <2>6. MemoTrue(h, y.memo)
    BY <1>1, <1>5, <2>4 DEF Honest
  <2>7. PICK a \in Answers(h) : a = f[y]
    BY <1>1, <2>3
  <2>8. Truthful(problem, y, a)
    BY <1>1, <2>3, <2>5, <2>6, <2>7 DEF Asked
  <2>9. after = [a EXCEPT !.completed = @ \/ before.completed]
    BY <1>3, <1>9, <2>1, <2>7, TryCandidateCases
  <2>10. /\ after.found = a.found /\ after.exceeded = a.exceeded /\ after.memo = a.memo
         /\ after.order = a.order
         /\ after.completed <=> a.completed \/ before.completed
    BY <2>7, <2>9 DEF Answers
  <2>11. Honest(problem, q, after)
    BY <1>5, <2>4, <2>8, <2>10 DEF Truthful, Honest
  <2>12. ASSUME ~ after.found, ~ after.exceeded, NEW whole, Full(h, whole), Extends(whole, q.order),
                n < Len(whole), whole[n + 1] <= i
         PROVE  after.completed /\ ~ VerifyObservers(h, whole)
    <3>1. ~ before.exceeded
      BY <2>4, <2>8, <2>10, <2>12 DEF Truthful, Honest
    <3>2. CASE whole[n + 1] = i
      <4>1. Extends(whole, y.order)
        BY <1>1, <1>2, <1>4, <2>4, <2>12, <3>2, NextAdmitted
      <4>2. Hopeless(h, y.order) /\ (a.completed \/ ~ Completable(h, y.order))
        BY <1>1, <2>8, <2>10, <2>12 DEF Truthful
      <4>3. Completable(h, y.order)
        BY <2>12, <4>1 DEF Completable
      <4>4. QED
        BY <2>10, <2>12, <4>1, <4>2, <4>3 DEF Hopeless
    <3>3. CASE whole[n + 1] <= i - 1
      <4>1. before.completed /\ ~ VerifyObservers(h, whole)
        BY <1>1, <1>2, <1>9, <2>12, <3>1, <3>3 DEF TruthfulUpTo, TriedUpTo
      <4>2. QED
        BY <2>10, <4>1
    <3>4. QED
      BY <1>6, <2>12, <3>2, <3>3
  <2>13. QED
    <3>1. ~ after.found /\ ~ after.exceeded => TriedUpTo(problem, q, i, after)
      BY <1>1, <1>2, <2>12 DEF TriedUpTo
    <3>2. QED
      BY <1>3, <2>11, <3>1 DEF TruthfulUpTo
<1>10. QED
  BY <1>7, <1>8, <1>9

LEMMA TriedTruth ==
    ASSUME NEW problem, Posed(problem), NEW q \in Questions(problem.history),
           Asked(problem.history, q), Len(q.order) # Cardinality(Committed(problem.history)),
           NEW f \in [Questions(problem.history) -> Answers(problem.history)],
           \A y \in Questions(problem.history) :
              Left(problem.history, y.order) < Left(problem.history, q.order)
                 /\ Asked(problem.history, y) => Truthful(problem, y, f[y])
    PROVE  /\ TryCandidates(problem, f, q) \in Answers(problem.history)
           /\ Truthful(problem, q, TryCandidates(problem, f, q))
<1>1. PICK h : h = problem.history
  OBVIOUS
<1>2. PICK n : n = Len(h.transactions)
  OBVIOUS
<1>3. WellFormed(h) /\ n \in Nat /\ Serial(h, q.order) /\ Committed(h) \subseteq 1 .. n
  BY <1>1, <1>2, WellFormedFacts DEF Posed, Asked
<1>4. PICK tr : Tries(problem, f, q, tr)
  BY TriedLoop DEF Agree
<1>5. /\ tr \in [0 .. n -> Answers(h)] /\ tr[0] = Untried(q)
      /\ \A i \in 1 .. n : tr[i] = TryCandidate(problem, f, q, i, tr[i - 1])
      /\ TryCandidates(problem, f, q) = tr[n]
  BY <1>1, <1>2, <1>4 DEF Tries
<1> DEFINE T == {i \in 0 .. n : TruthfulUpTo(problem, q, i, tr[i])}
<1>6. 0 \in T
  <2>1. PICK a : a = Untried(q)
    OBVIOUS
  <2>2. ~ a.found /\ a.memo = q.memo /\ a.exceeded = q.exceeded
    BY <2>1, UntriedType
  <2>3. Honest(problem, q, a)
    BY <2>2 DEF Honest, Asked
  <2>4. ASSUME NEW whole, Full(h, whole), Extends(whole, q.order), Len(q.order) < Len(whole)
        PROVE  ~ whole[Len(q.order) + 1] <= 0
    <3>1. Arranged(h, whole) /\ Arranged(h, q.order)
      BY <1>3, <2>4 DEF Full, Serial
    <3>2. /\ Len(q.order) \in Nat /\ Len(whole) \in Nat
          /\ \A k \in 1 .. Len(whole) : whole[k] \in Committed(h)
      BY <1>3, <3>1, ArrangedFacts
    <3>3. whole[Len(q.order) + 1] \in 1 .. n
      BY <1>3, <2>4, <3>2
    <3>4. QED
      BY <1>3, <3>3
  <2>5. TruthfulUpTo(problem, q, 0, a)
    <3>1. TriedUpTo(problem, q, 0, a)
      BY <1>1, <2>4 DEF TriedUpTo
    <3>2. QED
      BY <2>3, <3>1 DEF TruthfulUpTo
  <2>6. QED
    BY <1>3, <1>5, <2>1, <2>5
<1>7. ASSUME NEW i \in 1 .. n, i - 1 \in T PROVE i \in T
  <2>1. tr[i - 1] \in Answers(h) /\ i \in 0 .. n
    BY <1>3, <1>5
  <2>2. TruthfulUpTo(problem, q, i - 1, tr[i - 1])
    BY <1>7
  <2>3. TruthfulUpTo(problem, q, i, tr[i])
    BY <1>1, <1>2, <1>5, <2>1, <2>2, CandidateTruth
  <2>4. QED
    BY <2>1, <2>3
<1>8. n \in T
  <2> HIDE DEF T
  <2>1. 0 .. n \subseteq T
    BY <1>3, <1>6, <1>7, Climb
  <2>2. QED
    BY <1>3, <2>1
<1>9. PICK a \in Answers(h) : a = tr[n]
  BY <1>3, <1>5
<1>10. TruthfulUpTo(problem, q, n, a)
  BY <1>8, <1>9
<1>11. ASSUME NEW whole, Full(h, whole), Extends(whole, q.order), ~ a.found, ~ a.exceeded
       PROVE  a.completed /\ ~ VerifyObservers(h, whole)
  <2>1. Arranged(h, whole) /\ Arranged(h, q.order)
    BY <1>3, <1>11 DEF Full, Serial
  <2>2. /\ Len(q.order) \in Nat /\ Len(whole) \in Nat
        /\ \A k \in 1 .. Len(whole) : whole[k] \in Committed(h)
    BY <1>3, <2>1, ArrangedFacts
  <2>3. Len(whole) = Cardinality(Committed(h))
    BY <1>3, <1>11, <2>1, ExtendsWhole
  <2>4. Len(q.order) <= Len(whole) /\ Len(q.order) # Len(whole)
    BY <1>1, <1>11, <2>3 DEF Extends
  <2>5. Len(q.order) < Len(whole) /\ whole[Len(q.order) + 1] \in 1 .. n
    BY <1>3, <2>2, <2>4
  <2>6. whole[Len(q.order) + 1] <= n
    BY <1>3, <2>5
  <2>7. QED
    BY <1>1, <1>10, <1>11, <2>5, <2>6 DEF TruthfulUpTo, TriedUpTo
<1>12. Truthful(problem, q, a)
  BY <1>1, <1>10, <1>11 DEF Truthful, TruthfulUpTo, Hopeless, Completable
<1>13. QED
  BY <1>1, <1>5, <1>9, <1>12

LEMMA AnswerTruth ==
    ASSUME NEW problem, Posed(problem), NEW q \in Questions(problem.history),
           Asked(problem.history, q),
           NEW f \in [Questions(problem.history) -> Answers(problem.history)],
           \A y \in Questions(problem.history) :
              Left(problem.history, y.order) < Left(problem.history, q.order)
                 /\ Asked(problem.history, y) => Truthful(problem, y, f[y])
    PROVE  Truthful(problem, q, Answer(problem, f, q))
<1>1. PICK h : h = problem.history
  OBVIOUS
<1>2. WellFormed(h) /\ Serial(h, q.order) /\ Arranged(h, q.order) /\ MemoTrue(h, q.memo)
  BY <1>1 DEF Posed, Asked, Serial
<1>3. PICK none \in Answers(h) : none = Untried(q)
  BY <1>1, UntriedType
<1>4. ~ none.found /\ none.memo = q.memo /\ none.exceeded = q.exceeded
  BY <1>1, <1>3, UntriedType
<1>5. CASE Len(q.order) = Cardinality(Committed(h))
  <2>1. Full(h, q.order)
    BY <1>2, <1>5, ArrangedFacts DEF Full
  <2>2. \A whole : Full(h, whole) /\ Extends(whole, q.order) => whole = q.order
    BY <1>2, <1>5, ExtendsWhole
  <2>3. PICK a : a = CompleteOrder(problem, q)
    OBVIOUS
  <2>4. CASE problem.limit # 0 /\ q.explored >= problem.limit
    <3>1. a = [none EXCEPT !.exceeded = TRUE]
      BY <1>3, <2>3, <2>4 DEF CompleteOrder
    <3>2. ~ a.found /\ a.memo = q.memo /\ a.exceeded
      BY <1>4, <3>1 DEF Answers
    <3>3. Truthful(problem, q, a)
      BY <1>1, <1>2, <2>4, <3>2 DEF Truthful, Honest
    <3>4. QED
      BY <1>1, <1>5, <2>3, <3>3 DEF Answer
  <2>5. CASE ~ (problem.limit # 0 /\ q.explored >= problem.limit)
    <3>1. a = [none EXCEPT !.explored = @ + 1, !.completed = TRUE, !.order = q.order,
                           !.found = VerifyObservers(problem.history, q.order)]
      BY <1>3, <2>3, <2>5 DEF CompleteOrder
    <3>2. /\ a.found = VerifyObservers(h, q.order) /\ a.memo = q.memo /\ a.exceeded = q.exceeded
          /\ a.completed /\ a.order = q.order
      BY <1>1, <1>4, <3>1 DEF Answers
    <3>3. Honest(problem, q, a)
      BY <1>1, <1>2, <2>1, <3>2 DEF Honest
    <3>4. ~ a.found => Hopeless(h, q.order)
      BY <2>2, <3>2 DEF Hopeless
    <3>5. Truthful(problem, q, a)
      BY <1>1, <3>2, <3>3, <3>4 DEF Truthful
    <3>6. QED
      BY <1>1, <1>5, <2>3, <3>5 DEF Answer
  <2>6. QED
    BY <2>4, <2>5
<1>6. CASE Len(q.order) # Cardinality(Committed(h)) /\ Remembered(h, q)
  <2>1. PICK failed \in q.memo : SearchKey(h, failed) = SearchKey(h, q.order)
    BY <1>6 DEF Remembered
  <2>2. Serial(h, failed) /\ ~ Completable(h, failed)
    BY <1>2, <2>1 DEF MemoTrue
  <2>3. ~ Completable(h, q.order)
    BY <1>2, <2>1, <2>2, Transfer
  <2>4. Hopeless(h, q.order)
    BY <2>3 DEF Hopeless, Completable
  <2>5. Truthful(problem, q, none)
    BY <1>1, <1>2, <1>4, <2>3, <2>4 DEF Truthful, Honest
  <2>6. Answer(problem, f, q) = none
    BY <1>1, <1>3, <1>6 DEF Answer
  <2>7. QED
    BY <2>5, <2>6
<1>7. CASE Len(q.order) # Cardinality(Committed(h)) /\ ~ Remembered(h, q)
  <2>1. PICK tried : tried = TryCandidates(problem, f, q)
    OBVIOUS
  <2>2. tried \in Answers(h) /\ Truthful(problem, q, tried)
    BY <1>1, <1>7, <2>1, TriedTruth
  <2>3. Answer(problem, f, q)
           = IF tried.found \/ tried.completed \/ tried.exceeded THEN tried
             ELSE [tried EXCEPT !.memo = @ \cup {q.order}]
    BY <1>1, <1>7, <2>1 DEF Answer
  <2>4. CASE tried.found \/ tried.completed \/ tried.exceeded
    BY <2>2, <2>3, <2>4
  <2>5. CASE ~ (tried.found \/ tried.completed \/ tried.exceeded)
    <3>1. PICK a : a = [tried EXCEPT !.memo = @ \cup {q.order}]
      OBVIOUS
    <3>2. /\ a.found = tried.found /\ a.exceeded = tried.exceeded /\ a.completed = tried.completed
          /\ a.order = tried.order /\ a.memo = tried.memo \cup {q.order}
      BY <2>2, <3>1 DEF Answers
    <3>3. ~ Completable(h, q.order)
      BY <1>1, <2>2, <2>5 DEF Truthful
    <3>4. MemoTrue(h, a.memo)
      BY <1>1, <1>2, <2>2, <3>2, <3>3 DEF MemoTrue, Truthful, Honest
    <3>5. Honest(problem, q, a)
      BY <1>1, <2>2, <3>2, <3>4 DEF Truthful, Honest
    <3>6. Truthful(problem, q, a)
      BY <2>2, <3>2, <3>5 DEF Truthful
    <3>7. QED
      BY <2>3, <2>5, <3>1, <3>6
  <2>6. QED
    BY <2>4, <2>5
<1>8. QED
  BY <1>5, <1>6, <1>7

LEMMA SearchTruth ==
    ASSUME NEW problem, Posed(problem), NEW q \in Questions(problem.history),
           Asked(problem.history, q)
    PROVE  /\ SearchCommittedOrder(problem)[q] \in Answers(problem.history)
           /\ Truthful(problem, q, SearchCommittedOrder(problem)[q])
<1>1. PICK h : h = problem.history
  OBVIOUS
<1>2. PICK M \in Nat : M = Cardinality(Committed(h))
  BY <1>1, WellFormedFacts DEF Posed
<1>3. PICK f \in [Questions(h) -> Answers(h)] :
          f = SearchCommittedOrder(problem) /\ \A y \in Questions(h) : f[y] = Answer(problem, f, y)
  BY <1>1, SearchFacts
<1>4. ASSUME NEW y \in Questions(h) PROVE Left(h, y.order) \in 0 .. M
  BY <1>1, <1>2, LeftFacts DEF Questions, Posed
<1> DEFINE T == {i \in 0 .. M + 1 : \A y \in Questions(h) :
                    Left(h, y.order) < i /\ Asked(h, y) => Truthful(problem, y, f[y])}
<1>5. 0 \in T
  <2>1. \A y \in Questions(h) : ~ Left(h, y.order) < 0
    BY <1>4
  <2>2. QED
    BY <2>1
<1>6. ASSUME NEW i \in 1 .. M + 1, i - 1 \in T PROVE i \in T
  <2>1. ASSUME NEW y \in Questions(h), Left(h, y.order) < i, Asked(h, y)
        PROVE  Truthful(problem, y, f[y])
    <3>1. ASSUME NEW z \in Questions(h), Left(h, z.order) < Left(h, y.order), Asked(h, z)
          PROVE  Truthful(problem, z, f[z])
      <4>1. Left(h, z.order) \in Int /\ Left(h, y.order) \in Int
        BY <1>4
      <4>2. Left(h, z.order) < i - 1
        BY <2>1, <3>1, <4>1
      <4>3. QED
        BY <1>6, <3>1, <4>2
    <3>2. f[y] = Answer(problem, f, y)
      BY <1>3
    <3> HIDE DEF T
    <3>3. Truthful(problem, y, Answer(problem, f, y))
      BY <1>1, <2>1, <3>1, AnswerTruth
    <3>4. QED
      BY <3>2, <3>3
  <2>2. QED
    BY <2>1
<1>7. M + 1 \in T
  <2>1. M + 1 \in Nat /\ M + 1 \in 0 .. M + 1
    OBVIOUS
  <2> HIDE DEF T
  <2>2. 0 .. M + 1 \subseteq T
    BY <1>5, <1>6, <2>1, Climb
  <2>3. QED
    BY <2>1, <2>2
<1>8. Left(h, q.order) < M + 1
  BY <1>1, <1>4
<1>9. QED
  BY <1>1, <1>3, <1>7, <1>8

-----------------------------------------------------------------------------
(* The observers: the search assigns a prefix to each of them exactly if   *)
(* there are prefixes that fit together.                                   *)

\* The prefixes that each observer may be put after
Offers(history, n) == [Observers(history) -> SUBSET (0 .. n)]

FitTogether(history, a) ==
    \A other, o \in DOMAIN a :
        Precedes(history.transactions[other], history.transactions[o]) => a[other] <= a[o]

\* Observers with a prefix on offer that fit together
Seated(history, offers, a) == (\A o \in DOMAIN a : a[o] \in offers[o]) /\ FitTogether(history, a)

AllSeated(history, offers, n, a) == a \in [Observers(history) -> 0 .. n] /\ Seated(history, offers, a)

Viable(history, offers, a) ==
    [o \in Observers(history) \ DOMAIN a |->
        {p \in offers[o] : PrefixCompatible(history, a, o, p)}]

Decide(history, offers, f, a) ==
    LET viable == Viable(history, offers, a)
    IN  \/ Observers(history) \subseteq DOMAIN a
        \/ /\ \A o \in DOMAIN viable : viable[o] # {}
           /\ \E p \in viable[MostConstrained(viable)] : f[Assign(a, MostConstrained(viable), p)]

\* An assignment with one more observer
OneMore(history, n, a, o, p, b) ==
    /\ b \in Assignments(history, n)
    /\ DOMAIN b = DOMAIN a \cup {o} /\ b[o] = p
    /\ \A other \in DOMAIN a : b[other] = a[other]
    /\ Cardinality(Observers(history) \ DOMAIN b) < Cardinality(Observers(history) \ DOMAIN a)

LEMMA AssignmentFacts ==
    ASSUME NEW history, WellFormed(history), NEW n, NEW a \in Assignments(history, n)
    PROVE  /\ a \in [DOMAIN a -> 0 .. n] /\ DOMAIN a \subseteq Observers(history)
           /\ Cardinality(Observers(history) \ DOMAIN a) \in 0 .. Cardinality(Observers(history))
           /\ \A o \in Observers(history) \ DOMAIN a, p \in 0 .. n :
                 OneMore(history, n, a, o, p, Assign(a, o, p))
<1>1. PICK O : O = Observers(history)
  OBVIOUS
<1>2. PICK S \in SUBSET O : a \in [S -> 0 .. n]
  BY <1>1 DEF Assignments
<1>3. DOMAIN a = S
  BY <1>2
<1>4. IsFiniteSet(O) /\ Cardinality(O) \in Nat
  BY <1>1, WellFormedFacts, FS_CardinalityType
<1>5. PICK R : R = O \ S
  OBVIOUS
<1>6. IsFiniteSet(R) /\ Cardinality(R) <= Cardinality(O) /\ Cardinality(R) \in Nat
  <2>1. R \in SUBSET O
    BY <1>5
  <2>2. IsFiniteSet(R) /\ Cardinality(R) <= Cardinality(O)
    BY <1>4, <2>1, FS_Subset
  <2>3. QED
    BY <2>2, FS_CardinalityType
<1>7. ASSUME NEW o \in O \ S, NEW p \in 0 .. n
      PROVE  /\ Assign(a, o, p) \in Assignments(history, n)
             /\ DOMAIN Assign(a, o, p) = S \cup {o}
             /\ Assign(a, o, p)[o] = p
             /\ \A other \in S : Assign(a, o, p)[other] = a[other]
             /\ Cardinality(O \ DOMAIN Assign(a, o, p)) < Cardinality(R)
  <2>1. PICK b : b = Assign(a, o, p)
    OBVIOUS
  <2>2. b = [other \in S \cup {o} |-> IF other = o THEN p ELSE a[other]]
    BY <1>3, <2>1 DEF Assign
  <2>3. /\ b \in [S \cup {o} -> 0 .. n] /\ b[o] = p /\ DOMAIN b = S \cup {o}
        /\ \A other \in S : b[other] = a[other]
    BY <1>2, <2>2
  <2>4. S \cup {o} \in SUBSET O
    OBVIOUS
  <2>5. b \in Assignments(history, n)
    BY <1>1, <2>3, <2>4 DEF Assignments
  <2>6. O \ DOMAIN b = R \ {o} /\ o \in R
    BY <1>5, <2>3
  <2>7. Cardinality(R \ {o}) = Cardinality(R) - 1
    BY <1>6, <2>6, FS_RemoveElement
  <2>8. QED
    BY <1>6, <2>1, <2>3, <2>5, <2>6, <2>7
<1>8. Cardinality(O \ DOMAIN a) = Cardinality(R)
  BY <1>3, <1>5
<1>9. Cardinality(R) \in 0 .. Cardinality(O)
  BY <1>4, <1>6
<1>10. a \in [DOMAIN a -> 0 .. n] /\ DOMAIN a \subseteq Observers(history)
  BY <1>1, <1>2, <1>3
<1>11. Cardinality(Observers(history) \ DOMAIN a) \in 0 .. Cardinality(Observers(history))
  BY <1>1, <1>8, <1>9
<1>12. ASSUME NEW o \in Observers(history) \ DOMAIN a, NEW p \in 0 .. n
       PROVE  OneMore(history, n, a, o, p, Assign(a, o, p))
  <2>1. o \in O \ S
    BY <1>1, <1>3
  <2>2. /\ Assign(a, o, p) \in Assignments(history, n)
        /\ DOMAIN Assign(a, o, p) = S \cup {o}
        /\ Assign(a, o, p)[o] = p
        /\ \A other \in S : Assign(a, o, p)[other] = a[other]
        /\ Cardinality(O \ DOMAIN Assign(a, o, p)) < Cardinality(R)
    BY <1>7, <2>1
  <2>3. QED
    BY <1>1, <1>3, <1>8, <2>2 DEF OneMore
<1>13. QED
  BY <1>10, <1>11, <1>12

LEMMA ViableFacts ==
    ASSUME NEW history, NEW offers, NEW a, NEW o \in Observers(history) \ DOMAIN a
    PROVE  Viable(history, offers, a)[o] = {p \in offers[o] : PrefixCompatible(history, a, o, p)}
BY DEF Viable

LEMMA ChosenFacts ==
    ASSUME NEW history, WellFormed(history), NEW n \in Nat, NEW offers \in Offers(history, n),
           NEW a, ~ (Observers(history) \subseteq DOMAIN a)
    PROVE  /\ MostConstrained(Viable(history, offers, a)) \in Observers(history) \ DOMAIN a
           /\ DOMAIN Viable(history, offers, a) = Observers(history) \ DOMAIN a
<1>1. PICK v : v = Viable(history, offers, a)
  OBVIOUS
<1>2. PICK D : D = Observers(history) \ DOMAIN a
  OBVIOUS
<1>3. /\ DOMAIN v = D /\ D # {}
      /\ \A o \in D : v[o] = {p \in offers[o] : PrefixCompatible(history, a, o, p)}
  BY <1>1, <1>2 DEF Viable
<1>4. ASSUME NEW o \in D PROVE Cardinality(v[o]) \in Nat
  <2>1. offers[o] \subseteq 0 .. n
    BY <1>2 DEF Offers
  <2>2. v[o] \in SUBSET (0 .. n)
    BY <1>3, <2>1
  <2>3. IsFiniteSet(0 .. n)
    BY FS_Interval
  <2>4. IsFiniteSet(v[o])
    BY <2>2, <2>3, FS_Subset
  <2>5. QED
    BY <2>4, FS_CardinalityType
<1>5. PICK K : K = {Cardinality(v[o]) : o \in D}
  OBVIOUS
<1>6. K \in SUBSET Nat /\ K # {}
  BY <1>3, <1>4, <1>5
<1>7. PICK least \in K : \A k \in K : least <= k
  BY <1>6, Least
<1>8. PICK o \in D : Cardinality(v[o]) = least
  BY <1>5, <1>7
<1>9. \A other \in D : Cardinality(v[o]) <= Cardinality(v[other])
  BY <1>5, <1>7, <1>8
<1>10. MostConstrained(v) \in D
  BY <1>3, <1>9 DEF MostConstrained
<1>11. QED
  BY <1>1, <1>2, <1>3, <1>10

LEMMA DecideAgrees ==
    ASSUME NEW history, WellFormed(history), NEW n \in Nat, NEW offers \in Offers(history, n),
           NEW a \in Assignments(history, n), NEW f, NEW g,
           \A b \in Assignments(history, n) :
              Cardinality(Observers(history) \ DOMAIN b) < Cardinality(Observers(history) \ DOMAIN a)
                 => f[b] = g[b]
    PROVE  Decide(history, offers, f, a) <=> Decide(history, offers, g, a)
<1>1. CASE Observers(history) \subseteq DOMAIN a
  BY <1>1 DEF Decide
<1>2. CASE ~ (Observers(history) \subseteq DOMAIN a)
  <2>1. PICK v : v = Viable(history, offers, a)
    OBVIOUS
  <2>2. PICK o : o = MostConstrained(v)
    OBVIOUS
  <2>3. o \in Observers(history) \ DOMAIN a /\ v[o] \subseteq offers[o]
    <3>1. o \in Observers(history) \ DOMAIN a
      BY <1>2, <2>1, <2>2, ChosenFacts
    <3>2. v[o] = {p \in offers[o] : PrefixCompatible(history, a, o, p)}
      BY <2>1, <3>1, ViableFacts
    <3>3. QED
      BY <3>1, <3>2
  <2>4. offers[o] \subseteq 0 .. n
    BY <2>3 DEF Offers
  <2>5. ASSUME NEW p \in v[o] PROVE f[Assign(a, o, p)] = g[Assign(a, o, p)]
    <3>1. p \in 0 .. n
      BY <2>3, <2>4
    <3>2. QED
      BY <2>3, <3>1, AssignmentFacts DEF OneMore
  <2>6. (\E p \in v[o] : f[Assign(a, o, p)]) <=> (\E p \in v[o] : g[Assign(a, o, p)])
    BY <2>5
  <2>7. QED
    BY <2>1, <2>2, <2>6 DEF Decide
<1>3. QED
  BY <1>1, <1>2

ObserverSearch(history, offers, n) ==
    LET search[a \in Assignments(history, n)] == Decide(history, offers, search, a) IN search

LEMMA ObserverSearchFacts ==
    ASSUME NEW history, WellFormed(history), NEW n \in Nat, NEW offers \in Offers(history, n)
    PROVE  /\ \A a \in Assignments(history, n) :
                 ObserverSearch(history, offers, n)[a]
                     <=> Decide(history, offers, ObserverSearch(history, offers, n), a)
           /\ SearchObserverPrefixes(history, offers, n) = ObserverSearch(history, offers, n)[<<>>]
<1> DEFINE S == Assignments(history, n)
           M == Cardinality(Observers(history))
           m == [a \in S |-> Cardinality(Observers(history) \ DOMAIN a)]
           e == [f \in [S -> BOOLEAN] |-> [a \in S |-> Decide(history, offers, f, a)]]
<1>1. M \in Nat /\ m \in [S -> 0 .. M]
  <2>1. M \in Nat
    BY WellFormedFacts, FS_CardinalityType
  <2>2. \A a \in S : Cardinality(Observers(history) \ DOMAIN a) \in 0 .. M
    BY AssignmentFacts
  <2>3. QED
    BY <2>1, <2>2
<1>2. \A f, a : Decide(history, offers, f, a) \in BOOLEAN
  BY DEF Decide
<1>3. e \in [[S -> BOOLEAN] -> [S -> BOOLEAN]]
  BY <1>2
<1>4. ASSUME NEW f \in [S -> BOOLEAN], NEW g \in [S -> BOOLEAN], NEW a \in S,
             \A b \in S : m[b] < m[a] => f[b] = g[b]
      PROVE  e[f][a] = e[g][a]
  <2>1. \A b \in S : Cardinality(Observers(history) \ DOMAIN b)
                        < Cardinality(Observers(history) \ DOMAIN a) => f[b] = g[b]
    BY <1>4
  <2>2. Decide(history, offers, f, a) <=> Decide(history, offers, g, a)
    BY <2>1, DecideAgrees
  <2>3. Decide(history, offers, f, a) = Decide(history, offers, g, a)
    BY <1>2, <2>2
  <2>4. QED
    BY <2>3
<1>5. PICK f \in [S -> BOOLEAN] : e[f] = f
  <2>1. \A f, g \in [S -> BOOLEAN], a \in S :
            (\A b \in S : m[b] < m[a] => f[b] = g[b]) => e[f][a] = e[g][a]
    <3> HIDE DEF e, m
    <3>1. QED
      BY <1>4
  <2>2. Descends(e, S, BOOLEAN, m)
    <3> HIDE DEF e, m
    <3>1. QED
      BY <1>3, <2>1 DEF Descends
  <2>3. \E f : Fixed(f, e, S, BOOLEAN)
    <3> HIDE DEF S, M, m, e
    <3>1. QED
      BY <1>1, <2>2, Recursion
  <2>4. QED
    <3> HIDE DEF S, M, m, e
    <3>1. QED
      BY <2>3 DEF Fixed
<1>6. f = [a \in S |-> Decide(history, offers, f, a)]
  BY <1>5
<1> DEFINE Search(s) == s = [a \in S |-> Decide(history, offers, s, a)]
           h == CHOOSE s : Search(s)
<1>7. Search(h)
  BY <1>6
<1>8. ObserverSearch(history, offers, n) = h
  BY DEF ObserverSearch
<1>9. SearchObserverPrefixes(history, offers, n) = h[<<>>]
  BY DEF SearchObserverPrefixes, Decide, Viable
<1> HIDE DEF h
<1>10. \A a \in S : h[a] = Decide(history, offers, h, a)
  BY <1>7
<1>11. QED
  BY <1>8, <1>9, <1>10

\* The search of the observers goes by what can still be completed
CanSeat(history, offers, n, a) ==
    \E all : AllSeated(history, offers, n, all) /\ \A o \in DOMAIN a : all[o] = a[o]

LEMMA AssignSeated ==
    ASSUME NEW history, WellFormed(history), NEW n \in Nat, NEW offers \in Offers(history, n),
           NEW a \in Assignments(history, n), Seated(history, offers, a),
           NEW o \in Observers(history) \ DOMAIN a, NEW p \in offers[o]
    PROVE  PrefixCompatible(history, a, o, p) <=> Seated(history, offers, Assign(a, o, p))
<1>1. p \in 0 .. n
  BY DEF Offers
<1>2. PICK b : b = Assign(a, o, p)
  OBVIOUS
<1>3. /\ DOMAIN b = DOMAIN a \cup {o} /\ b[o] = p
      /\ \A other \in DOMAIN a : b[other] = a[other]
  <2>1. OneMore(history, n, a, o, p, b)
    BY <1>1, <1>2, AssignmentFacts
  <2>2. QED
    BY <2>1 DEF OneMore
<1>4. \A other \in DOMAIN b : b[other] \in offers[other]
  BY <1>3 DEF Seated
<1>5. o \in DOMAIN history.transactions
  BY DEF Observers
<1>6. PICK txs : txs = history.transactions
  OBVIOUS
<1>7. ~ Precedes(txs[o], txs[o])
  <2>1. o \in Nat
    BY <1>5, WellFormedFacts
  <2>2. Precedes(txs[o], txs[o]) => o < o
    BY <1>5, <1>6, WellFormedFacts
  <2>3. QED
    BY <2>1, <2>2
<1>8. ASSUME PrefixCompatible(history, a, o, p), NEW x \in DOMAIN b, NEW y \in DOMAIN b,
             Precedes(txs[x], txs[y])
      PROVE  b[x] <= b[y]
  <2>1. x \in DOMAIN a \/ x = o
    BY <1>3
  <2>2. y \in DOMAIN a \/ y = o
    BY <1>3
  <2>3. CASE x \in DOMAIN a /\ y \in DOMAIN a
    BY <1>3, <1>6, <1>8, <2>3 DEF Seated, FitTogether
  <2>4. CASE x \in DOMAIN a /\ y = o
    BY <1>3, <1>6, <1>8, <2>4 DEF PrefixCompatible
  <2>5. CASE x = o /\ y \in DOMAIN a
    BY <1>3, <1>6, <1>8, <2>5 DEF PrefixCompatible
  <2>6. CASE x = o /\ y = o
    BY <1>7, <1>8, <2>6
  <2>7. QED
    BY <2>1, <2>2, <2>3, <2>4, <2>5, <2>6
<1>9. ASSUME FitTogether(history, b) PROVE PrefixCompatible(history, a, o, p)
  <2>1. ASSUME NEW other \in DOMAIN a
        PROVE  /\ Precedes(txs[other], txs[o]) => a[other] <= p
               /\ Precedes(txs[o], txs[other]) => p <= a[other]
    <3>1. other \in DOMAIN b /\ o \in DOMAIN b /\ b[other] = a[other] /\ b[o] = p
      BY <1>3
    <3>2. QED
      BY <1>6, <1>9, <3>1 DEF FitTogether
  <2>2. QED
    BY <1>6, <2>1 DEF PrefixCompatible
<1>10. QED
  BY <1>2, <1>4, <1>6, <1>8, <1>9 DEF Seated, FitTogether

LEMMA DecideTruth ==
    ASSUME NEW history, WellFormed(history), NEW n \in Nat, NEW offers \in Offers(history, n),
           NEW a \in Assignments(history, n), Seated(history, offers, a), NEW f,
           \A b \in Assignments(history, n) :
              Cardinality(Observers(history) \ DOMAIN b) < Cardinality(Observers(history) \ DOMAIN a)
                 /\ Seated(history, offers, b) => (f[b] <=> CanSeat(history, offers, n, b))
    PROVE  Decide(history, offers, f, a) <=> CanSeat(history, offers, n, a)
<1>1. PICK O : O = Observers(history)
  OBVIOUS
<1>2. a \in [DOMAIN a -> 0 .. n] /\ DOMAIN a \subseteq O
  BY <1>1, AssignmentFacts
<1>3. CASE O \subseteq DOMAIN a
  <2>1. DOMAIN a = O
    BY <1>2, <1>3
  <2>2. AllSeated(history, offers, n, a)
    BY <1>1, <1>2, <2>1 DEF AllSeated
  <2>3. CanSeat(history, offers, n, a)
    BY <2>2 DEF CanSeat
  <2>4. QED
    BY <1>1, <1>3, <2>3 DEF Decide
<1>4. CASE ~ (O \subseteq DOMAIN a)
  <2>1. PICK v : v = Viable(history, offers, a)
    OBVIOUS
  <2>2. PICK o : o = MostConstrained(v)
    OBVIOUS
  <2>3. /\ o \in O \ DOMAIN a /\ DOMAIN v = O \ DOMAIN a
        /\ \A x \in O \ DOMAIN a : v[x] = {p \in offers[x] : PrefixCompatible(history, a, x, p)}
    <3>1. o \in O \ DOMAIN a /\ DOMAIN v = O \ DOMAIN a
      BY <1>1, <1>4, <2>1, <2>2, ChosenFacts
    <3>2. \A x \in O \ DOMAIN a : v[x] = {p \in offers[x] : PrefixCompatible(history, a, x, p)}
      BY <1>1, <2>1, ViableFacts
    <3>3. QED
      BY <3>1, <3>2
  <2>4. Decide(history, offers, f, a)
           <=> (\A x \in O \ DOMAIN a : v[x] # {}) /\ \E p \in v[o] : f[Assign(a, o, p)]
    BY <1>1, <1>4, <2>1, <2>2, <2>3 DEF Decide
  <2>5. ASSUME NEW p \in v[o]
        PROVE  /\ p \in 0 .. n
               /\ f[Assign(a, o, p)] <=> CanSeat(history, offers, n, Assign(a, o, p))
    <3>1. p \in offers[o] /\ PrefixCompatible(history, a, o, p)
      BY <2>3
    <3>2. p \in 0 .. n
      BY <1>1, <2>3, <3>1 DEF Offers
    <3>3. Seated(history, offers, Assign(a, o, p))
      BY <1>1, <2>3, <3>1, AssignSeated
    <3>4. /\ Assign(a, o, p) \in Assignments(history, n)
          /\ Cardinality(Observers(history) \ DOMAIN Assign(a, o, p))
                < Cardinality(Observers(history) \ DOMAIN a)
      BY <1>1, <2>3, <3>2, AssignmentFacts DEF OneMore
    <3>5. QED
      BY <3>2, <3>3, <3>4
  <2>6. ASSUME NEW p \in v[o], CanSeat(history, offers, n, Assign(a, o, p))
        PROVE  CanSeat(history, offers, n, a)
    <3>1. PICK all : /\ AllSeated(history, offers, n, all)
                     /\ \A x \in DOMAIN Assign(a, o, p) : all[x] = Assign(a, o, p)[x]
      BY <2>6 DEF CanSeat
    <3>2. /\ DOMAIN Assign(a, o, p) = DOMAIN a \cup {o}
          /\ \A x \in DOMAIN a : Assign(a, o, p)[x] = a[x]
      <4>1. OneMore(history, n, a, o, p, Assign(a, o, p))
        BY <1>1, <2>3, <2>5, AssignmentFacts
      <4>2. QED
        BY <4>1 DEF OneMore
    <3>3. \A x \in DOMAIN a : all[x] = a[x]
      BY <3>1, <3>2
    <3>4. QED
      BY <3>1, <3>3 DEF CanSeat
  <2>7. ASSUME CanSeat(history, offers, n, a)
        PROVE  /\ \A x \in O \ DOMAIN a : v[x] # {}
               /\ \E p \in v[o] : CanSeat(history, offers, n, Assign(a, o, p))
    <3>1. PICK all : AllSeated(history, offers, n, all) /\ \A x \in DOMAIN a : all[x] = a[x]
      BY <2>7 DEF CanSeat
    <3>2. /\ all \in [O -> 0 .. n] /\ \A x \in O : all[x] \in offers[x]
          /\ FitTogether(history, all)
      BY <1>1, <3>1 DEF AllSeated, Seated
    <3>3. ASSUME NEW x \in O \ DOMAIN a PROVE all[x] \in v[x]
      <4>1. ASSUME NEW other \in DOMAIN a
            PROVE  /\ Precedes(history.transactions[other], history.transactions[x]) => a[other] <= all[x]
                   /\ Precedes(history.transactions[x], history.transactions[other]) => all[x] <= a[other]
        <5>1. other \in DOMAIN all /\ x \in DOMAIN all /\ all[other] = a[other]
          BY <1>2, <3>1, <3>2
        <5>2. QED
          BY <3>2, <5>1 DEF FitTogether
      <4>2. PrefixCompatible(history, a, x, all[x])
        BY <4>1 DEF PrefixCompatible
      <4>3. QED
        BY <2>3, <3>2, <4>2
    <3>4. PICK p : p = all[o]
      OBVIOUS
    <3>5. p \in v[o] /\ p \in 0 .. n
      BY <2>3, <2>5, <3>3, <3>4
    <3>6. /\ DOMAIN Assign(a, o, p) = DOMAIN a \cup {o} /\ Assign(a, o, p)[o] = p
          /\ \A x \in DOMAIN a : Assign(a, o, p)[x] = a[x]
      <4>1. OneMore(history, n, a, o, p, Assign(a, o, p))
        BY <1>1, <2>3, <3>5, AssignmentFacts
      <4>2. QED
        BY <4>1 DEF OneMore
    <3>7. \A x \in DOMAIN Assign(a, o, p) : all[x] = Assign(a, o, p)[x]
      BY <3>1, <3>4, <3>6
    <3>8. CanSeat(history, offers, n, Assign(a, o, p))
      BY <3>1, <3>7 DEF CanSeat
    <3>9. QED
      BY <3>3, <3>5, <3>8
  <2>8. QED
    BY <2>4, <2>5, <2>6, <2>7
<1>5. QED
  BY <1>3, <1>4

LEMMA ObserverSearchTruth ==
    ASSUME NEW history, WellFormed(history), NEW n \in Nat, NEW offers \in Offers(history, n)
    PROVE  SearchObserverPrefixes(history, offers, n)
              <=> \E all : AllSeated(history, offers, n, all)
<1>1. PICK S : S = Assignments(history, n)
  OBVIOUS
<1>2. PICK M \in Nat : M = Cardinality(Observers(history))
  BY WellFormedFacts, FS_CardinalityType
<1>3. PICK f : f = ObserverSearch(history, offers, n)
  OBVIOUS
<1>4. \A a \in S : f[a] <=> Decide(history, offers, f, a)
  BY <1>1, <1>3, ObserverSearchFacts
<1> DEFINE Rest(a) == Cardinality(Observers(history) \ DOMAIN a)
           T == {i \in 0 .. M + 1 : \A a \in S :
                    Rest(a) < i /\ Seated(history, offers, a) => (f[a] <=> CanSeat(history, offers, n, a))}
<1>5. \A a \in S : Rest(a) \in 0 .. M
  BY <1>1, <1>2, AssignmentFacts
<1>6. 0 \in T
  <2>1. \A a \in S : ~ Rest(a) < 0
    BY <1>5
  <2> HIDE DEF Rest
  <2>2. QED
    BY <2>1
<1>7. ASSUME NEW i \in 1 .. M + 1, i - 1 \in T PROVE i \in T
  <2>1. ASSUME NEW a \in S, Rest(a) < i, Seated(history, offers, a)
        PROVE  f[a] <=> CanSeat(history, offers, n, a)
    <3>1. ASSUME NEW b \in S, Rest(b) < Rest(a), Seated(history, offers, b)
          PROVE  f[b] <=> CanSeat(history, offers, n, b)
      <4>1. Rest(a) \in Int /\ Rest(b) \in Int
        BY <1>5
      <4> HIDE DEF Rest
      <4>2. Rest(b) < i - 1
        BY <2>1, <3>1, <4>1
      <4>3. QED
        BY <1>7, <3>1, <4>2
    <3>2. Decide(history, offers, f, a) <=> CanSeat(history, offers, n, a)
      <4> HIDE DEF T
      <4>1. QED
        BY <1>1, <2>1, <3>1, DecideTruth
    <3>3. QED
      BY <1>4, <3>2
  <2>2. QED
    <3> HIDE DEF Rest
    <3>1. QED
      BY <2>1
<1>8. M + 1 \in T
  <2>1. M + 1 \in Nat /\ M + 1 \in 0 .. M + 1
    OBVIOUS
  <2> HIDE DEF T
  <2>2. 0 .. M + 1 \subseteq T
    BY <1>6, <1>7, <2>1, Climb
  <2>3. QED
    BY <2>1, <2>2
<1>9. PICK none : none = <<>>
  OBVIOUS
<1>10. none \in S /\ DOMAIN none = {}
  <2>1. <<>> \in [{} -> 0 .. n] /\ DOMAIN <<>> = {}
    OBVIOUS
  <2>2. {} \in SUBSET Observers(history)
    OBVIOUS
  <2>3. QED
    BY <1>1, <1>9, <2>1, <2>2 DEF Assignments
<1>11. Seated(history, offers, none)
  BY <1>10 DEF Seated, FitTogether
<1>12. f[none] <=> CanSeat(history, offers, n, none)
  <2>1. Rest(none) < M + 1
    BY <1>5, <1>10
  <2> HIDE DEF Rest
  <2>2. QED
    BY <1>8, <1>10, <1>11, <2>1
<1>13. CanSeat(history, offers, n, none) <=> \E all : AllSeated(history, offers, n, all)
  BY <1>10 DEF CanSeat
<1>14. SearchObserverPrefixes(history, offers, n) = f[none]
  BY <1>3, <1>9, ObserverSearchFacts
<1>15. QED
  BY <1>12, <1>13, <1>14

OffersOf(history, order) ==
    [o \in Observers(history) |->
        {p \in 0 .. Len(order) : /\ PrefixRespectsRealTime(history, o, order, p)
                                 /\ ReadsValid(history.transactions[o], StatesAfter(history, order)[p])}]

LEMMA ObserversTruth ==
    ASSUME NEW history, WellFormed(history), NEW order, Arranged(history, order)
    PROVE  VerifyObservers(history, order)
              <=> \E all : AllSeated(history, OffersOf(history, order), Len(order), all)
<1>1. PICK n \in Nat : n = Len(order)
  BY ArrangedFacts
<1>2. PICK offers : offers = OffersOf(history, order)
  OBVIOUS
<1>3. offers \in Offers(history, n)
  BY <1>1, <1>2 DEF OffersOf, Offers
<1>4. VerifyObservers(history, order)
         <=> (\A o \in Observers(history) : offers[o] # {}) /\ SearchObserverPrefixes(history, offers, n)
  BY <1>1, <1>2 DEF VerifyObservers, OffersOf
<1>5. SearchObserverPrefixes(history, offers, n) <=> \E all : AllSeated(history, offers, n, all)
  BY <1>3, ObserverSearchTruth
<1>6. ASSUME NEW all, AllSeated(history, offers, n, all), NEW o \in Observers(history)
      PROVE  offers[o] # {}
  BY <1>6 DEF AllSeated, Seated
<1>7. QED
  BY <1>1, <1>2, <1>4, <1>5, <1>6

-----------------------------------------------------------------------------
(* An order of the committed transactions with a prefix for each observer  *)
(* is an order of all transactions.                                        *)

Sooner(level, tie, i, j) == level[i] < level[j] \/ (level[i] = level[j] /\ tie[i] < tie[j])

\* The places by two keys
RanksBy(place, S, level, tie) ==
    /\ place \in [S -> 1 .. Cardinality(S)]
    /\ \A i, j \in S : i # j => place[i] # place[j]
    /\ \A i, j \in S : place[i] < place[j] <=> Sooner(level, tie, i, j)

LEMMA Ranking ==
    ASSUME NEW S, IsFiniteSet(S), NEW level \in [S -> Nat], NEW tie \in [S -> Nat],
           \A i, j \in S : i # j => level[i] # level[j] \/ tie[i] # tie[j]
    PROVE  \E place : RanksBy(place, S, level, tie)
<1> DEFINE UpTo(i) == {j \in S : j = i \/ Sooner(level, tie, j, i)}
<1>1. PICK place : place = [i \in S |-> Cardinality(UpTo(i))]
  OBVIOUS
<1>2. Cardinality(S) \in Nat
  BY FS_CardinalityType
<1>3. ASSUME NEW i \in S
      PROVE  /\ place[i] = Cardinality(UpTo(i)) /\ place[i] \in 1 .. Cardinality(S)
             /\ IsFiniteSet(UpTo(i)) /\ i \in UpTo(i)
  <2>1. i \in UpTo(i) /\ UpTo(i) \in SUBSET S
    OBVIOUS
  <2>2. place[i] = Cardinality(UpTo(i))
    BY <1>1
  <2> HIDE DEF UpTo
  <2>3. IsFiniteSet(UpTo(i)) /\ Cardinality(UpTo(i)) <= Cardinality(S)
    BY <2>1, FS_Subset
  <2>4. Cardinality(UpTo(i)) \in Nat
    BY <2>3, FS_CardinalityType
  <2>5. Cardinality(UpTo(i)) # 0
    BY <2>1, <2>3, FS_EmptySet
  <2>6. QED
    BY <1>2, <2>1, <2>2, <2>3, <2>4, <2>5
<1>4. ASSUME NEW i \in S, NEW j \in S, Sooner(level, tie, i, j) PROVE place[i] < place[j]
  <2>1. level[i] \in Nat /\ level[j] \in Nat /\ tie[i] \in Nat /\ tie[j] \in Nat
    OBVIOUS
  <2>2. UpTo(i) \subseteq UpTo(j)
    <3>1. ASSUME NEW k \in S, k = i \/ Sooner(level, tie, k, i) PROVE Sooner(level, tie, k, j)
      <4>1. level[k] \in Nat /\ tie[k] \in Nat
        OBVIOUS
      <4>2. QED
        BY <1>4, <2>1, <3>1, <4>1 DEF Sooner
    <3>2. QED
      BY <3>1
  <2>3. j \notin UpTo(i)
    BY <1>4, <2>1 DEF Sooner
  <2>4. j \in UpTo(j) /\ IsFiniteSet(UpTo(j))
    <3> HIDE DEF UpTo
    <3>1. QED
      BY <1>3
  <2> HIDE DEF UpTo
  <2>5. /\ Cardinality(UpTo(i)) <= Cardinality(UpTo(j))
        /\ Cardinality(UpTo(j)) = Cardinality(UpTo(i)) => UpTo(j) = UpTo(i)
    BY <2>2, <2>4, FS_Subset
  <2>6. Cardinality(UpTo(j)) # Cardinality(UpTo(i))
    BY <2>3, <2>4, <2>5
  <2>7. place[i] = Cardinality(UpTo(i)) /\ place[j] = Cardinality(UpTo(j))
        /\ place[i] \in Nat /\ place[j] \in Nat
    <3>1. place[i] \in 1 .. Cardinality(S) /\ place[j] \in 1 .. Cardinality(S)
      BY <1>3
    <3>2. QED
      BY <1>2, <1>3, <3>1
  <2>8. QED
    BY <2>5, <2>6, <2>7
<1>5. ASSUME NEW i \in S, NEW j \in S, i # j
      PROVE  Sooner(level, tie, i, j) \/ Sooner(level, tie, j, i)
  <2>1. level[i] \in Nat /\ level[j] \in Nat /\ tie[i] \in Nat /\ tie[j] \in Nat
    OBVIOUS
  <2>2. level[i] # level[j] \/ tie[i] # tie[j]
    BY <1>5
  <2>3. QED
    BY <2>1, <2>2 DEF Sooner
<1> HIDE DEF UpTo
<1>6. place \in [S -> 1 .. Cardinality(S)]
  BY <1>1, <1>3
<1>7. \A i \in S : place[i] \in Nat
  BY <1>2, <1>6
<1>8. \A i, j \in S : i # j => place[i] # place[j]
  BY <1>4, <1>5, <1>7
<1>9. ASSUME NEW i \in S, NEW j \in S, place[i] < place[j] PROVE Sooner(level, tie, i, j)
  <2>1. i # j /\ ~ place[j] < place[i]
    BY <1>7, <1>9
  <2>2. QED
    BY <1>4, <1>5, <2>1
<1>10. RanksBy(place, S, level, tie)
  BY <1>4, <1>6, <1>8, <1>9 DEF RanksBy
<1>11. QED
  BY <1>10

\* An order of the committed transactions is that of their places
SameOrder(order, place) ==
    \A k, l \in DOMAIN order : k < l => place[order[k]] < place[order[l]]

\* What a transaction sees is the state after those of the order that are placed before it
LEMMA StateThere ==
    ASSUME NEW history, WellFormed(history), NEW order, Arranged(history, order),
           Placed(order) = Committed(history), NEW place \in Places(history),
           SameOrder(order, place), NEW i \in DOMAIN history.transactions,
           NEW m \in 0 .. Len(order),
           \A l \in 1 .. Len(order) : place[order[l]] < place[i] <=> l <= m
    PROVE  StateBefore(history, place, i) = StatesAfter(history, order)[m]
<1>1. PICK C : C = Committed(history)
  OBVIOUS
<1>2. PICK txs : txs = history.transactions
  OBVIOUS
<1>3. PICK n : n = Len(order)
  OBVIOUS
<1>4. /\ n \in Nat /\ DOMAIN order = 1 .. n /\ C = {order[k] : k \in 1 .. n}
      /\ \A k \in 1 .. n : order[k] \in C
      /\ \A k, l \in 1 .. n : order[k] = order[l] => k = l
  BY <1>1, <1>3, ArrangedFacts DEF Arranged
<1>5. C \subseteq DOMAIN txs /\ DOMAIN txs \subseteq Nat
  <2>1. C \subseteq DOMAIN txs
    BY <1>1, <1>2 DEF Committed
  <2>2. DOMAIN txs = 1 .. Len(txs) /\ Len(txs) \in Nat
    BY <1>2, WellFormedFacts
  <2>3. QED
    BY <2>1, <2>2
<1>6. /\ \A j \in DOMAIN txs : place[j] \in Nat
      /\ \A j, k \in DOMAIN txs : place[j] = place[k] => j = k
  BY <1>2, <1>5 DEF Places
<1> DEFINE Earlier(x) == {j \in C : place[j] < place[i] /\ x \in DOMAIN FinalWrites(txs[j])}
           Last(x) == CHOOSE j \in Earlier(x) : \A k \in Earlier(x) : place[k] <= place[j]
           Value(x) == IF Earlier(x) = {} THEN history.initial[x] ELSE FinalWrites(txs[Last(x)])[x]
<1>7. StateBefore(history, place, i) = [x \in DOMAIN history.initial |-> Value(x)]
  BY <1>1, <1>2 DEF StateBefore
<1>8. ASSUME NEW x PROVE Value(x) = Holding(history, order, m, x)
  <2>1. PICK W : W = WritesTo(history, order, m, x)
    OBVIOUS
  <2>2. /\ W \in SUBSET (1 .. m) /\ m \in Nat /\ m <= n
        /\ \A l \in 1 .. m : l \in W <=> x \in DOMAIN FinalWrites(txs[order[l]])
    BY <1>2, <1>3, <1>4, <2>1 DEF WritesTo
  <2>3. PICK E : E = Earlier(x)
    OBVIOUS
  <2>4. ASSUME NEW j \in E PROVE \E l \in W : order[l] = j
    <3>1. j \in C /\ place[j] < place[i] /\ x \in DOMAIN FinalWrites(txs[j])
      BY <2>3
    <3>2. PICK l \in 1 .. n : order[l] = j
      BY <1>4, <3>1
    <3>3. l <= m
      BY <1>3, <3>1, <3>2
    <3>4. l \in 1 .. m
      BY <1>4, <2>2, <3>2, <3>3
    <3>5. QED
      BY <2>2, <3>1, <3>2, <3>4
  <2>5. ASSUME NEW l \in W PROVE order[l] \in E
    <3>1. l \in 1 .. n /\ l <= m
      BY <1>4, <2>2
    <3>2. order[l] \in C /\ place[order[l]] < place[i]
      BY <1>3, <1>4, <3>1
    <3>3. QED
      BY <2>2, <2>3, <3>2
  <2>6. CASE W = {}
    <3>1. E = {}
      BY <2>4, <2>6
    <3>2. Latest(W) = 0
      BY <2>2, <2>6, LatestFacts
    <3>3. QED
      BY <2>1, <2>3, <3>1, <3>2 DEF Holding
  <2>7. CASE W # {}
    <3>1. PICK l : l = Latest(W)
      OBVIOUS
    <3>2. l \in W /\ \A k \in W : k <= l
      BY <2>2, <2>7, <3>1, LatestFacts
    <3>3. l \in 1 .. n /\ l # 0
      BY <1>4, <2>2, <3>2
    <3>4. order[l] \in E
      BY <2>5, <3>2
    <3>5. ASSUME NEW k \in E PROVE place[k] <= place[order[l]]
      <4>1. PICK d \in W : order[d] = k
        BY <2>4
      <4>2. d <= l /\ d \in 1 .. n
        BY <1>4, <2>2, <3>2
      <4>3. order[d] \in DOMAIN txs /\ order[l] \in DOMAIN txs
        BY <1>4, <1>5, <3>3, <4>2
      <4>4. CASE d = l
        BY <1>6, <4>1, <4>3, <4>4
      <4>5. CASE d < l
        <5>1. place[order[d]] < place[order[l]]
          BY <1>4, <3>3, <4>2, <4>5 DEF SameOrder
        <5>2. place[order[d]] \in Nat /\ place[order[l]] \in Nat
          BY <1>6, <4>3
        <5>3. QED
          BY <4>1, <5>1, <5>2
      <4>6. QED
        BY <1>4, <3>3, <4>2, <4>4, <4>5
    <3>6. E \subseteq DOMAIN txs
      BY <1>5, <2>3
    <3>7. Last(x) = order[l]
      <4>1. PICK j : j = Last(x)
        OBVIOUS
      <4>2. j \in E /\ \A k \in E : place[k] <= place[j]
        <5>1. j = CHOOSE y \in E : \A k \in E : place[k] <= place[y]
          BY <2>3, <4>1
        <5>2. \E y \in E : \A k \in E : place[k] <= place[y]
          BY <3>4, <3>5
        <5>3. QED
          BY <5>1, <5>2
      <4>3. place[j] <= place[order[l]] /\ place[order[l]] <= place[j]
        BY <3>4, <3>5, <4>2
      <4>4. place[j] = place[order[l]]
        BY <1>6, <3>4, <3>6, <4>2, <4>3
      <4>5. QED
        BY <1>6, <3>4, <3>6, <4>1, <4>2, <4>4
    <3>8. Value(x) = FinalWrites(txs[order[l]])[x]
      <4> HIDE DEF Last
      <4>1. QED
        BY <2>3, <3>4, <3>7
    <3>9. Holding(history, order, m, x) = FinalWrites(txs[order[l]])[x]
      BY <1>2, <2>1, <3>1, <3>3 DEF Holding
    <3>10. QED
      BY <3>8, <3>9
  <2>8. QED
    BY <2>6, <2>7
<1>9. StatesAfter(history, order)[m] = [x \in DOMAIN history.initial |-> Holding(history, order, m, x)]
  BY StatesHold
<1> HIDE DEF Value
<1>10. QED
  BY <1>7, <1>8, <1>9

LEMMA PlaceType ==
    ASSUME NEW history, WellFormed(history), NEW place \in Places(history)
    PROVE  /\ \A i \in DOMAIN history.transactions : place[i] \in Nat
           /\ \A i, j \in DOMAIN history.transactions : place[i] = place[j] => i = j
           /\ Committed(history) \subseteq DOMAIN history.transactions
           /\ Observers(history) \subseteq DOMAIN history.transactions
           /\ \A i \in DOMAIN history.transactions :
                 i \in Committed(history) \/ i \in Observers(history)
<1>1. DOMAIN history.transactions \subseteq Nat
  BY DEF WellFormed
<1>2. QED
  BY <1>1 DEF Places, Committed, Observers

LEMMA WitnessFromSeats ==
    ASSUME NEW history, WellFormed(history), NEW order, Full(history, order),
           NEW all, AllSeated(history, OffersOf(history, order), Len(order), all)
    PROVE  Witness(history, order)
<1>1. PICK C : C = Committed(history)
  OBVIOUS
<1>2. PICK O : O = Observers(history)
  OBVIOUS
<1>3. PICK txs : txs = history.transactions
  OBVIOUS
<1>4. PICK n : n = Len(order)
  OBVIOUS
<1>5. PICK N : N = DOMAIN txs
  OBVIOUS
<1>6. Arranged(history, order) /\ Placed(order) = C
  BY <1>1 DEF Full, Serial
<1>7. /\ n \in Nat /\ DOMAIN order = 1 .. n /\ C = {order[k] : k \in 1 .. n}
      /\ \A k \in 1 .. n : order[k] \in C
      /\ \A k, l \in 1 .. n : order[k] = order[l] => k = l
  BY <1>1, <1>4, <1>6, ArrangedFacts DEF Arranged
<1>8. N = 1 .. Len(txs) /\ Len(txs) \in Nat
  BY <1>3, <1>5, WellFormedFacts
<1>9. IsFiniteSet(N) /\ Cardinality(N) = Len(txs)
  <2>1. PICK m \in Nat : m = Len(txs)
    BY <1>8
  <2>2. IsFiniteSet(1 .. m) /\ Cardinality(1 .. m) = IF 1 > m THEN 0 ELSE m - 1 + 1
    BY FS_Interval
  <2>3. Cardinality(1 .. m) = m
    BY <2>2
  <2>4. QED
    BY <1>8, <2>1, <2>2, <2>3
<1>10. C \subseteq N /\ O \subseteq N /\ (\A i \in N : i \in C <=> i \notin O)
  BY <1>1, <1>2, <1>3, <1>5 DEF Committed, Observers
<1>11. PICK position : position = [c \in C |-> CHOOSE k \in 1 .. n : order[k] = c]
  OBVIOUS
<1>12. \A k \in 1 .. n : position[order[k]] = k
  <2>1. ASSUME NEW k \in 1 .. n PROVE position[order[k]] = k
    <3>1. order[k] \in C
      BY <1>7
    <3>2. position[order[k]] = CHOOSE l \in 1 .. n : order[l] = order[k]
      BY <1>11, <3>1
    <3>3. \A l \in 1 .. n : order[l] = order[k] <=> l = k
      BY <1>7
    <3>4. QED
      BY <3>2, <3>3
  <2>2. QED
    BY <2>1
<1>13. /\ \A o \in O : all[o] \in 0 .. n
       /\ \A o \in O : /\ PrefixRespectsRealTime(history, o, order, all[o])
                       /\ ReadsValid(txs[o], StatesAfter(history, order)[all[o]])
       /\ \A other, o \in O : Precedes(txs[other], txs[o]) => all[other] <= all[o]
  <2>1. all \in [O -> 0 .. n] /\ (\A o \in O : all[o] \in OffersOf(history, order)[o])
        /\ FitTogether(history, all)
    BY <1>2, <1>4 DEF AllSeated, Seated
  <2>2. ASSUME NEW o \in O
        PROVE  /\ PrefixRespectsRealTime(history, o, order, all[o])
               /\ ReadsValid(txs[o], StatesAfter(history, order)[all[o]])
    <3>1. all[o] \in OffersOf(history, order)[o]
      BY <2>1
    <3>2. QED
      BY <1>2, <1>3, <3>1 DEF OffersOf
  <2>3. \A other, o \in O : Precedes(txs[other], txs[o]) => all[other] <= all[o]
    BY <1>3, <2>1 DEF FitTogether
  <2>4. QED
    BY <2>1, <2>2, <2>3
<1>14. PICK level : level = [i \in N |-> IF i \in C THEN position[i] ELSE all[i]]
  OBVIOUS
<1>15. PICK tie : tie = [i \in N |-> IF i \in C THEN 0 ELSE i]
  OBVIOUS
<1>16. /\ \A k \in 1 .. n : order[k] \in N /\ level[order[k]] = k /\ tie[order[k]] = 0
       /\ \A o \in O : level[o] = all[o] /\ tie[o] = o /\ o \in Nat /\ o > 0 /\ o \in N
  BY <1>7, <1>8, <1>10, <1>12, <1>14, <1>15
<1>17. \A i \in N : i \in O \/ \E k \in 1 .. n : i = order[k]
  BY <1>7, <1>10
<1>18. level \in [N -> Nat] /\ tie \in [N -> Nat]
  <2>1. ASSUME NEW i \in N PROVE level[i] \in Nat /\ tie[i] \in Nat
    BY <1>7, <1>13, <1>16, <1>17
  <2>2. QED
    BY <1>14, <1>15, <2>1
<1>19. ASSUME NEW i \in N, NEW j \in N, i # j PROVE level[i] # level[j] \/ tie[i] # tie[j]
  <2>1. CASE i \in O /\ j \in O
    BY <1>16, <1>19, <2>1
  <2>2. CASE i \in O /\ j \notin O
    BY <1>16, <1>17, <2>2
  <2>3. CASE i \notin O /\ j \in O
    BY <1>16, <1>17, <2>3
  <2>4. CASE i \notin O /\ j \notin O
    BY <1>16, <1>17, <1>19, <2>4
  <2>5. QED
    BY <2>1, <2>2, <2>3, <2>4
<1>20. PICK place : RanksBy(place, N, level, tie)
  BY <1>9, <1>18, <1>19, Ranking
<1>21. /\ place \in [N -> N] /\ \A i, j \in N : i # j => place[i] # place[j]
       /\ \A i, j \in N : place[i] < place[j] <=> Sooner(level, tie, i, j)
  BY <1>8, <1>9, <1>20 DEF RanksBy
<1>22. place \in Places(history)
  BY <1>3, <1>5, <1>21 DEF Places
<1>23. SameOrder(order, place)
  <2>1. ASSUME NEW k \in 1 .. n, NEW l \in 1 .. n, k < l PROVE place[order[k]] < place[order[l]]
    <3>1. Sooner(level, tie, order[k], order[l])
      BY <1>16, <2>1 DEF Sooner
    <3>2. QED
      BY <1>16, <1>21, <3>1
  <2>2. QED
    BY <1>7, <2>1 DEF SameOrder
<1>24. ASSUME NEW i \in N, NEW j \in N, Precedes(txs[i], txs[j]) PROVE place[i] < place[j]
  <2>1. i < j
    BY <1>3, <1>5, <1>24, WellFormedFacts
  <2>2. Sooner(level, tie, i, j)
    <3>1. CASE i \in O /\ j \in O
      <4>1. all[i] <= all[j] /\ all[i] \in 0 .. n /\ all[j] \in 0 .. n
        BY <1>13, <1>24, <3>1
      <4>2. QED
        BY <1>7, <1>16, <2>1, <3>1, <4>1 DEF Sooner
    <3>2. CASE i \in O /\ j \notin O
      <4>1. PICK k \in 1 .. n : j = order[k]
        BY <1>17, <3>2
      <4>2. k > all[i] /\ all[i] \in 0 .. n
        BY <1>3, <1>7, <1>13, <1>24, <3>2, <4>1 DEF PrefixRespectsRealTime
      <4>3. QED
        BY <1>7, <1>16, <3>2, <4>1, <4>2 DEF Sooner
    <3>3. CASE i \notin O /\ j \in O
      <4>1. PICK k \in 1 .. n : i = order[k]
        BY <1>17, <3>3
      <4>2. k <= all[j] /\ all[j] \in 0 .. n
        BY <1>3, <1>7, <1>13, <1>24, <3>3, <4>1 DEF PrefixRespectsRealTime
      <4>3. QED
        BY <1>7, <1>16, <3>3, <4>1, <4>2 DEF Sooner
    <3>4. CASE i \notin O /\ j \notin O
      <4>1. PICK k \in 1 .. n, l \in 1 .. n : i = order[k] /\ j = order[l]
        BY <1>17, <3>4
      <4>2. i \in C
        BY <1>7, <4>1
      <4>3. InTime(history, order, l)
        BY <1>4, <4>1 DEF Full, Serial
      <4>4. PICK d \in 1 .. (l - 1) : order[d] = i
        BY <1>1, <1>3, <1>24, <4>1, <4>2, <4>3 DEF InTime
      <4>5. d \in 1 .. n
        BY <1>7, <4>1
      <4>6. d = k
        BY <1>7, <4>1, <4>4, <4>5
      <4>7. QED
        BY <1>7, <1>16, <4>1, <4>4, <4>6 DEF Sooner
    <3>5. QED
      BY <3>1, <3>2, <3>3, <3>4
  <2>3. QED
    BY <1>21, <2>2
<1>25. ASSUME NEW i \in N PROVE ReadsValid(txs[i], StateBefore(history, place, i))
  <2>1. CASE i \in O
    <3>1. PICK m \in 0 .. n : m = all[i]
      BY <1>13, <2>1
    <3>2. ASSUME NEW l \in 1 .. n PROVE place[order[l]] < place[i] <=> l <= m
      <4>1. place[order[l]] < place[i] <=> Sooner(level, tie, order[l], i)
        BY <1>16, <1>21
      <4>2. QED
        BY <1>7, <1>16, <2>1, <3>1, <4>1 DEF Sooner
    <3>3. StateBefore(history, place, i) = StatesAfter(history, order)[m]
      BY <1>1, <1>3, <1>4, <1>5, <1>6, <1>22, <1>23, <3>2, StateThere
    <3>4. QED
      BY <1>13, <2>1, <3>1, <3>3
  <2>2. CASE i \notin O
    <3>1. PICK k \in 1 .. n : i = order[k]
      BY <1>17, <2>2
    <3>2. PICK m \in 0 .. n : m = k - 1
      BY <1>7
    <3>3. ASSUME NEW l \in 1 .. n PROVE place[order[l]] < place[i] <=> l <= m
      <4>1. place[order[l]] < place[i] <=> Sooner(level, tie, order[l], i)
        BY <1>16, <1>21
      <4>2. QED
        BY <1>7, <1>16, <3>1, <3>2, <4>1 DEF Sooner
    <3>4. StateBefore(history, place, i) = StatesAfter(history, order)[m]
      BY <1>1, <1>3, <1>4, <1>5, <1>6, <1>22, <1>23, <3>3, StateThere
    <3>5. ReadsAt(history, order, k)
      BY <1>4, <3>1 DEF Full, Serial
    <3>6. QED
      BY <1>3, <3>1, <3>2, <3>4, <3>5 DEF ReadsAt
  <2>3. QED
    BY <2>1, <2>2
<1>26. Explains(history, place)
  BY <1>3, <1>5, <1>24, <1>25 DEF Explains
<1>27. QED
  BY <1>1, <1>6, <1>22, <1>23, <1>26 DEF Witness, SameOrder

LEMMA SortedByPlace ==
    ASSUME NEW history, WellFormed(history), NEW place \in Places(history)
    PROVE  \E order : /\ Arranged(history, order) /\ Placed(order) = Committed(history)
                      /\ SameOrder(order, place)
<1>1. PICK C : C = Committed(history)
  OBVIOUS
<1>2. IsFiniteSet(C) /\ Cardinality(C) \in Nat
  BY <1>1, WellFormedFacts
<1>3. PICK n \in Nat : n = Cardinality(C)
  BY <1>2
<1>4. /\ \A c \in C : place[c] \in Nat
      /\ \A c, d \in C : place[c] = place[d] => c = d
  BY <1>1, PlaceType
<1>5. PICK level : level = [c \in C |-> place[c]]
  OBVIOUS
<1>6. PICK tie : tie = [c \in C |-> 0]
  OBVIOUS
<1>7. /\ level \in [C -> Nat] /\ tie \in [C -> Nat]
      /\ \A c, d \in C : c # d => level[c] # level[d] \/ tie[c] # tie[d]
  BY <1>4, <1>5, <1>6
<1>8. PICK r : RanksBy(r, C, level, tie)
  BY <1>2, <1>7, Ranking
<1>9. /\ r \in [C -> 1 .. n]
      /\ \A c, d \in C : r[c] = r[d] => c = d
      /\ \A c, d \in C : r[c] < r[d] <=> Sooner(level, tie, c, d)
  BY <1>3, <1>8 DEF RanksBy
<1>10. ASSUME NEW c \in C, NEW d \in C PROVE r[c] < r[d] <=> place[c] < place[d]
  BY <1>5, <1>6, <1>9 DEF Sooner
<1>11. \A k \in 1 .. n : \E c \in C : r[c] = k
  <2>1. IsFiniteSet(1 .. n) /\ Cardinality(1 .. n) = IF 1 > n THEN 0 ELSE n - 1 + 1
    BY FS_Interval
  <2>2. Cardinality(1 .. n) = n
    BY <2>1
  <2>3. r \in Injection(C, 1 .. n)
    BY <1>9 DEF Injection, IsInjective
  <2>4. r \in Surjection(C, 1 .. n)
    BY <1>3, <2>1, <2>2, <2>3, FS_Injection
  <2>5. QED
    BY <2>4 DEF Surjection
<1>12. PICK order : order = [k \in 1 .. n |-> CHOOSE c \in C : r[c] = k]
  OBVIOUS
<1>13. \A k \in 1 .. n : order[k] \in C /\ r[order[k]] = k
  <2>1. ASSUME NEW k \in 1 .. n PROVE order[k] \in C /\ r[order[k]] = k
    <3>1. order[k] = CHOOSE c \in C : r[c] = k
      BY <1>12
    <3>2. QED
      BY <1>11, <3>1
  <2>2. QED
    BY <2>1
<1>14. order \in [1 .. n -> C]
  BY <1>12, <1>13
<1>15. order \in Seq(C) /\ Len(order) = n /\ DOMAIN order = 1 .. n
  BY <1>14
<1>16. Arranged(history, order)
  BY <1>1, <1>13, <1>15 DEF Arranged
<1>17. Placed(order) = Committed(history)
  BY <1>1, <1>3, <1>15, <1>16, ArrangedFacts
<1>18. SameOrder(order, place)
  <2>1. ASSUME NEW k \in 1 .. n, NEW l \in 1 .. n, k < l PROVE place[order[k]] < place[order[l]]
    BY <1>10, <1>13, <2>1
  <2>2. QED
    BY <1>15, <2>1 DEF SameOrder
<1>19. QED
  BY <1>16, <1>17, <1>18

\* An order that explains all transactions is a full serial order with a prefix for each observer
LEMMA SeatsFromPlace ==
    ASSUME NEW history, WellFormed(history), NEW place \in Places(history),
           Explains(history, place), NEW order, Arranged(history, order),
           Placed(order) = Committed(history), SameOrder(order, place)
    PROVE  /\ Full(history, order)
           /\ \E all : AllSeated(history, OffersOf(history, order), Len(order), all)
<1>1. PICK C : C = Committed(history)
  OBVIOUS
<1>2. PICK O : O = Observers(history)
  OBVIOUS
<1>3. PICK txs : txs = history.transactions
  OBVIOUS
<1>4. PICK n : n = Len(order)
  OBVIOUS
<1>5. PICK N : N = DOMAIN txs
  OBVIOUS
<1>6. /\ n \in Nat /\ DOMAIN order = 1 .. n /\ C = {order[k] : k \in 1 .. n}
      /\ \A k \in 1 .. n : order[k] \in C
  BY <1>1, <1>4, ArrangedFacts
<1>7. C \subseteq N /\ O \subseteq N
  BY <1>1, <1>2, <1>3, <1>5 DEF Committed, Observers
<1>8. \A i \in N : place[i] \in Nat
  BY <1>3, <1>5, PlaceType
<1>9. /\ \A i, j \in N : Precedes(txs[i], txs[j]) => place[i] < place[j]
      /\ \A i \in N : ReadsValid(txs[i], StateBefore(history, place, i))
  BY <1>3, <1>5 DEF Explains
<1>10. \A k \in 1 .. n : order[k] \in N /\ place[order[k]] \in Nat
  BY <1>6, <1>7, <1>8
<1>11. ASSUME NEW k \in 1 .. n, NEW l \in 1 .. n PROVE place[order[l]] < place[order[k]] <=> l < k
  <2>1. /\ l < k => place[order[l]] < place[order[k]]
        /\ k < l => place[order[k]] < place[order[l]]
    BY <1>6 DEF SameOrder
  <2>2. place[order[l]] \in Nat /\ place[order[k]] \in Nat /\ k \in Nat /\ l \in Nat
    BY <1>6, <1>10
  <2>3. CASE l = k
    BY <2>2, <2>3
  <2>4. CASE l # k
    BY <2>1, <2>2, <2>4
  <2>5. QED
    BY <2>3, <2>4
<1>12. ASSUME NEW k \in 1 .. n PROVE ReadsAt(history, order, k)
  <2>1. PICK m \in 0 .. n : m = k - 1
    BY <1>6
  <2>2. ASSUME NEW l \in 1 .. n PROVE place[order[l]] < place[order[k]] <=> l <= m
    <3>1. l \in Int /\ k \in Int /\ m = k - 1
      BY <2>1
    <3>2. l < k <=> l <= m
      BY <3>1
    <3>3. QED
      BY <1>11, <3>2
  <2>3. StateBefore(history, place, order[k]) = StatesAfter(history, order)[m]
    BY <1>3, <1>4, <1>5, <1>10, <2>2, StateThere
  <2>4. ReadsValid(txs[order[k]], StatesAfter(history, order)[m])
    BY <1>9, <1>10, <2>3
  <2>5. QED
    BY <1>3, <2>1, <2>4 DEF ReadsAt
<1>13. ASSUME NEW k \in 1 .. n PROVE InTime(history, order, k)
  <2>1. ASSUME NEW i \in C, Precedes(txs[i], txs[order[k]])
        PROVE  \E l \in 1 .. (k - 1) : order[l] = i
    <3>1. PICK l \in 1 .. n : order[l] = i
      BY <1>6
    <3>2. place[order[l]] < place[order[k]]
      BY <1>9, <1>10, <2>1, <3>1
    <3>3. l < k
      BY <1>11, <3>2
    <3>4. l \in 1 .. (k - 1)
      BY <1>6, <3>3
    <3>5. QED
      BY <3>1, <3>4
  <2>2. QED
    BY <1>1, <1>3, <2>1 DEF InTime
<1>14. Full(history, order)
  BY <1>4, <1>12, <1>13 DEF Full, Serial
<1>15. PICK all : all = [o \in O |-> Latest({l \in 1 .. n : place[order[l]] < place[o]})]
  OBVIOUS
<1>16. ASSUME NEW o \in O
       PROVE  all[o] \in 0 .. n /\ \A l \in 1 .. n : place[order[l]] < place[o] <=> l <= all[o]
  <2>1. PICK T : T = {l \in 1 .. n : place[order[l]] < place[o]}
    OBVIOUS
  <2>2. T \in SUBSET (1 .. n) /\ all[o] = Latest(T)
    BY <1>15, <2>1
  <2>3. /\ T = {} => all[o] = 0
        /\ T # {} => all[o] \in T /\ \A l \in T : l <= all[o]
    BY <1>6, <2>2, LatestFacts
  <2>4. all[o] \in 0 .. n
    <3>1. CASE T = {}
      BY <1>6, <2>3, <3>1
    <3>2. CASE T # {}
      <4>1. all[o] \in 1 .. n
        BY <2>2, <2>3, <3>2
      <4>2. QED
        BY <4>1
    <3>3. QED
      BY <3>1, <3>2
  <2>5. ASSUME NEW l \in 1 .. n, l <= all[o] PROVE place[order[l]] < place[o]
    <3>1. T # {}
      BY <2>3, <2>5
    <3>2. PICK k \in 1 .. n : k = all[o]
      BY <2>2, <2>3, <3>1
    <3>3. place[order[k]] < place[o]
      BY <2>1, <2>3, <3>1, <3>2
    <3>4. CASE l = k
      BY <3>3, <3>4
    <3>5. CASE l # k
      <4>1. l < k
        BY <2>5, <3>2, <3>5
      <4>2. place[order[l]] < place[order[k]]
        BY <1>11, <4>1
      <4>3. place[order[l]] \in Nat /\ place[order[k]] \in Nat /\ place[o] \in Nat
        BY <1>7, <1>8, <1>10
      <4>4. QED
        BY <3>3, <4>2, <4>3
    <3>6. QED
      BY <3>4, <3>5
  <2>6. ASSUME NEW l \in 1 .. n, place[order[l]] < place[o] PROVE l <= all[o]
    BY <2>1, <2>3, <2>6
  <2>7. QED
    BY <2>4, <2>5, <2>6
<1>17. ASSUME NEW o \in O PROVE all[o] \in OffersOf(history, order)[o]
  <2>1. PICK p \in 0 .. n : p = all[o]
    BY <1>16
  <2>2. \A l \in 1 .. n : place[order[l]] < place[o] <=> l <= p
    BY <1>16, <2>1
  <2>3. o \in N
    BY <1>7
  <2>4. StateBefore(history, place, o) = StatesAfter(history, order)[p]
    BY <1>3, <1>4, <1>5, <2>2, <2>3, StateThere
  <2>5. ReadsValid(txs[o], StatesAfter(history, order)[p])
    BY <1>9, <2>3, <2>4
  <2>6. ASSUME NEW l \in 1 .. n
        PROVE  /\ Precedes(txs[order[l]], txs[o]) => l <= p
               /\ Precedes(txs[o], txs[order[l]]) => l > p
    <3>1. place[order[l]] \in Nat /\ place[o] \in Nat /\ order[l] \in N
      BY <1>8, <1>10, <2>3
    <3>2. Precedes(txs[order[l]], txs[o]) => place[order[l]] < place[o]
      BY <1>9, <2>3, <3>1
    <3>3. Precedes(txs[o], txs[order[l]]) => place[o] < place[order[l]]
      BY <1>9, <2>3, <3>1
    <3>4. place[order[l]] < place[o] <=> l <= p
      BY <2>2
    <3>5. p \in Nat /\ l \in Nat
      BY <1>6
    <3>6. ASSUME Precedes(txs[o], txs[order[l]]) PROVE l > p
      <4>1. ~ place[order[l]] < place[o]
        BY <3>1, <3>3, <3>6
      <4>2. QED
        BY <3>4, <3>5, <4>1
    <3>7. QED
      BY <3>2, <3>4, <3>6
  <2>7. PrefixRespectsRealTime(history, o, order, p)
    BY <1>3, <1>6, <2>6 DEF PrefixRespectsRealTime
  <2>8. QED
    BY <1>2, <1>3, <1>4, <2>1, <2>5, <2>7 DEF OffersOf
<1>18. ASSUME NEW other \in O, NEW o \in O, Precedes(txs[other], txs[o]) PROVE all[other] <= all[o]
  <2>1. all[other] \in 0 .. n /\ all[o] \in 0 .. n
    BY <1>16
  <2>2. place[other] < place[o] /\ place[other] \in Nat /\ place[o] \in Nat
    BY <1>7, <1>8, <1>9, <1>18
  <2>3. CASE all[other] = 0
    BY <1>6, <2>1, <2>3
  <2>4. CASE all[other] # 0
    <3>1. PICK l \in 1 .. n : l = all[other]
      BY <1>6, <2>1, <2>4
    <3>2. place[order[l]] < place[other] /\ place[order[l]] \in Nat
      <4>1. l <= all[other]
        BY <1>6, <3>1
      <4>2. QED
        BY <1>10, <1>16, <4>1
    <3>3. place[order[l]] < place[o]
      BY <2>2, <3>2
    <3>4. QED
      BY <1>16, <3>1, <3>3
  <2>5. QED
    BY <2>3, <2>4
<1>19. AllSeated(history, OffersOf(history, order), n, all)
  <2>1. all \in [O -> 0 .. n] /\ DOMAIN all = O
    BY <1>15, <1>16
  <2>2. FitTogether(history, all)
    BY <1>3, <1>18, <2>1 DEF FitTogether
  <2>3. QED
    BY <1>2, <1>17, <2>1, <2>2 DEF AllSeated, Seated
<1>20. QED
  BY <1>4, <1>14, <1>19

-----------------------------------------------------------------------------
(* The verdict.                                                            *)

FirstQuestion == [order |-> <<>>, memo |-> {}, explored |-> 0, exceeded |-> FALSE]

LEMMA FirstAsked ==
    ASSUME NEW history, WellFormed(history)
    PROVE  /\ FirstQuestion \in Questions(history) /\ Asked(history, FirstQuestion)
           /\ ~ FirstQuestion.exceeded
           /\ \A order : Extends(order, FirstQuestion.order) <=> Len(order) >= 0
<1>1. FirstQuestion \in Questions(history)
  BY DEF FirstQuestion, Questions
<1>2. FirstQuestion.order = <<>> /\ FirstQuestion.memo = {} /\ ~ FirstQuestion.exceeded
  BY DEF FirstQuestion
<1>3. Len(<<>>) = 0 /\ <<>> \in Seq(Committed(history)) /\ 1 .. 0 = {}
  OBVIOUS
<1>4. Arranged(history, <<>>)
  BY <1>3 DEF Arranged
<1>5. Serial(history, <<>>)
  BY <1>3, <1>4 DEF Serial
<1>6. Asked(history, FirstQuestion)
  BY <1>2, <1>5 DEF Asked, MemoTrue
<1>7. \A order : Extends(order, FirstQuestion.order) <=> Len(order) >= 0
  BY <1>2, <1>3 DEF Extends
<1>8. QED
  BY <1>1, <1>2, <1>6, <1>7

\* A transaction history that is opaque has a full serial order that the search accepts
LEMMA OpaqueFacts ==
    ASSUME NEW history, WellFormed(history), Opaque(history)
    PROVE  \E order : Full(history, order) /\ VerifyObservers(history, order)
<1>1. PICK place \in Places(history) : Explains(history, place)
  BY DEF Opaque
<1>2. PICK order : /\ Arranged(history, order) /\ Placed(order) = Committed(history)
                   /\ SameOrder(order, place)
  BY <1>1, SortedByPlace
<1>3. /\ Full(history, order)
      /\ \E all : AllSeated(history, OffersOf(history, order), Len(order), all)
  BY <1>1, <1>2, SeatsFromPlace
<1>4. VerifyObservers(history, order)
  BY <1>2, <1>3, ObserversTruth
<1>5. QED
  BY <1>3, <1>4

\* What a verdict means
MeansOpacity(history, limit, judged) ==
    /\ judged.status = "ok" => Witness(history, judged.order)
    /\ judged.status = "violation" => ~ Opaque(history)
    /\ judged.status = "search_limit_exceeded" => limit # 0
    /\ judged.status \in {"ok", "violation", "search_limit_exceeded"}

\* verify_stm_opacity says "ok" only of a history that has an order of all its transactions
\* in which each sees a consistent state, and returns the committed ones in such an order;
\* it says "violation" only of one that has none, and gives up only at a configured limit.
THEOREM VerifyMeansOpacity ==
    ASSUME NEW history, WellFormed(history), NEW limit \in Nat
    PROVE  MeansOpacity(history, limit, VerifyStmOpacity(history, limit))
<1>1. PICK graph : graph = BuildOrderingGraph(history)
  OBVIOUS
<1>2. Sound(history, graph)
  BY <1>1, BuiltGraphSound
<1>3. PICK problem : problem = [history |-> history, graph |-> graph, limit |-> limit]
  OBVIOUS
<1>4. problem.history = history /\ problem.graph = graph /\ problem.limit = limit
  BY <1>3
<1>5. Posed(problem)
  BY <1>2, <1>4 DEF Posed
<1>6. PICK answer : answer = SearchCommittedOrder(problem)[FirstQuestion]
  OBVIOUS
<1>7. VerifyStmOpacity(history, limit) =
         IF graph.inconsistent THEN [status |-> "violation", order |-> <<>>]
         ELSE IF answer.found THEN [status |-> "ok", order |-> answer.order]
         ELSE [status |-> IF answer.exceeded THEN "search_limit_exceeded" ELSE "violation",
               order |-> <<>>]
  BY <1>1, <1>3, <1>6 DEF VerifyStmOpacity, FirstQuestion
<1>8. answer \in Answers(history) /\ Truthful(problem, FirstQuestion, answer)
  BY <1>4, <1>5, <1>6, FirstAsked, SearchTruth
<1>9. /\ answer.found => Full(history, answer.order) /\ VerifyObservers(history, answer.order)
      /\ answer.exceeded => limit # 0
      /\ ~ answer.found /\ ~ answer.exceeded => Hopeless(history, FirstQuestion.order)
  BY <1>4, <1>8, FirstAsked DEF Truthful, Honest
<1>10. CASE graph.inconsistent
  <2>1. ~ Opaque(history)
    <3>1. ASSUME NEW order, Full(history, order) PROVE FALSE
      BY <1>2, <1>10, <3>1 DEF Sound, TrueOf
    <3>2. QED
      BY <3>1, OpaqueFacts
  <2>2. PICK judged : judged = VerifyStmOpacity(history, limit)
    OBVIOUS
  <2>3. judged.status = "violation"
    BY <1>7, <1>10, <2>2
  <2>4. QED
    BY <2>1, <2>2, <2>3 DEF MeansOpacity
<1>11. CASE ~ graph.inconsistent /\ answer.found
  <2>1. PICK judged : judged = VerifyStmOpacity(history, limit)
    OBVIOUS
  <2>2. judged.status = "ok" /\ judged.order = answer.order
    BY <1>7, <1>11, <2>1
  <2>3. Full(history, answer.order) /\ VerifyObservers(history, answer.order)
    BY <1>9, <1>11
  <2>4. \E all : AllSeated(history, OffersOf(history, answer.order), Len(answer.order), all)
    BY <2>3, ObserversTruth DEF Full, Serial
  <2>5. Witness(history, answer.order)
    BY <2>3, <2>4, WitnessFromSeats
  <2>6. QED
    BY <2>1, <2>2, <2>5 DEF MeansOpacity
<1>12. CASE ~ graph.inconsistent /\ ~ answer.found
  <2>1. PICK judged : judged = VerifyStmOpacity(history, limit)
    OBVIOUS
  <2>2. judged.status = IF answer.exceeded THEN "search_limit_exceeded" ELSE "violation"
    BY <1>7, <1>12, <2>1
  <2>3. ~ answer.exceeded => ~ Opaque(history)
    <3>1. ASSUME ~ answer.exceeded, NEW order, Full(history, order), VerifyObservers(history, order)
          PROVE  FALSE
      <4>1. Hopeless(history, FirstQuestion.order)
        BY <1>9, <1>12, <3>1
      <4>2. Extends(order, FirstQuestion.order)
        <5>1. Len(order) \in Nat
          BY <3>1, ArrangedFacts DEF Full, Serial
        <5>2. QED
          BY <5>1, FirstAsked
      <4>3. QED
        BY <3>1, <4>1, <4>2 DEF Hopeless
    <3>2. QED
      BY <3>1, OpaqueFacts
  <2>4. QED
    BY <1>9, <2>1, <2>2, <2>3 DEF MeansOpacity
<1>13. QED
  BY <1>10, <1>11, <1>12

-----------------------------------------------------------------------------
(* Opacity does not depend on what the locations are called.               *)

\* The location of access k of transaction i
LocAt(history, i, k) == history.transactions[i].accesses[k].loc

\* All but the names of locations
SameShape(tx, other) ==
    /\ tx.begin = other.begin /\ tx.end = other.end /\ tx.outcome = other.outcome
    /\ Len(tx.accesses) \in Nat /\ Len(other.accesses) = Len(tx.accesses)
    /\ DOMAIN tx.accesses = 1 .. Len(tx.accesses) /\ DOMAIN other.accesses = 1 .. Len(tx.accesses)
    /\ \A k \in 1 .. Len(tx.accesses) : /\ tx.accesses[k].write <=> other.accesses[k].write
                                        /\ tx.accesses[k].value = other.accesses[k].value

\* The same transactions, with other names for the locations but one for one, and with the
\* same initial values
Mirrors(h, g) ==
    /\ Len(h.transactions) \in Nat /\ DOMAIN h.transactions = 1 .. Len(h.transactions)
    /\ DOMAIN g.transactions = 1 .. Len(h.transactions)
    /\ \A i \in DOMAIN h.transactions : SameShape(h.transactions[i], g.transactions[i])
    /\ \A i, j \in DOMAIN h.transactions :
          \A k \in DOMAIN h.transactions[i].accesses, l \in DOMAIN h.transactions[j].accesses :
             LocAt(h, i, k) = LocAt(h, j, l) <=> LocAt(g, i, k) = LocAt(g, j, l)
    /\ \A i \in DOMAIN h.transactions : \A k \in DOMAIN h.transactions[i].accesses :
          /\ LocAt(h, i, k) \in DOMAIN h.initial /\ LocAt(g, i, k) \in DOMAIN g.initial
          /\ h.initial[LocAt(h, i, k)] = g.initial[LocAt(g, i, k)]

LEMMA MirrorFacts ==
    ASSUME NEW h, NEW g, Mirrors(h, g)
    PROVE  /\ DOMAIN h.transactions = DOMAIN g.transactions
           /\ Committed(h) = Committed(g) /\ Committed(h) \subseteq DOMAIN h.transactions
           /\ Places(h) = Places(g)
           /\ \A i, j \in DOMAIN h.transactions :
                 Precedes(h.transactions[i], h.transactions[j])
                    <=> Precedes(g.transactions[i], g.transactions[j])
<1>1. DOMAIN h.transactions = DOMAIN g.transactions
  BY DEF Mirrors
<1>2. \A i \in DOMAIN h.transactions :
         /\ h.transactions[i].begin = g.transactions[i].begin
         /\ h.transactions[i].end = g.transactions[i].end
         /\ h.transactions[i].outcome = g.transactions[i].outcome
  BY DEF Mirrors, SameShape
<1>3. Committed(h) = Committed(g) /\ Committed(h) \subseteq DOMAIN h.transactions
  BY <1>1, <1>2 DEF Committed
<1>4. Places(h) = Places(g)
  BY <1>1 DEF Places
<1>5. QED
  BY <1>1, <1>2, <1>3, <1>4 DEF Precedes

LEMMA LastWriteMirrored ==
    ASSUME NEW h, NEW g, Mirrors(h, g),
           NEW i \in DOMAIN h.transactions, NEW j \in DOMAIN h.transactions,
           NEW l \in DOMAIN h.transactions[j].accesses,
           NEW n \in 0 .. Len(h.transactions[i].accesses),
           NEW x, x = LocAt(h, j, l), NEW y, y = LocAt(g, j, l)
    PROVE  /\ LastWrite(h.transactions[i], x, n) = LastWrite(g.transactions[i], y, n)
           /\ LastWrite(h.transactions[i], x, n) \in 0 .. n
           /\ (\E k \in 1 .. n : h.transactions[i].accesses[k].write /\ LocAt(h, i, k) = x)
                 => LastWrite(h.transactions[i], x, n) # 0
           /\ \A k \in 1 .. n : h.transactions[i].accesses[k].write /\ LocAt(h, i, k) = x
                                <=> g.transactions[i].accesses[k].write /\ LocAt(g, i, k) = y
<1>1. PICK tx : tx = h.transactions[i]
  OBVIOUS
<1>2. PICK other : other = g.transactions[i]
  OBVIOUS
<1>3. SameShape(tx, other)
  BY <1>1, <1>2 DEF Mirrors
<1>4. n \in Nat /\ 1 .. n \subseteq DOMAIN tx.accesses
  BY <1>1, <1>3 DEF SameShape
<1>5. ASSUME NEW k \in 1 .. n
      PROVE  tx.accesses[k].write /\ tx.accesses[k].loc = x
                <=> other.accesses[k].write /\ other.accesses[k].loc = y
  <2>1. k \in DOMAIN h.transactions[i].accesses
    BY <1>1, <1>4
  <2>2. LocAt(h, i, k) = LocAt(h, j, l) <=> LocAt(g, i, k) = LocAt(g, j, l)
    BY <2>1 DEF Mirrors
  <2>3. tx.accesses[k].loc = x <=> other.accesses[k].loc = y
    BY <1>1, <1>2, <2>2 DEF LocAt
  <2>4. tx.accesses[k].write <=> other.accesses[k].write
    BY <1>1, <1>3, <2>1 DEF SameShape
  <2>5. QED
    BY <2>3, <2>4
<1>6. PICK T : T = {k \in 1 .. n : tx.accesses[k].write /\ tx.accesses[k].loc = x}
  OBVIOUS
<1>7. T = {k \in 1 .. n : other.accesses[k].write /\ other.accesses[k].loc = y}
  BY <1>5, <1>6
<1>8. LastWrite(tx, x, n) = Latest(T) /\ LastWrite(other, y, n) = Latest(T)
  BY <1>6, <1>7 DEF LastWrite
<1>9. T \in SUBSET (1 .. n)
  BY <1>6
<1>10. /\ T = {} => Latest(T) = 0
       /\ T # {} => Latest(T) \in T
  BY <1>4, <1>9, LatestFacts
<1>11. Latest(T) \in 0 .. n /\ (T # {} => Latest(T) # 0)
  <2>1. PICK last : last = Latest(T)
    OBVIOUS
  <2>2. last = 0 \/ last \in 1 .. n
    BY <1>9, <1>10, <2>1
  <2>3. T # {} => last \in 1 .. n
    BY <1>9, <1>10, <2>1
  <2>4. QED
    BY <1>4, <2>1, <2>2, <2>3
<1>12. (\E k \in 1 .. n : h.transactions[i].accesses[k].write /\ LocAt(h, i, k) = x) <=> T # {}
  BY <1>1, <1>6 DEF LocAt
<1>13. \A k \in 1 .. n : h.transactions[i].accesses[k].write /\ LocAt(h, i, k) = x
                          <=> g.transactions[i].accesses[k].write /\ LocAt(g, i, k) = y
  BY <1>1, <1>2, <1>5 DEF LocAt
<1>14. QED
  BY <1>1, <1>2, <1>8, <1>11, <1>12, <1>13

\* What a transaction leaves at a location is what its mirror leaves at the other
LEMMA FinalWritesMirrored ==
    ASSUME NEW h, NEW g, Mirrors(h, g),
           NEW i \in DOMAIN h.transactions, NEW j \in DOMAIN h.transactions,
           NEW l \in DOMAIN h.transactions[j].accesses,
           NEW x, x = LocAt(h, j, l), NEW y, y = LocAt(g, j, l)
    PROVE  /\ x \in DOMAIN FinalWrites(h.transactions[i]) <=> y \in DOMAIN FinalWrites(g.transactions[i])
           /\ x \in DOMAIN FinalWrites(h.transactions[i]) =>
                 FinalWrites(h.transactions[i])[x] = FinalWrites(g.transactions[i])[y]
<1>1. PICK tx : tx = h.transactions[i]
  OBVIOUS
<1>2. PICK other : other = g.transactions[i]
  OBVIOUS
<1>3. SameShape(tx, other)
  BY <1>1, <1>2 DEF Mirrors
<1>4. PICK n \in Nat : n = Len(tx.accesses) /\ n = Len(other.accesses)
  BY <1>3 DEF SameShape
<1>5. /\ LastWrite(tx, x, n) = LastWrite(other, y, n)
      /\ LastWrite(tx, x, n) \in 0 .. n
      /\ (\E k \in 1 .. n : tx.accesses[k].write /\ tx.accesses[k].loc = x) => LastWrite(tx, x, n) # 0
      /\ \A k \in 1 .. n : tx.accesses[k].write /\ tx.accesses[k].loc = x
                           <=> other.accesses[k].write /\ other.accesses[k].loc = y
  <2>1. n \in 0 .. Len(h.transactions[i].accesses)
    BY <1>1, <1>4
  <2>2. /\ LastWrite(h.transactions[i], x, n) = LastWrite(g.transactions[i], y, n)
        /\ LastWrite(h.transactions[i], x, n) \in 0 .. n
        /\ (\E k \in 1 .. n : h.transactions[i].accesses[k].write /\ LocAt(h, i, k) = x)
              => LastWrite(h.transactions[i], x, n) # 0
        /\ \A k \in 1 .. n : h.transactions[i].accesses[k].write /\ LocAt(h, i, k) = x
                             <=> g.transactions[i].accesses[k].write /\ LocAt(g, i, k) = y
    BY <2>1, LastWriteMirrored
  <2>3. \A k : LocAt(h, i, k) = tx.accesses[k].loc /\ LocAt(g, i, k) = other.accesses[k].loc
    BY <1>1, <1>2 DEF LocAt
  <2>4. QED
    BY <1>1, <1>2, <2>2, <2>3
<1>6. DOMAIN FinalWrites(tx) = {tx.accesses[k].loc : k \in {m \in 1 .. n : tx.accesses[m].write}}
  BY <1>4 DEF FinalWrites
<1>7. DOMAIN FinalWrites(other) = {other.accesses[k].loc : k \in {m \in 1 .. n : other.accesses[m].write}}
  BY <1>4 DEF FinalWrites
<1>8. x \in DOMAIN FinalWrites(tx) <=> \E k \in 1 .. n : tx.accesses[k].write /\ tx.accesses[k].loc = x
  BY <1>6
<1>9. y \in DOMAIN FinalWrites(other)
         <=> \E k \in 1 .. n : other.accesses[k].write /\ other.accesses[k].loc = y
  BY <1>7
<1>10. ASSUME x \in DOMAIN FinalWrites(tx)
       PROVE  FinalWrites(tx)[x] = FinalWrites(other)[y]
  <2>1. PICK last : last = LastWrite(tx, x, n)
    OBVIOUS
  <2>2. last \in 1 .. n
    BY <1>4, <1>5, <1>8, <1>10, <2>1
  <2>3. tx.accesses[last].value = other.accesses[last].value
    BY <1>3, <1>4, <2>2 DEF SameShape
  <2>4. FinalWrites(tx)[x] = tx.accesses[last].value
    BY <1>4, <1>10, <2>1 DEF FinalWrites
  <2>5. y \in DOMAIN FinalWrites(other)
    BY <1>5, <1>8, <1>9, <1>10
  <2>6. FinalWrites(other)[y] = other.accesses[last].value
    BY <1>4, <1>5, <2>1, <2>5 DEF FinalWrites
  <2>7. QED
    BY <2>3, <2>4, <2>6
<1>11. QED
  BY <1>1, <1>2, <1>5, <1>8, <1>9, <1>10

\* The one of a set of transactions that is placed last
LEMMA LastPlaced ==
    ASSUME NEW h, Len(h.transactions) \in Nat, DOMAIN h.transactions = 1 .. Len(h.transactions),
           NEW place \in Places(h), NEW E \in SUBSET DOMAIN h.transactions, E # {}
    PROVE  \E j \in E : \A k \in E : place[k] <= place[j]
<1>1. PICK n \in Nat : n = Len(h.transactions) /\ DOMAIN h.transactions = 1 .. n
  OBVIOUS
<1>2. \A j \in E : place[j] \in 1 .. n
  BY <1>1 DEF Places
<1>3. PICK T : T = {place[j] : j \in E}
  OBVIOUS
<1>4. T \in SUBSET (1 .. n) /\ T # {}
  BY <1>2, <1>3
<1>5. PICK m \in T : \A k \in T : k <= m
  BY <1>4, Highest
<1>6. QED
  BY <1>3, <1>5

LEMMA StateMirrored ==
    ASSUME NEW h, NEW g, Mirrors(h, g), NEW place \in Places(h),
           NEW i \in DOMAIN h.transactions, NEW j \in DOMAIN h.transactions,
           NEW l \in DOMAIN h.transactions[j].accesses,
           NEW x, x = LocAt(h, j, l), NEW y, y = LocAt(g, j, l)
    PROVE  StateBefore(h, place, i)[x] = StateBefore(g, place, i)[y]
<1>1. PICK C : C = Committed(h) /\ C = Committed(g) /\ C \subseteq DOMAIN h.transactions
  BY MirrorFacts
<1>2. PICK E : E = {k \in C : place[k] < place[i] /\ x \in DOMAIN FinalWrites(h.transactions[k])}
  OBVIOUS
<1>3. E = {k \in C : place[k] < place[i] /\ y \in DOMAIN FinalWrites(g.transactions[k])}
  <2>1. ASSUME NEW k \in C
        PROVE  x \in DOMAIN FinalWrites(h.transactions[k]) <=> y \in DOMAIN FinalWrites(g.transactions[k])
    BY <1>1, FinalWritesMirrored
  <2>2. QED
    BY <1>2, <2>1
<1>4. PICK last : last = CHOOSE k \in E : \A m \in E : place[m] <= place[k]
  OBVIOUS
<1>5. x \in DOMAIN h.initial /\ y \in DOMAIN g.initial /\ h.initial[x] = g.initial[y]
  BY DEF Mirrors
<1>6. StateBefore(h, place, i)[x] = IF E = {} THEN h.initial[x] ELSE FinalWrites(h.transactions[last])[x]
  BY <1>1, <1>2, <1>4, <1>5 DEF StateBefore
<1>7. StateBefore(g, place, i)[y] = IF E = {} THEN g.initial[y] ELSE FinalWrites(g.transactions[last])[y]
  BY <1>1, <1>3, <1>4, <1>5 DEF StateBefore
<1>8. CASE E = {}
  BY <1>5, <1>6, <1>7, <1>8
<1>9. CASE E # {}
  <2>1. E \in SUBSET DOMAIN h.transactions
    BY <1>1, <1>2
  <2>2. Len(h.transactions) \in Nat /\ DOMAIN h.transactions = 1 .. Len(h.transactions)
    BY DEF Mirrors
  <2>3. \E k \in E : \A m \in E : place[m] <= place[k]
    BY <1>9, <2>1, <2>2, LastPlaced
  <2>4. last \in E
    BY <1>4, <2>3
  <2>5. last \in DOMAIN h.transactions /\ x \in DOMAIN FinalWrites(h.transactions[last])
    BY <1>2, <2>1, <2>4
  <2>6. FinalWrites(h.transactions[last])[x] = FinalWrites(g.transactions[last])[y]
    BY <2>5, FinalWritesMirrored
  <2>7. QED
    BY <1>6, <1>7, <1>9, <2>6
<1>10. QED
  BY <1>8, <1>9

LEMMA ReadsMirrored ==
    ASSUME NEW h, NEW g, Mirrors(h, g), NEW place \in Places(h), NEW i \in DOMAIN h.transactions,
           ReadsValid(h.transactions[i], StateBefore(h, place, i))
    PROVE  ReadsValid(g.transactions[i], StateBefore(g, place, i))
<1>1. PICK tx : tx = h.transactions[i]
  OBVIOUS
<1>2. PICK other : other = g.transactions[i]
  OBVIOUS
<1>3. PICK seen : seen = StateBefore(h, place, i)
  OBVIOUS
<1>4. PICK shown : shown = StateBefore(g, place, i)
  OBVIOUS
<1>5. SameShape(tx, other)
  BY <1>1, <1>2 DEF Mirrors
<1>6. DOMAIN other.accesses = DOMAIN tx.accesses
  BY <1>5 DEF SameShape
<1>7. ASSUME NEW k \in DOMAIN other.accesses, ~ other.accesses[k].write
      PROVE  other.accesses[k].value =
                IF LastWrite(other, other.accesses[k].loc, k) # 0
                THEN other.accesses[LastWrite(other, other.accesses[k].loc, k)].value
                ELSE shown[other.accesses[k].loc]
  <2>1. k \in DOMAIN h.transactions[i].accesses /\ k \in 1 .. Len(tx.accesses)
        /\ Len(tx.accesses) \in Nat
    BY <1>1, <1>5, <1>6, <1>7 DEF SameShape
  <2>2. k \in 0 .. Len(h.transactions[i].accesses) /\ k \in Nat
    BY <1>1, <2>1
  <2>3. PICK x : x = LocAt(h, i, k)
    OBVIOUS
  <2>4. PICK y : y = LocAt(g, i, k)
    OBVIOUS
  <2>5. x = tx.accesses[k].loc /\ y = other.accesses[k].loc
    BY <1>1, <1>2, <2>3, <2>4 DEF LocAt
  <2>6. LastWrite(tx, x, k) = LastWrite(other, y, k) /\ LastWrite(tx, x, k) \in 0 .. k
    BY <1>1, <1>2, <2>1, <2>2, <2>3, <2>4, LastWriteMirrored
  <2>7. PICK own : own = LastWrite(tx, x, k)
    OBVIOUS
  <2>8. ~ tx.accesses[k].write /\ tx.accesses[k].value = other.accesses[k].value
    BY <1>5, <1>7, <2>1 DEF SameShape
  <2>9. tx.accesses[k].value = IF own # 0 THEN tx.accesses[own].value ELSE seen[x]
    BY <1>1, <1>3, <1>6, <2>5, <2>7, <2>8 DEF ReadsValid
  <2>10. own # 0 => tx.accesses[own].value = other.accesses[own].value
    <3>1. own # 0 => own \in 1 .. Len(tx.accesses)
      BY <2>1, <2>2, <2>6, <2>7
    <3>2. QED
      BY <1>5, <3>1 DEF SameShape
  <2>11. seen[x] = shown[y]
    BY <1>3, <1>4, <2>1, <2>3, <2>4, StateMirrored
  <2>12. LastWrite(other, other.accesses[k].loc, k) = own /\ shown[other.accesses[k].loc] = shown[y]
    BY <2>5, <2>6, <2>7
  <2>13. QED
    BY <2>8, <2>9, <2>10, <2>11, <2>12
<1>8. QED
  BY <1>2, <1>4, <1>7 DEF ReadsValid

LEMMA MirrorsBack ==
    ASSUME NEW h, NEW g, Mirrors(h, g), Len(g.transactions) = Len(h.transactions)
    PROVE  Mirrors(g, h)
<1>1. DOMAIN h.transactions = DOMAIN g.transactions
  BY DEF Mirrors
<1>2. ASSUME NEW i \in DOMAIN h.transactions
      PROVE  /\ SameShape(g.transactions[i], h.transactions[i])
             /\ DOMAIN g.transactions[i].accesses = DOMAIN h.transactions[i].accesses
  <2>1. SameShape(h.transactions[i], g.transactions[i])
    BY DEF Mirrors
  <2>2. QED
    BY <2>1 DEF SameShape
<1>3. /\ Len(g.transactions) \in Nat /\ DOMAIN g.transactions = 1 .. Len(g.transactions)
      /\ DOMAIN h.transactions = 1 .. Len(g.transactions)
  BY DEF Mirrors
<1>4. \A i, j \in DOMAIN g.transactions :
         \A k \in DOMAIN g.transactions[i].accesses, l \in DOMAIN g.transactions[j].accesses :
            LocAt(g, i, k) = LocAt(g, j, l) <=> LocAt(h, i, k) = LocAt(h, j, l)
  BY <1>1, <1>2 DEF Mirrors
<1>5. \A i \in DOMAIN g.transactions : \A k \in DOMAIN g.transactions[i].accesses :
         /\ LocAt(g, i, k) \in DOMAIN g.initial /\ LocAt(h, i, k) \in DOMAIN h.initial
         /\ g.initial[LocAt(g, i, k)] = h.initial[LocAt(h, i, k)]
  BY <1>1, <1>2 DEF Mirrors
<1>6. \A i \in DOMAIN g.transactions : SameShape(g.transactions[i], h.transactions[i])
  BY <1>1, <1>2
<1>7. QED
  BY <1>3, <1>4, <1>5, <1>6 DEF Mirrors

LEMMA OpaqueMirrored ==
    ASSUME NEW h, NEW g, Mirrors(h, g), Opaque(h)
    PROVE  Opaque(g)
<1>1. PICK place \in Places(h) : Explains(h, place)
  BY DEF Opaque
<1>2. \A i \in DOMAIN h.transactions : ReadsValid(g.transactions[i], StateBefore(g, place, i))
  BY <1>1, ReadsMirrored DEF Explains
<1>3. \A i, j \in DOMAIN h.transactions :
         Precedes(g.transactions[i], g.transactions[j]) => place[i] < place[j]
  BY <1>1, MirrorFacts DEF Explains
<1>4. Explains(g, place) /\ place \in Places(g)
  BY <1>1, <1>2, <1>3, MirrorFacts DEF Explains
<1>5. QED
  BY <1>4 DEF Opaque

=============================================================================
