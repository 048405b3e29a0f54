----------------------- MODULE ScheduleExplorerProofs -----------------------
(***************************************************************************)
(* Theorems about ScheduleExplorer: the search of a scenario is complete   *)
(* within its bounds, what it reports replays and nothing else does, and   *)
(* what minimize ends with has no actor to spare.                          *)
(***************************************************************************)
EXTENDS ScheduleExplorer, FiniteSetTheorems, WellFoundedInduction, TLAPS

-----------------------------------------------------------------------------
(* Counting up.  An induction is a set of numbers that has the first one   *)
(* and with each the next.                                                 *)

LEMMA Least ==
    ASSUME NEW T \in SUBSET Nat, T # {}
    PROVE  \E m \in T : \A n \in T : m <= n
<1> DEFINE R == {ss \in Nat \X Nat : ss[1] < ss[2]}
<1>1. IsWellFoundedOn(R, Nat)
  BY NatLessThanWellFounded DEF OpToRel
<1>2. PICK m \in T : \A n \in T : ~(<<n, m>> \in R)
  BY <1>1, WFMin
<1>3. ASSUME NEW n \in T, n < m PROVE FALSE
  <2>1. n \in Nat /\ m \in Nat
    OBVIOUS
  <2>2. <<n, m>> \in R
    BY <1>3, <2>1
  <2>3. QED
    BY <1>2, <2>2
<1>4. QED
  BY <1>2, <1>3

LEMMA Climb ==
    ASSUME NEW n \in Nat, NEW T, 0 \in T, \A i \in 1 .. n : i - 1 \in T => i \in T
    PROVE  0 .. n \subseteq T
<1> DEFINE U == (0 .. n) \ T
<1> SUFFICES ASSUME U # {} PROVE FALSE
  OBVIOUS
<1>1. PICK m \in U : \A k \in U : m <= k
  <2>1. U \in SUBSET Nat
    OBVIOUS
  <2>2. QED
    BY <2>1, Least
<1>2. m \in 1 .. n /\ m - 1 \notin U
  BY <1>1
<1>3. QED
  BY <1>2

\* A loop of n rounds on values in S, and what it makes of a
Rounds(n, S) == [1 .. n -> [S -> S]]
Follows(f, n, S, a, step) ==
    f \in [0 .. n -> S] /\ f[0] = a /\ \A i \in 1 .. n : f[i] = step[i][f[i - 1]]

LEMMA Iterate ==
    ASSUME NEW n \in Nat, NEW S, NEW a \in S, NEW step \in Rounds(n, S)
    PROVE  \E f : Follows(f, n, S, a, step)
<1> USE DEF Rounds, Follows
<1> DEFINE Loop(f, m) == /\ f \in [0 .. m -> S]
                         /\ f[0] = a
                         /\ \A i \in 1 .. m : f[i] = step[i][f[i - 1]]
           T == {m \in 0 .. n : \E f : Loop(f, m)}
<1>1. 0 \in T
  <2>1. /\ [i \in 0 .. 0 |-> a] \in [0 .. 0 -> S]
        /\ [i \in 0 .. 0 |-> a][0] = a
        /\ 1 .. 0 = {}
    OBVIOUS
  <2>2. \E f : Loop(f, 0)
    BY <2>1
  <2>3. QED
    BY <2>2
<1>2. ASSUME NEW m \in 1 .. n, m - 1 \in T PROVE m \in T
  <2>1. PICK f : Loop(f, m - 1)
    BY <1>2
  <2>2. PICK g : g = [i \in 0 .. m |-> IF i = m THEN step[m][f[m - 1]] ELSE f[i]]
    OBVIOUS
  <2>3. f[m - 1] \in S
    BY <2>1
  <2>4. step[m][f[m - 1]] \in S
    BY <2>3
  <2>5. g \in [0 .. m -> S] /\ g[0] = a
    BY <2>1, <2>2, <2>4
  <2>6. ASSUME NEW i \in 1 .. m PROVE g[i] = step[i][g[i - 1]]
    BY <2>1, <2>2
  <2>7. \E h : Loop(h, m)
    BY <2>5, <2>6
  <2>8. m \in 0 .. n
    OBVIOUS
  <2>9. QED
    <3> HIDE DEF Loop
    <3>1. QED
      BY <2>7, <2>8
<1>3. n \in T
  <2> HIDE DEF T
  <2>1. 0 .. n \subseteq T
    BY <1>1, <1>2, Climb
  <2>2. QED
    BY <2>1
<1>4. QED
  BY <1>3

-----------------------------------------------------------------------------
(* Sequences.                                                              *)

LEMMA Appended ==
    ASSUME NEW A, NEW s \in Seq(A), NEW e \in A
    PROVE  /\ Append(s, e) \in Seq(A)
           /\ ToSet(Append(s, e)) = ToSet(s) \cup {e}
           /\ IsInjective(s) /\ e \notin ToSet(s) => IsInjective(Append(s, e))
<1>1. /\ Append(s, e) \in Seq(A) /\ Len(Append(s, e)) = Len(s) + 1
      /\ \A i \in 1 .. Len(s) : Append(s, e)[i] = s[i]
      /\ Append(s, e)[Len(s) + 1] = e
      /\ DOMAIN Append(s, e) = 1 .. Len(s) + 1 /\ DOMAIN s = 1 .. Len(s) /\ Len(s) \in Nat
  OBVIOUS
<1>2. PICK t : t = Append(s, e)
  OBVIOUS
<1>3. \A i \in 1 .. Len(s) + 1 : i \in 1 .. Len(s) \/ i = Len(s) + 1
  BY <1>1
<1>4. ToSet(t) = ToSet(s) \cup {e}
  BY <1>1, <1>2, <1>3 DEF ToSet
<1>5. IsInjective(s) /\ e \notin ToSet(s) => IsInjective(t)
  BY <1>1, <1>2, <1>3 DEF ToSet, IsInjective
<1>6. QED
  BY <1>1, <1>2, <1>4, <1>5

LEMMA Joined ==
    ASSUME NEW A, NEW s \in Seq(A), NEW t \in Seq(A)
    PROVE  /\ s \o t \in Seq(A) /\ Len(s \o t) = Len(s) + Len(t)
           /\ ToSet(s \o t) = ToSet(s) \cup ToSet(t)
           /\ IsInjective(s) /\ IsInjective(t) /\ ToSet(s) \cap ToSet(t) = {} => IsInjective(s \o t)
<1>1. /\ s \o t \in Seq(A) /\ Len(s \o t) = Len(s) + Len(t)
      /\ DOMAIN s = 1 .. Len(s) /\ DOMAIN t = 1 .. Len(t) /\ Len(s) \in Nat /\ Len(t) \in Nat
      /\ DOMAIN (s \o t) = 1 .. Len(s) + Len(t)
  OBVIOUS
<1>2. PICK u : u = s \o t
  OBVIOUS
<1>3. \A i \in 1 .. Len(s) + Len(t) :
          \/ i \in 1 .. Len(s) /\ u[i] = s[i]
          \/ i - Len(s) \in 1 .. Len(t) /\ u[i] = t[i - Len(s)]
  BY <1>1, <1>2
<1>4. /\ \A i \in 1 .. Len(s) : i \in DOMAIN u /\ u[i] = s[i]
      /\ \A i \in 1 .. Len(t) : i + Len(s) \in DOMAIN u /\ u[i + Len(s)] = t[i]
  BY <1>1, <1>2
<1>5. ToSet(u) \subseteq ToSet(s) \cup ToSet(t)
  BY <1>1, <1>2, <1>3 DEF ToSet
<1>6. ToSet(s) \cup ToSet(t) \subseteq ToSet(u)
  BY <1>1, <1>4 DEF ToSet
<1>7. ASSUME IsInjective(s), IsInjective(t), ToSet(s) \cap ToSet(t) = {} PROVE IsInjective(u)
  <2> SUFFICES ASSUME NEW i \in 1 .. Len(s) + Len(t), NEW j \in 1 .. Len(s) + Len(t), u[i] = u[j]
               PROVE  i = j
    BY <1>1, <1>2 DEF IsInjective
  <2>1. \A k \in 1 .. Len(s) : s[k] \in ToSet(s)
    BY <1>1 DEF ToSet
  <2>2. \A k \in 1 .. Len(t) : t[k] \in ToSet(t)
    BY <1>1 DEF ToSet
  <2>3. CASE i \in 1 .. Len(s) /\ j \in 1 .. Len(s)
    BY <1>1, <1>4, <1>7, <2>3 DEF IsInjective
  <2>4. CASE i - Len(s) \in 1 .. Len(t) /\ j - Len(s) \in 1 .. Len(t)
    <3>1. u[i] = t[i - Len(s)] /\ u[j] = t[j - Len(s)]
      BY <1>1, <1>3, <2>4
    <3>2. i - Len(s) = j - Len(s)
      BY <1>1, <1>7, <2>4, <3>1 DEF IsInjective
    <3>3. QED
      BY <1>1, <3>2
  <2>5. QED
    BY <1>3, <1>7, <2>1, <2>2, <2>3, <2>4
<1>8. QED
  BY <1>1, <1>2, <1>5, <1>6, <1>7

LEMMA Removed ==
    ASSUME NEW A, NEW s \in Seq(A), NEW i \in DOMAIN s
    PROVE  /\ RemoveAt(s, i) \in Seq(A)
           /\ ToSet(RemoveAt(s, i)) = {s[j] : j \in (DOMAIN s) \ {i}}
           /\ IsInjective(s) => IsInjective(RemoveAt(s, i))
<1> DEFINE a == SubSeq(s, 1, i - 1)
           b == SubSeq(s, i + 1, Len(s))
<1>1. DOMAIN s = 1 .. Len(s) /\ Len(s) \in Nat /\ i \in 1 .. Len(s)
  OBVIOUS
<1>2. /\ a \in Seq(A) /\ DOMAIN a = 1 .. i - 1 /\ \A k \in 1 .. i - 1 : a[k] = s[k]
      /\ b \in Seq(A) /\ DOMAIN b = 1 .. Len(s) - i /\ \A k \in 1 .. Len(s) - i : b[k] = s[i + k]
  <2>1. a \in Seq(A) /\ Len(a) = i - 1 /\ \A k \in 1 .. i - 1 : a[k] = s[k]
    BY <1>1
  <2>2. b \in Seq(A) /\ Len(b) = Len(s) - i
    BY <1>1
  <2>3. \A k \in 1 .. Len(s) - i : b[k] = s[(i + 1) + k - 1] /\ (i + 1) + k - 1 = i + k
    BY <1>1
  <2>4. DOMAIN a = 1 .. Len(a) /\ DOMAIN b = 1 .. Len(b)
    BY <2>1, <2>2
  <2>5. QED
    BY <2>1, <2>2, <2>3, <2>4
<1>3. RemoveAt(s, i) = a \o b
  BY DEF RemoveAt
<1> HIDE DEF a, b
<1>4. ToSet(a) \cup ToSet(b) = {s[j] : j \in (DOMAIN s) \ {i}}
  <2>1. \A k \in 1 .. i - 1 : k \in (DOMAIN s) \ {i}
    BY <1>1
  <2>2. \A k \in 1 .. Len(s) - i : i + k \in (DOMAIN s) \ {i}
    BY <1>1
  <2>3. \A j \in (DOMAIN s) \ {i} : \/ j \in 1 .. i - 1
                                    \/ j - i \in 1 .. Len(s) - i /\ i + (j - i) = j
    BY <1>1
  <2>4. ToSet(a) = {s[k] : k \in 1 .. i - 1}
    BY <1>2 DEF ToSet
  <2>5. ToSet(b) = {s[i + k] : k \in 1 .. Len(s) - i}
    BY <1>2 DEF ToSet
  <2>6. {s[j] : j \in (DOMAIN s) \ {i}} \subseteq ToSet(a) \cup ToSet(b)
    BY <2>3, <2>4, <2>5
  <2>7. QED
    BY <2>1, <2>2, <2>4, <2>5, <2>6
<1>5. ASSUME IsInjective(s) PROVE IsInjective(a) /\ IsInjective(b) /\ ToSet(a) \cap ToSet(b) = {}
  <2>1. IsInjective(a)
    BY <1>1, <1>2, <1>5 DEF IsInjective
  <2>2. IsInjective(b)
    <3> SUFFICES ASSUME NEW k \in 1 .. Len(s) - i, NEW m \in 1 .. Len(s) - i, b[k] = b[m]
                 PROVE  k = m
      BY <1>2 DEF IsInjective
    <3>1. s[i + k] = s[i + m] /\ i + k \in DOMAIN s /\ i + m \in DOMAIN s
      BY <1>1, <1>2
    <3>2. i + k = i + m
      BY <1>5, <3>1 DEF IsInjective
    <3>3. QED
      BY <1>1, <3>2
  <2>3. ASSUME NEW k \in 1 .. i - 1, NEW m \in 1 .. Len(s) - i, a[k] = b[m] PROVE FALSE
    <3>1. s[k] = s[i + m] /\ k \in DOMAIN s /\ i + m \in DOMAIN s /\ k # i + m
      BY <1>1, <1>2, <2>3
    <3>2. QED
      BY <1>5, <3>1 DEF IsInjective
  <2>4. QED
    BY <1>2, <2>1, <2>2, <2>3 DEF ToSet
<1>6. QED
  BY <1>2, <1>3, <1>4, <1>5, Joined

LEMMA KeptLoop ==
    ASSUME NEW A, NEW s \in Seq(A), NEW S
    PROVE  \E f \in [0 .. Len(s) -> Seq(A)] :
              /\ f[0] = <<>> /\ Kept(s, S) = f[Len(s)]
              /\ \A i \in 1 .. Len(s) :
                    f[i] = IF s[i] \in S THEN Append(f[i - 1], s[i]) ELSE f[i - 1]
<1>1. Len(s) \in Nat /\ \A i \in 1 .. Len(s) : s[i] \in A
  OBVIOUS
<1>2. PICK step : step = [i \in 1 .. Len(s) |->
                            [x \in Seq(A) |-> IF s[i] \in S THEN Append(x, s[i]) ELSE x]]
  OBVIOUS
<1>3. step \in [1 .. Len(s) -> [Seq(A) -> Seq(A)]]
  BY <1>1, <1>2
<1>4. <<>> \in Seq(A)
  OBVIOUS
<1>5. PICK f \in [0 .. Len(s) -> Seq(A)] :
             f[0] = <<>> /\ \A i \in 1 .. Len(s) : f[i] = step[i][f[i - 1]]
  <2>1. step \in Rounds(Len(s), Seq(A))
    BY <1>3 DEF Rounds
  <2>2. \E f : Follows(f, Len(s), Seq(A), <<>>, step)
    BY <1>1, <1>4, <2>1, Iterate
  <2>3. QED
    BY <2>2 DEF Follows
<1>6. \A i \in 1 .. Len(s) : f[i - 1] \in Seq(A) /\ i # 0
  BY <1>1, <1>5
<1>7. \A i \in 1 .. Len(s) :
          f[i] = IF s[i] \in S THEN Append(f[i - 1], s[i]) ELSE f[i - 1]
  BY <1>2, <1>5, <1>6
<1> DEFINE Loop(g) == g = [i \in 0 .. Len(s) |->
                             IF i = 0 THEN <<>>
                             ELSE IF s[i] \in S THEN Append(g[i - 1], s[i]) ELSE g[i - 1]]
           h == CHOOSE g : Loop(g)
<1>8. Loop(f)
  <2>1. \A i \in 0 .. Len(s) : i = 0 \/ i \in 1 .. Len(s)
    BY <1>1
  <2>2. \A i \in 0 .. Len(s) : f[i] = IF i = 0 THEN <<>>
                             ELSE IF s[i] \in S THEN Append(f[i - 1], s[i]) ELSE f[i - 1]
    BY <1>5, <1>6, <1>7, <2>1
  <2>3. QED
    BY <1>5, <2>2
<1>9. Loop(h)
  BY <1>8
<1>10. Kept(s, S) = h[Len(s)]
  BY DEF Kept
<1> HIDE DEF h
<1>11. \A i \in 0 .. Len(s) : h[i] = f[i]
  <2> DEFINE T == {i \in 0 .. Len(s) : h[i] = f[i]}
  <2>1. 0 \in T
    BY <1>1, <1>5, <1>9
  <2>2. ASSUME NEW i \in 1 .. Len(s), i - 1 \in T PROVE i \in T
    <3>1. \A k \in 0 .. Len(s) : h[k] = IF k = 0 THEN <<>>
                                ELSE IF s[k] \in S THEN Append(h[k - 1], s[k]) ELSE h[k - 1]
      BY <1>9
    <3>2. i \in 0 .. Len(s) /\ i # 0
      BY <1>1
    <3>3. h[i] = IF s[i] \in S THEN Append(h[i - 1], s[i]) ELSE h[i - 1]
      BY <3>1, <3>2
    <3>4. QED
      BY <1>1, <1>7, <2>2, <3>3
  <2>3. 0 .. Len(s) \subseteq T
    <3> HIDE DEF T
    <3>1. QED
      BY <1>1, <2>1, <2>2, Climb
  <2>4. QED
    BY <2>3
<1>12. QED
  BY <1>1, <1>5, <1>7, <1>10, <1>11

\* What Kept keeps
LEMMA KeptFacts ==
    ASSUME NEW A, NEW s \in Seq(A), NEW S
    PROVE  /\ Kept(s, S) \in Seq(A)
           /\ ToSet(Kept(s, S)) = ToSet(s) \cap S
           /\ IsInjective(s) => IsInjective(Kept(s, S))
<1>0. PICK f \in [0 .. Len(s) -> Seq(A)] :
              /\ f[0] = <<>> /\ Kept(s, S) = f[Len(s)]
              /\ \A i \in 1 .. Len(s) :
                    f[i] = IF s[i] \in S THEN Append(f[i - 1], s[i]) ELSE f[i - 1]
  BY KeptLoop, SMTT(30)
<1>1. /\ Len(s) \in Nat /\ DOMAIN s = 1 .. Len(s) /\ \A i \in 1 .. Len(s) : s[i] \in A
      /\ \A i \in 0 .. Len(s) : f[i] \in Seq(A)
  <2>1. \A i \in 0 .. Len(s) : f[i] \in Seq(A)
    BY <1>0
  <2>2. Len(s) \in Nat /\ DOMAIN s = 1 .. Len(s) /\ \A i \in 1 .. Len(s) : s[i] \in A
    OBVIOUS
  <2>3. QED
    BY <2>1, <2>2
<1> DEFINE Before(i) == {s[j] : j \in 1 .. i}
           T == {i \in 0 .. Len(s) : /\ ToSet(f[i]) = Before(i) \cap S
                                     /\ IsInjective(s) => IsInjective(f[i])}
<1>2. 0 \in T
  <2>1. ToSet(<<>>) = {} /\ IsInjective(<<>>) /\ Before(0) = {}
    BY DEF ToSet, IsInjective
  <2>2. QED
    BY <1>0, <1>1, <2>1
<1>3. ASSUME NEW i \in 1 .. Len(s), i - 1 \in T PROVE i \in T
  <2>1. /\ f[i - 1] \in Seq(A) /\ s[i] \in A /\ i \in 0 .. Len(s)
        /\ ToSet(f[i - 1]) = Before(i - 1) \cap S
        /\ IsInjective(s) => IsInjective(f[i - 1])
    <3>1. i - 1 \in 0 .. Len(s) /\ i \in 0 .. Len(s)
      BY <1>1
    <3>2. f[i - 1] \in Seq(A) /\ s[i] \in A
      BY <1>1, <3>1
    <3>3. QED
      BY <1>3, <3>1, <3>2
  <2>2. Before(i) = Before(i - 1) \cup {s[i]}
    <3>1. \A j \in 1 .. i : j \in 1 .. i - 1 \/ j = i
      OBVIOUS
    <3>2. i \in 1 .. i /\ \A j \in 1 .. i - 1 : j \in 1 .. i
      OBVIOUS
    <3>3. QED
      BY <3>1, <3>2
  <2>3. IsInjective(s) => s[i] \notin Before(i - 1)
    <3>1. \A j \in 1 .. i - 1 : j \in DOMAIN s /\ j # i
      BY <1>1
    <3>2. QED
      BY <1>1, <3>1 DEF IsInjective
  <2> HIDE DEF Before
  <2>4. CASE s[i] \in S
    <3>1. f[i] = Append(f[i - 1], s[i])
      BY <1>0, <2>4
    <3>2. /\ ToSet(f[i]) = ToSet(f[i - 1]) \cup {s[i]}
          /\ IsInjective(f[i - 1]) /\ s[i] \notin ToSet(f[i - 1]) => IsInjective(f[i])
      BY <2>1, <3>1, Appended
    <3>3. QED
      BY <2>1, <2>2, <2>3, <2>4, <3>2
  <2>5. CASE s[i] \notin S
    BY <1>0, <2>1, <2>2, <2>5
  <2>6. QED
    BY <2>4, <2>5
<1>4. 0 .. Len(s) \subseteq T
  <2> HIDE DEF T
  <2>1. QED
    BY <1>1, <1>2, <1>3, Climb
<1>5. ToSet(s) = Before(Len(s))
  BY <1>1 DEF ToSet
<1>6. Len(s) \in T
  BY <1>1, <1>4
<1>7. QED
  BY <1>0, <1>1, <1>5, <1>6

LEMMA FlattenLoop ==
    ASSUME NEW A, NEW ss \in Seq(Seq(A))
    PROVE  \E f \in [0 .. Len(ss) -> Seq(A)] :
              /\ f[0] = <<>> /\ FlattenSeq(ss) = f[Len(ss)]
              /\ \A i \in 1 .. Len(ss) : f[i] = f[i - 1] \o ss[i]
<1>1. Len(ss) \in Nat /\ \A i \in 1 .. Len(ss) : ss[i] \in Seq(A)
  OBVIOUS
<1>2. PICK step : step = [i \in 1 .. Len(ss) |-> [x \in Seq(A) |-> x \o ss[i]]]
  OBVIOUS
<1>3. step \in Rounds(Len(ss), Seq(A))
  BY <1>1, <1>2 DEF Rounds
<1>4. <<>> \in Seq(A)
  OBVIOUS
<1>5. PICK f : Follows(f, Len(ss), Seq(A), <<>>, step)
  BY <1>1, <1>3, <1>4, Iterate
<1>6. f \in [0 .. Len(ss) -> Seq(A)] /\ f[0] = <<>>
  BY <1>5 DEF Follows
<1>7. \A i \in 1 .. Len(ss) : f[i - 1] \in Seq(A) /\ i # 0
  <2>1. \A i \in 1 .. Len(ss) : i - 1 \in 0 .. Len(ss) /\ i # 0
    BY <1>1
  <2>2. QED
    BY <1>6, <2>1
<1>8. \A i \in 1 .. Len(ss) : f[i] = f[i - 1] \o ss[i]
  BY <1>2, <1>5, <1>7 DEF Follows
<1>9. CASE Len(ss) = 0
  <2>1. FlattenSeq(ss) = ss /\ ss = <<>>
    BY <1>9 DEF FlattenSeq
  <2>2. QED
    BY <1>6, <1>8, <1>9, <2>1
<1>10. CASE Len(ss) # 0
  <2> DEFINE Loop(g) == g = [i \in 1 .. Len(ss) |-> IF i = 1 THEN ss[i] ELSE g[i - 1] \o ss[i]]
             h == CHOOSE g : Loop(g)
  <2>1. FlattenSeq(ss) = h[Len(ss)]
    BY <1>10 DEF FlattenSeq
  <2>2. PICK g : g = [i \in 1 .. Len(ss) |-> f[i]]
    OBVIOUS
  <2>2a. f[1] = ss[1]
    <3>1. 1 \in 1 .. Len(ss)
      BY <1>1, <1>10
    <3>2. f[1] = f[1 - 1] \o ss[1] /\ ss[1] \in Seq(A)
      BY <1>1, <1>8, <3>1
    <3>3. \A x \in Seq(A) : <<>> \o x = x
      OBVIOUS
    <3>4. f[1 - 1] = <<>>
      BY <1>6
    <3>5. QED
      BY <3>2, <3>3, <3>4
  <2>3. Loop(g)
    <3>1. \A i \in 1 .. Len(ss) : i # 1 => i - 1 \in 1 .. Len(ss)
      BY <1>1
    <3>2. ASSUME NEW i \in 1 .. Len(ss) PROVE f[i] = IF i = 1 THEN ss[i] ELSE g[i - 1] \o ss[i]
      <4>1. CASE i = 1
        BY <2>2a, <4>1
      <4>2. CASE i # 1
        BY <1>8, <2>2, <3>1, <4>2
      <4>3. QED
        BY <4>1, <4>2
    <3>3. QED
      BY <2>2, <3>2
  <2>4. Loop(h)
    BY <2>3
  <2> HIDE DEF h
  <2>5. \A k \in 1 .. Len(ss) : h[k] = IF k = 1 THEN ss[k] ELSE h[k - 1] \o ss[k]
    BY <2>4
  <2>6. \A i \in 1 .. Len(ss) : h[i] = f[i]
    <3> DEFINE T == {i \in 0 .. Len(ss) : i # 0 => h[i] = f[i]}
    <3>1. 0 \in T
      BY <1>1
    <3>2. ASSUME NEW i \in 1 .. Len(ss), i - 1 \in T PROVE i \in T
      <4>1. CASE i = 1
        <5>1. h[i] = ss[i]
          BY <2>5, <4>1
        <5>2. QED
          BY <2>2a, <4>1, <5>1
      <4>2. CASE i # 1
        <5>1. h[i] = h[i - 1] \o ss[i]
          BY <2>5, <4>2
        <5>2. h[i - 1] = f[i - 1]
          BY <3>2, <4>2
        <5>3. f[i] = f[i - 1] \o ss[i]
          BY <1>8
        <5>4. h[i] = f[i]
          BY <5>1, <5>2, <5>3
        <5>5. i \in 0 .. Len(ss)
          BY <1>1
        <5>6. QED
          BY <5>4, <5>5
      <4>3. QED
        BY <4>1, <4>2
    <3>3. 0 .. Len(ss) \subseteq T
      <4> HIDE DEF T
      <4>1. QED
        BY <1>1, <3>1, <3>2, Climb
    <3>4. QED
      BY <3>3
  <2>7. FlattenSeq(ss) = f[Len(ss)]
    BY <1>1, <1>10, <2>1, <2>6
  <2>8. QED
    BY <1>6, <1>8, <2>7
<1>11. QED
  BY <1>9, <1>10

\* What FlattenSeq keeps
LEMMA FlattenFacts ==
    ASSUME NEW A, NEW ss \in Seq(Seq(A))
    PROVE  /\ FlattenSeq(ss) \in Seq(A)
           /\ ToSet(FlattenSeq(ss)) = UNION {ToSet(ss[i]) : i \in 1 .. Len(ss)}
           /\ (/\ \A i \in 1 .. Len(ss) : IsInjective(ss[i])
               /\ \A i, j \in 1 .. Len(ss) : i # j => ToSet(ss[i]) \cap ToSet(ss[j]) = {})
                 => IsInjective(FlattenSeq(ss))
<1>0. PICK f \in [0 .. Len(ss) -> Seq(A)] :
              /\ f[0] = <<>> /\ FlattenSeq(ss) = f[Len(ss)]
              /\ \A i \in 1 .. Len(ss) : f[i] = f[i - 1] \o ss[i]
  BY FlattenLoop
<1>1. /\ Len(ss) \in Nat /\ DOMAIN ss = 1 .. Len(ss) /\ \A i \in 1 .. Len(ss) : ss[i] \in Seq(A)
      /\ \A i \in 0 .. Len(ss) : f[i] \in Seq(A)
  <2>1. \A i \in 0 .. Len(ss) : f[i] \in Seq(A)
    BY <1>0
  <2>2. Len(ss) \in Nat /\ DOMAIN ss = 1 .. Len(ss) /\ \A i \in 1 .. Len(ss) : ss[i] \in Seq(A)
    OBVIOUS
  <2>3. QED
    BY <2>1, <2>2
<1> DEFINE Before(i) == UNION {ToSet(ss[j]) : j \in 1 .. i}
           Apart == /\ \A i \in 1 .. Len(ss) : IsInjective(ss[i])
                    /\ \A i, j \in 1 .. Len(ss) : i # j => ToSet(ss[i]) \cap ToSet(ss[j]) = {}
           T == {i \in 0 .. Len(ss) : /\ ToSet(f[i]) = Before(i)
                                      /\ Apart => IsInjective(f[i])}
<1>2. 0 \in T
  <2>1. ToSet(<<>>) = {} /\ IsInjective(<<>>) /\ Before(0) = {}
    BY DEF ToSet, IsInjective
  <2>2. QED
    BY <1>0, <1>1, <2>1
<1>3. ASSUME NEW i \in 1 .. Len(ss), i - 1 \in T PROVE i \in T
  <2>1. /\ f[i - 1] \in Seq(A) /\ ss[i] \in Seq(A) /\ i \in 0 .. Len(ss)
        /\ ToSet(f[i - 1]) = Before(i - 1)
        /\ Apart => IsInjective(f[i - 1])
    BY <1>1, <1>3, SMTT(30)
  <2>2. Before(i) = Before(i - 1) \cup ToSet(ss[i])
    <3>1. \A j \in 1 .. i : j \in 1 .. i - 1 \/ j = i
      OBVIOUS
    <3>2. i \in 1 .. i /\ \A j \in 1 .. i - 1 : j \in 1 .. i
      OBVIOUS
    <3>3. QED
      BY <3>1, <3>2
  <2>3. Apart => IsInjective(ss[i]) /\ ToSet(ss[i]) \cap Before(i - 1) = {}
    <3>1. \A j \in 1 .. i - 1 : j \in 1 .. Len(ss) /\ j # i
      BY <1>1
    <3>2. QED
      BY <3>1
  <2> HIDE DEF Before, Apart
  <2>4. /\ ToSet(f[i]) = ToSet(f[i - 1]) \cup ToSet(ss[i])
        /\ IsInjective(f[i - 1]) /\ IsInjective(ss[i]) /\ ToSet(f[i - 1]) \cap ToSet(ss[i]) = {}
              => IsInjective(f[i])
    <3>1. f[i] = f[i - 1] \o ss[i]
      BY <1>0
    <3>2. QED
      BY <2>1, <3>1, Joined
  <2>5. QED
    BY <2>1, <2>2, <2>3, <2>4
<1>4. 0 .. Len(ss) \subseteq T
  <2> HIDE DEF T
  <2>1. QED
    BY <1>1, <1>2, <1>3, Climb
<1>5. Len(ss) \in T
  <2> HIDE DEF T
  <2>1. QED
    BY <1>1, <1>4
<1>6. QED
  BY <1>0, <1>1, <1>5

-----------------------------------------------------------------------------
(* The programs of a scenario.                                             *)

LEMMA ScenarioFacts ==
    ASSUME NEW c \in ScenarioType
    PROVE  /\ Len(c.parallel) \in Nat \ {0} /\ ThreadsOf(c) = 0 .. Len(c.parallel) - 1
           /\ IsFiniteSet(ThreadsOf(c)) /\ Cardinality(ThreadsOf(c)) = Len(c.parallel)
           /\ DOMAIN Program(c) = ThreadsOf(c)
           /\ \A t \in ThreadsOf(c) : Program(c)[t] \in Seq(Instructions)
           /\ Steps(c) \in Nat
<1>1. c.parallel \in Seq(Seq(Seq(Instructions))) /\ c.parallel # <<>>
  BY DEF ScenarioType, Actors
<1>2. Len(c.parallel) \in Nat \ {0} /\ ThreadsOf(c) = 0 .. Len(c.parallel) - 1
  BY <1>1 DEF ThreadsOf
<1>3. /\ IsFiniteSet(0 .. Len(c.parallel) - 1)
      /\ Cardinality(0 .. Len(c.parallel) - 1) = Len(c.parallel)
  BY <1>2, FS_Interval
<1>4. \A t \in ThreadsOf(c) : Program(c)[t] \in Seq(Instructions)
  <2> SUFFICES ASSUME NEW t \in ThreadsOf(c) PROVE Program(c)[t] \in Seq(Instructions)
    OBVIOUS
  <2>1. c.parallel[t + 1] \in Seq(Seq(Instructions))
    BY <1>1, <1>2
  <2>2. Program(c)[t] = FlattenSeq(c.parallel[t + 1])
    BY DEF Program
  <2>3. QED
    BY <2>1, <2>2, FlattenFacts
<1>5. Steps(c) \in Nat
  <2>1. FlattenSeq(c.parallel) \in Seq(Seq(Instructions))
    BY <1>1, FlattenFacts
  <2>2. FlattenSeq(FlattenSeq(c.parallel)) \in Seq(Instructions)
    BY <2>1, FlattenFacts
  <2>3. PICK all : all = FlattenSeq(FlattenSeq(c.parallel))
    OBVIOUS
  <2>4. Len(all) \in Nat
    BY <2>2, <2>3
  <2>5. Steps(c) = Len(all) + Len(c.parallel)
    BY <2>3 DEF Steps
  <2>6. QED
    BY <1>2, <2>4, <2>5
<1>6. QED
  BY <1>2, <1>3, <1>4, <1>5 DEF Program

LEMMA IncrementsType ==
    ASSUME NEW actors \in Seq(Seq(Instructions))
    PROVE  Increments(actors) \in Nat
<1>1. PICK all : all = FlattenSeq(actors)
  OBVIOUS
<1>2. all \in Seq(Instructions)
  BY <1>1, FlattenFacts
<1>3. IsFiniteSet(1 .. Len(all)) /\ DOMAIN all = 1 .. Len(all)
  BY <1>2, FS_Interval
<1>4. PICK W : W = {i \in DOMAIN all : all[i] = "write"}
  OBVIOUS
<1>5. IsFiniteSet(W)
  BY <1>3, <1>4, FS_Subset
<1>6. Cardinality(W) \in Nat
  BY <1>5, FS_CardinalityType
<1>7. QED
  BY <1>1, <1>4, <1>6 DEF Increments

LEMMA NextActiveIn ==
    ASSUME NEW n \in Nat, NEW active \in SUBSET (0 .. n - 1), active # {}, NEW t \in 0 .. n - 1
    PROVE  NextActive(active, n, t) \in active
<1> DEFINE distance(c) == IF c > t THEN c - t ELSE c - t + n
           D == {distance(c) : c \in active}
<1>1. D \in SUBSET Nat /\ D # {}
  <2>1. ASSUME NEW c \in active PROVE distance(c) \in Nat
    <3>1. c \in Int /\ c >= 0 /\ c <= n - 1 /\ t \in Int /\ t >= 0 /\ t <= n - 1
      OBVIOUS
    <3>2. QED
      BY <3>1
  <2> HIDE DEF distance
  <2>2. QED
    BY <2>1
<1>2. PICK m \in D : \A k \in D : m <= k
  <2> HIDE DEF D
  <2>1. QED
    BY <1>1, Least
<1>3. \E c \in active : \A d \in active : distance(c) <= distance(d)
  BY <1>2
<1>4. NextActive(active, n, t) = CHOOSE c \in active : \A d \in active : distance(c) <= distance(d)
  BY DEF NextActive
<1> HIDE DEF distance
<1>5. QED
  BY <1>3, <1>4

-----------------------------------------------------------------------------
(* The machine of a run: its types, and that the thread with the token can *)
(* run as long as the machine does.                                        *)

Ready(c, m) ==
    /\ m \in Machine(ThreadsOf(c))
    /\ \A t \in ThreadsOf(c) : m.at[t] <= Len(Program(c)[t])
    /\ m.outcome = "running" => m.current \in Runnable(m)

\* The next instruction is a switch point at which a schedule decides
Deciding(p, m) ==
    /\ m.outcome = "running"
    /\ m.at[m.current] # Len(p[m.current])
    /\ p[m.current][m.at[m.current] + 1] = "switch"
    /\ ~(m.switches >= Budget)


\* The machine that decides there
AtSwitch(m) == [[m EXCEPT !.at[m.current] = @ + 1] EXCEPT !.switches = @ + 1]

\* What is recorded of the decisions is the same in m and n
RecordKept(m, n) ==
    /\ n.decisions = m.decisions /\ n.used = m.used
    /\ n.exhausted = m.exhausted /\ n.notRunnable = m.notRunnable

\* Machines that differ at most in what they know of their schedules
Same(m, n) ==
    /\ n.at = m.at /\ n.done = m.done /\ n.owner = m.owner /\ n.level = m.level
    /\ n.waiters = m.waiters /\ n.cell = m.cell /\ n.copy = m.copy /\ n.current = m.current
    /\ n.switches = m.switches /\ n.decisions = m.decisions /\ n.outcome = m.outcome

LEMMA AdvanceDecides ==
    ASSUME NEW c, NEW p, NEW s, NEW m, Deciding(p, m)
    PROVE  Advance(c, p, s, m) = Decide(AtSwitch(m), s, m.current)
BY DEF Advance, Deciding, AtSwitch

LEMMA HandOffReady ==
    ASSUME NEW c \in ScenarioType, NEW m \in Machine(ThreadsOf(c)), NEW t \in ThreadsOf(c),
           \A u \in ThreadsOf(c) : m.at[u] <= Len(Program(c)[u])
    PROVE  Ready(c, HandOff(c, m, t)) /\ RecordKept(m, HandOff(c, m, t))
<1> DEFINE T == ThreadsOf(c)
<1>1. /\ T = 0 .. Len(c.parallel) - 1 /\ Len(c.parallel) \in Nat
      /\ Cardinality(T) = Len(c.parallel)
  BY ScenarioFacts
<1>2. DOMAIN m.at = T
  BY DEF Machine
<1>3. CASE Runnable(m) # {}
  <2>1. PICK u : u = NextActive(Runnable(m), Cardinality(DOMAIN m.at), t)
    OBVIOUS
  <2>2. Runnable(m) \in SUBSET T
    BY <1>2 DEF Runnable
  <2>3. u \in Runnable(m)
    BY <1>1, <1>2, <1>3, <2>1, <2>2, NextActiveIn
  <2>4. PICK n : n = [m EXCEPT !.current = u]
    OBVIOUS
  <2>5. HandOff(c, m, t) = n
    BY <1>3, <2>1, <2>4 DEF HandOff
  <2>6. n \in Machine(T)
    BY <2>2, <2>3, <2>4 DEF Machine
  <2>7. /\ n.at = m.at /\ n.done = m.done /\ n.waiters = m.waiters /\ n.current = u
        /\ RecordKept(m, n)
    BY <2>4 DEF Machine, RecordKept
  <2>8. Runnable(n) = Runnable(m)
    BY <2>7 DEF Runnable
  <2>9. QED
    BY <2>3, <2>5, <2>6, <2>7, <2>8 DEF Ready
<1>4. CASE Runnable(m) = {}
  <2>1. PICK o : o = IF m.done = DOMAIN m.at THEN Verdict(c, m) ELSE "deadlock"
    OBVIOUS
  <2>2. o \in Outcomes /\ o # "running"
    BY <2>1 DEF Verdict, Outcomes
  <2>3. PICK n : n = [m EXCEPT !.outcome = o]
    OBVIOUS
  <2>4. HandOff(c, m, t) = n
    BY <1>4, <2>1, <2>3 DEF HandOff
  <2>5. n \in Machine(T) /\ n.at = m.at /\ n.outcome = o /\ RecordKept(m, n)
    BY <2>2, <2>3 DEF Machine, RecordKept
  <2>6. QED
    BY <2>2, <2>4, <2>5 DEF Ready
<1>5. QED
  BY <1>3, <1>4

LEMMA HandOffSame ==
    ASSUME NEW c, NEW T, NEW m \in Machine(T), NEW n \in Machine(T), NEW t, Same(m, n)
    PROVE  Same(HandOff(c, m, t), HandOff(c, n, t))
<1>1. Runnable(n) = Runnable(m) /\ Verdict(c, n) = Verdict(c, m) /\ n.at = m.at /\ n.done = m.done
  BY DEF Same, Runnable, Verdict
<1>2. PICK u : u = NextActive(Runnable(m), Cardinality(DOMAIN m.at), t)
  OBVIOUS
<1>3. PICK o : o = IF m.done = DOMAIN m.at THEN Verdict(c, m) ELSE "deadlock"
  OBVIOUS
<1>4. /\ HandOff(c, m, t) = IF Runnable(m) # {} THEN [m EXCEPT !.current = u] ELSE [m EXCEPT !.outcome = o]
      /\ HandOff(c, n, t) = IF Runnable(m) # {} THEN [n EXCEPT !.current = u] ELSE [n EXCEPT !.outcome = o]
  BY <1>1, <1>2, <1>3 DEF HandOff
<1>5. Same([m EXCEPT !.current = u], [n EXCEPT !.current = u])
  BY DEF Same, Machine
<1>6. Same([m EXCEPT !.outcome = o], [n EXCEPT !.outcome = o])
  BY DEF Same, Machine
<1>7. QED
  BY <1>4, <1>5, <1>6

LEMMA StepFacts ==
    ASSUME NEW c \in ScenarioType, NEW m, Ready(c, m), m.outcome = "running"
    PROVE  /\ m \in Machine(ThreadsOf(c)) /\ m.current \in ThreadsOf(c) /\ m.current \in Runnable(m)
           /\ DOMAIN m.at = ThreadsOf(c) /\ m.at[m.current] \in Nat
           /\ m.at[m.current] # Len(Program(c)[m.current]) =>
                 /\ Program(c)[m.current][m.at[m.current] + 1] \in Instructions
                 /\ m.at[m.current] + 1 <= Len(Program(c)[m.current])
<1>1. /\ m \in Machine(ThreadsOf(c)) /\ m.current \in Runnable(m)
      /\ \A t \in ThreadsOf(c) : m.at[t] <= Len(Program(c)[t])
  BY DEF Ready
<1>2. m.current \in ThreadsOf(c) /\ DOMAIN m.at = ThreadsOf(c) /\ m.at[m.current] \in Nat
  BY <1>1 DEF Machine
<1>3. PICK q : q = Program(c)[m.current]
  OBVIOUS
<1>4. q \in Seq(Instructions)
  BY <1>2, <1>3, ScenarioFacts
<1>5. PICK k : k = m.at[m.current]
  OBVIOUS
<1>6. k # Len(q) => k + 1 \in 1 .. Len(q)
  BY <1>1, <1>2, <1>3, <1>4, <1>5
<1>7. k # Len(q) => q[k + 1] \in Instructions
  BY <1>4, <1>6
<1>8. QED
  BY <1>1, <1>2, <1>3, <1>4, <1>5, <1>6, <1>7

\* A step at which the schedule decides nothing
LEMMA AdvanceReady ==
    ASSUME NEW c \in ScenarioType, NEW s, NEW m, Ready(c, m), ~Deciding(Program(c), m)
    PROVE  /\ Ready(c, Advance(c, Program(c), s, m))
           /\ RecordKept(m, Advance(c, Program(c), s, m))
<1> DEFINE T == ThreadsOf(c)
           p == Program(c)
           t == m.current
           next == [m EXCEPT !.at[t] = @ + 1]
           a == Advance(c, p, s, m)
<1>1. CASE m.outcome # "running"
  <2>1. a = m
    BY <1>1 DEF Advance
  <2>2. QED
    BY <2>1 DEF RecordKept
<1>2. CASE m.outcome = "running"
  <2>0. /\ m \in Machine(T) /\ t \in T /\ t \in Runnable(m) /\ DOMAIN m.at = T /\ m.at[t] \in Nat
        /\ m.at[t] # Len(p[t]) =>
              p[t][m.at[t] + 1] \in Instructions /\ m.at[t] + 1 <= Len(p[t])
    BY <1>2, StepFacts
  <2>1. \A u \in T : m.at[u] <= Len(p[u])
    BY DEF Ready
  <2>2. CASE m.at[t] = Len(p[t])
    <3>1. PICK n : n = [m EXCEPT !.done = @ \cup {t}]
      OBVIOUS
    <3>2. n \in Machine(T) /\ n.at = m.at /\ RecordKept(m, n)
      BY <2>0, <3>1 DEF Machine, RecordKept
    <3>3. a = HandOff(c, n, t)
      BY <1>2, <2>2, <3>1 DEF Advance
    <3>4. Ready(c, HandOff(c, n, t)) /\ RecordKept(n, HandOff(c, n, t))
      BY <2>0, <2>1, <3>2, HandOffReady
    <3>5. QED
      BY <3>2, <3>3, <3>4 DEF RecordKept
  <2>3. CASE m.at[t] # Len(p[t])
    <3>1. PICK x : x = p[t][m.at[t] + 1]
      OBVIOUS
    <3>2. x \in Instructions
      BY <2>0, <2>3, <3>1
    <3>3. /\ next \in Machine(T) /\ next.at = [m.at EXCEPT ![t] = @ + 1]
          /\ next.done = m.done /\ next.waiters = m.waiters /\ next.current = t
          /\ next.owner = m.owner /\ next.level = m.level /\ next.cell = m.cell
          /\ next.copy = m.copy /\ next.switches = m.switches
          /\ next.outcome = "running" /\ RecordKept(m, next)
      <4>1. PICK at : at = [m.at EXCEPT ![t] = @ + 1]
        OBVIOUS
      <4>2. m.at \in [T -> Nat]
        BY <2>0 DEF Machine
      <4>3. at \in [T -> Nat]
        BY <2>0, <4>1, <4>2
      <4>4. next = [m EXCEPT !.at = at]
        BY <2>0, <4>1 DEF Machine
      <4>5. QED
        BY <1>2, <2>0, <4>1, <4>3, <4>4 DEF Machine, RecordKept
    <3>4. \A u \in T : next.at[u] <= Len(p[u])
      BY <2>0, <2>1, <2>3, <3>3
    <3>5. DOMAIN next.at = T
      BY <2>0, <3>3
    <3>6. PICK n : n = next
      OBVIOUS
    <3> HIDE DEF next
    <3>7. t \notin m.done /\ t \notin ToSet(m.waiters)
      BY <2>0 DEF Runnable
    \* What else a step of the current thread that goes on leaves as it was
    <3>8. ASSUME NEW b \in Machine(T), b.at = next.at, b.done = m.done,
                 ToSet(b.waiters) \subseteq ToSet(m.waiters), b.current = t, RecordKept(m, b)
          PROVE  Ready(c, b)
      <4>1. t \in Runnable(b)
        BY <2>0, <3>5, <3>7, <3>8 DEF Runnable
      <4>2. QED
        BY <3>4, <3>8, <4>1 DEF Ready
    <3>9. CASE x = "switch"
      <4>1. m.switches >= Budget
        BY <1>2, <2>3, <3>1, <3>9 DEF Deciding
      <4>2. PICK b : b = [m EXCEPT !.outcome = "livelock"]
        OBVIOUS
      <4>3. a = b
        BY <1>2, <2>3, <3>1, <3>9, <4>1, <4>2 DEF Advance
      <4>4. b \in Machine(T) /\ b.at = m.at /\ b.outcome = "livelock" /\ RecordKept(m, b)
        BY <2>0, <4>2 DEF Machine, Outcomes, RecordKept
      <4>5. QED
        BY <2>1, <4>3, <4>4 DEF Ready
    <3>10. CASE x = "acquire" /\ m.owner \in {t, NoThread}
      <4>1. PICK b : b = [next EXCEPT !.owner = t, !.level = @ + 1]
        OBVIOUS
      <4>2. a = b
        BY <1>2, <2>3, <3>1, <3>10, <4>1 DEF Advance, next
      <4>3. m.level + 1 \in Nat
        BY <2>0 DEF Machine
      <4>4. /\ b \in Machine(T) /\ b.at = next.at /\ b.done = m.done /\ b.waiters = m.waiters
            /\ b.current = t /\ RecordKept(m, b)
        BY <2>0, <3>3, <4>1, <4>3 DEF Machine, RecordKept
      <4>5. QED
        BY <3>8, <4>2, <4>4
    <3>11. CASE x = "acquire" /\ m.owner \notin {t, NoThread}
      <4>1. PICK b : b = [next EXCEPT !.waiters = Append(@, t)]
        OBVIOUS
      <4>2. a = HandOff(c, b, t)
        BY <1>2, <2>3, <3>1, <3>11, <4>1 DEF Advance, next
      <4>3. Append(m.waiters, t) \in Seq(T)
        BY <2>0 DEF Machine
      <4>4. b \in Machine(T) /\ b.at = next.at /\ RecordKept(m, b)
        BY <3>3, <4>1, <4>3 DEF Machine, RecordKept
      <4>5. Ready(c, HandOff(c, b, t)) /\ RecordKept(b, HandOff(c, b, t))
        BY <2>0, <3>4, <4>4, HandOffReady
      <4>6. QED
        BY <4>2, <4>4, <4>5 DEF RecordKept
    <3>12. CASE x = "release" /\ m.level > 1
      <4>1. PICK b : b = [next EXCEPT !.level = @ - 1]
        OBVIOUS
      <4>2. a = b
        BY <1>2, <2>3, <3>1, <3>12, <4>1 DEF Advance, next
      <4>3. m.level - 1 \in Nat
        BY <2>0, <3>12 DEF Machine
      <4>4. /\ b \in Machine(T) /\ b.at = next.at /\ b.done = m.done /\ b.waiters = m.waiters
            /\ b.current = t /\ RecordKept(m, b)
        BY <3>3, <4>1, <4>3 DEF Machine, RecordKept
      <4>5. QED
        BY <3>8, <4>2, <4>4
    <3>13. CASE x = "release" /\ ~(m.level > 1) /\ m.waiters = <<>>
      <4>1. PICK b : b = [next EXCEPT !.owner = NoThread, !.level = 0]
        OBVIOUS
      <4>2. a = b
        BY <1>2, <2>3, <3>1, <3>13, <4>1 DEF Advance, next
      <4>3. /\ b \in Machine(T) /\ b.at = next.at /\ b.done = m.done /\ b.waiters = m.waiters
            /\ b.current = t /\ RecordKept(m, b)
        BY <3>3, <4>1 DEF Machine, RecordKept
      <4>4. QED
        BY <3>8, <4>2, <4>3
    <3>14. CASE x = "release" /\ ~(m.level > 1) /\ m.waiters # <<>>
      <4>1. PICK b : b = [next EXCEPT !.owner = Head(m.waiters), !.waiters = Tail(@)]
        OBVIOUS
      <4>2. a = b
        BY <1>2, <2>3, <3>1, <3>14, <4>1 DEF Advance, next
      <4>3. m.waiters \in Seq(T)
        BY <2>0 DEF Machine
      <4>4. Head(m.waiters) \in T /\ Tail(m.waiters) \in Seq(T)
        BY <3>14, <4>3
      <4>5. ToSet(Tail(m.waiters)) \subseteq ToSet(m.waiters)
        <5>1. PICK w \in Seq(T) : w = m.waiters /\ w # <<>>
          BY <3>14, <4>3
        <5>2. Len(Tail(w)) = Len(w) - 1 /\ Len(w) \in Nat \ {0} /\ Tail(w) \in Seq(T)
          BY <5>1
        <5>3. \A i \in 1 .. Len(w) - 1 : Tail(w)[i] = w[i + 1] /\ i + 1 \in 1 .. Len(w)
          BY <5>1, <5>2
        <5>4. DOMAIN Tail(w) = 1 .. Len(w) - 1 /\ DOMAIN w = 1 .. Len(w)
          BY <5>1, <5>2
        <5>5. QED
          BY <5>1, <5>3, <5>4 DEF ToSet
      <4>6. /\ b \in Machine(T) /\ b.at = next.at /\ b.done = m.done /\ b.waiters = Tail(m.waiters)
            /\ b.current = t /\ RecordKept(m, b)
        BY <3>3, <4>1, <4>4 DEF Machine, RecordKept
      <4>7. QED
        BY <3>8, <4>2, <4>5, <4>6
    <3>15. CASE x = "read"
      <4>1. PICK b : b = [next EXCEPT !.copy[t] = m.cell]
        OBVIOUS
      <4>2. a = b
        BY <1>2, <2>3, <3>1, <3>15, <4>1 DEF Advance, next
      <4>3. m.cell \in Nat
        BY <2>0 DEF Machine
      <4>4. /\ b \in Machine(T) /\ b.at = next.at /\ b.done = m.done /\ b.waiters = m.waiters
            /\ b.current = t /\ RecordKept(m, b)
        BY <3>3, <4>1, <4>3 DEF Machine, RecordKept
      <4>5. QED
        BY <3>8, <4>2, <4>4
    <3>16. CASE x = "write"
      <4>1. PICK b : b = [next EXCEPT !.cell = m.copy[t] + 1]
        OBVIOUS
      <4>2. a = b
        BY <1>2, <2>3, <3>1, <3>16, <4>1 DEF Advance, next
      <4>3. m.copy[t] + 1 \in Nat
        BY <2>0 DEF Machine
      <4>4. /\ b \in Machine(T) /\ b.at = next.at /\ b.done = m.done /\ b.waiters = m.waiters
            /\ b.current = t /\ RecordKept(m, b)
        BY <3>3, <4>1, <4>3 DEF Machine, RecordKept
      <4>5. QED
        BY <3>8, <4>2, <4>4
    <3>17. QED
      BY <3>2, <3>9, <3>10, <3>11, <3>12, <3>13, <3>14, <3>15, <3>16 DEF Instructions
  <2>4. QED
    BY <2>2, <2>3
<1>3. QED
  BY <1>1, <1>2

\* ... is the same whatever the schedule is
LEMMA AdvanceSame ==
    ASSUME NEW c \in ScenarioType, NEW s, NEW z, NEW m, NEW n, Ready(c, m), Ready(c, n), Same(m, n),
           ~Deciding(Program(c), m)
    PROVE  Same(Advance(c, Program(c), s, m), Advance(c, Program(c), z, n))
<1> DEFINE T == ThreadsOf(c)
           p == Program(c)
           t == m.current
           next == [m EXCEPT !.at[t] = @ + 1]
           nextn == [n EXCEPT !.at[t] = @ + 1]
           a == Advance(c, p, s, m)
           b == Advance(c, p, z, n)
<1>0. /\ m \in Machine(T) /\ n \in Machine(T)
      /\ n.current = t /\ n.outcome = m.outcome /\ n.at = m.at /\ n.switches = m.switches
      /\ n.owner = m.owner /\ n.level = m.level /\ n.waiters = m.waiters
      /\ n.cell = m.cell /\ n.copy = m.copy
  BY DEF Ready, Same
<1>1. CASE m.outcome # "running"
  <2>1. a = m /\ b = n
    BY <1>0, <1>1 DEF Advance
  <2>2. QED
    BY <2>1
<1>2. CASE m.outcome = "running"
  <2>0. /\ t \in T /\ DOMAIN m.at = T /\ m.at[t] \in Nat
        /\ m.at[t] # Len(p[t]) => p[t][m.at[t] + 1] \in Instructions
    BY <1>2, StepFacts
  <2>1. CASE m.at[t] = Len(p[t])
    <3>1. PICK v : v = [m EXCEPT !.done = @ \cup {t}]
      OBVIOUS
    <3>2. PICK w : w = [n EXCEPT !.done = @ \cup {t}]
      OBVIOUS
    <3>3. a = HandOff(c, v, t) /\ b = HandOff(c, w, t)
      BY <1>0, <1>2, <2>1, <3>1, <3>2 DEF Advance
    <3>4. v \in Machine(T) /\ w \in Machine(T) /\ Same(v, w)
      BY <1>0, <2>0, <3>1, <3>2 DEF Machine, Same
    <3>5. QED
      BY <3>3, <3>4, HandOffSame
  <2>2. CASE m.at[t] # Len(p[t])
    <3>1. PICK x : x = p[t][m.at[t] + 1]
      OBVIOUS
    <3>2. x \in Instructions
      BY <2>0, <2>2, <3>1
    <3>3. next \in Machine(T) /\ nextn \in Machine(T) /\ Same(next, nextn)
      <4>1. PICK at : at = [m.at EXCEPT ![t] = @ + 1]
        OBVIOUS
      <4>2. m.at \in [T -> Nat]
        BY <1>0 DEF Machine
      <4>3. at \in [T -> Nat]
        BY <2>0, <4>1, <4>2
      <4>4. next = [m EXCEPT !.at = at] /\ nextn = [n EXCEPT !.at = at]
        BY <1>0, <2>0, <4>1 DEF Machine
      <4>5. QED
        BY <1>0, <4>3, <4>4 DEF Machine, Same
    <3> HIDE DEF next, nextn
    <3>4. CASE x = "switch"
      <4>1. m.switches >= Budget
        BY <1>2, <2>2, <3>1, <3>4 DEF Deciding
      <4>2. a = [m EXCEPT !.outcome = "livelock"] /\ b = [n EXCEPT !.outcome = "livelock"]
        BY <1>0, <1>2, <2>2, <3>1, <3>4, <4>1 DEF Advance
      <4>3. Same([m EXCEPT !.outcome = "livelock"], [n EXCEPT !.outcome = "livelock"])
        BY <1>0 DEF Machine, Same
      <4>4. QED
        BY <4>2, <4>3
    <3>5. CASE x = "acquire" /\ m.owner \in {t, NoThread}
      <4>1. a = [next EXCEPT !.owner = t, !.level = @ + 1] /\ b = [nextn EXCEPT !.owner = t, !.level = @ + 1]
        BY <1>0, <1>2, <2>2, <3>1, <3>5 DEF Advance, next, nextn
      <4>2. Same([next EXCEPT !.owner = t, !.level = @ + 1], [nextn EXCEPT !.owner = t, !.level = @ + 1])
        BY <3>3 DEF Machine, Same
      <4>3. QED
        BY <4>1, <4>2
    <3>6. CASE x = "acquire" /\ m.owner \notin {t, NoThread}
      <4>1. PICK v : v = [next EXCEPT !.waiters = Append(@, t)]
        OBVIOUS
      <4>2. PICK w : w = [nextn EXCEPT !.waiters = Append(@, t)]
        OBVIOUS
      <4>3. a = HandOff(c, v, t) /\ b = HandOff(c, w, t)
        BY <1>0, <1>2, <2>2, <3>1, <3>6, <4>1, <4>2 DEF Advance, next, nextn
      <4>4. next.waiters \in Seq(T) /\ nextn.waiters \in Seq(T)
        BY <3>3 DEF Machine
      <4>5. Append(next.waiters, t) \in Seq(T) /\ Append(nextn.waiters, t) \in Seq(T)
        BY <2>0, <4>4
      <4>6. v \in Machine(T) /\ w \in Machine(T) /\ Same(v, w)
        BY <3>3, <4>1, <4>2, <4>5 DEF Machine, Same
      <4>7. QED
        BY <4>3, <4>6, HandOffSame
    <3>7. CASE x = "release" /\ m.level > 1
      <4>1. a = [next EXCEPT !.level = @ - 1] /\ b = [nextn EXCEPT !.level = @ - 1]
        BY <1>0, <1>2, <2>2, <3>1, <3>7 DEF Advance, next, nextn
      <4>2. Same([next EXCEPT !.level = @ - 1], [nextn EXCEPT !.level = @ - 1])
        BY <3>3 DEF Machine, Same
      <4>3. QED
        BY <4>1, <4>2
    <3>8. CASE x = "release" /\ ~(m.level > 1) /\ m.waiters = <<>>
      <4>1. a = [next EXCEPT !.owner = NoThread, !.level = 0] /\ b = [nextn EXCEPT !.owner = NoThread, !.level = 0]
        BY <1>0, <1>2, <2>2, <3>1, <3>8 DEF Advance, next, nextn
      <4>2. Same([next EXCEPT !.owner = NoThread, !.level = 0], [nextn EXCEPT !.owner = NoThread, !.level = 0])
        BY <3>3 DEF Machine, Same
      <4>3. QED
        BY <4>1, <4>2
    <3>9. CASE x = "release" /\ ~(m.level > 1) /\ m.waiters # <<>>
      <4>0. PICK h : h = Head(m.waiters)
        OBVIOUS
      <4>1. a = [next EXCEPT !.owner = h, !.waiters = Tail(@)] /\ b = [nextn EXCEPT !.owner = h, !.waiters = Tail(@)]
        BY <1>0, <1>2, <2>2, <3>1, <3>9, <4>0 DEF Advance, next, nextn
      <4>2. Same([next EXCEPT !.owner = h, !.waiters = Tail(@)], [nextn EXCEPT !.owner = h, !.waiters = Tail(@)])
        BY <3>3 DEF Machine, Same
      <4>3. QED
        BY <4>1, <4>2
    <3>10. CASE x = "read"
      <4>0. PICK y : y = m.cell
        OBVIOUS
      <4>1. a = [next EXCEPT !.copy[t] = y] /\ b = [nextn EXCEPT !.copy[t] = y]
        BY <1>0, <1>2, <2>2, <3>1, <3>10, <4>0 DEF Advance, next, nextn
      <4>2. Same([next EXCEPT !.copy[t] = y], [nextn EXCEPT !.copy[t] = y])
        BY <3>3 DEF Machine, Same
      <4>3. QED
        BY <4>1, <4>2
    <3>11. CASE x = "write"
      <4>0. PICK y : y = m.copy[t] + 1
        OBVIOUS
      <4>1. a = [next EXCEPT !.cell = y] /\ b = [nextn EXCEPT !.cell = y]
        BY <1>0, <1>2, <2>2, <3>1, <3>11, <4>0 DEF Advance, next, nextn
      <4>2. Same([next EXCEPT !.cell = y], [nextn EXCEPT !.cell = y])
        BY <3>3 DEF Machine, Same
      <4>3. QED
        BY <4>1, <4>2
    <3>12. QED
      BY <3>2, <3>4, <3>5, <3>6, <3>7, <3>8, <3>9, <3>10, <3>11 DEF Instructions
  <2>3. QED
    BY <2>1, <2>2
<1>3. QED
  BY <1>1, <1>2

LEMMA DecidingSame ==
    ASSUME NEW p, NEW m, NEW n, Same(m, n)
    PROVE  Deciding(p, n) <=> Deciding(p, m)
BY DEF Deciding, Same

-----------------------------------------------------------------------------
(* The decisions of a run, and what a schedule has to do with them.        *)

\* Schedule s has a say in the k-th decision, when the threads of A can run
Offered(s, k, A) == k <= Len(s) /\ s[k] \in A

\* What machine m has recorded under schedule s
Recorded(s, m) ==
    LET D == m.decisions IN
    /\ Len(D) <= Len(s) => m.used = Len(D)
    /\ Len(D) > Len(s) => m.used = Len(s)
    /\ m.exhausted <=> Len(D) > Len(s)
    /\ m.notRunnable <=> \E k \in 1 .. Len(D) : k <= Len(s) /\ s[k] \notin D[k].runnable
    /\ \A k \in 1 .. Len(D) :
          /\ D[k].chosen \in D[k].runnable
          /\ Offered(s, k, D[k].runnable) => D[k].chosen = s[k]

\* The first decision is of all threads
FirstOfAll(c, m) == m.decisions # <<>> /\ m.decisions[1].runnable = ThreadsOf(c)

Decisions(T) == [runnable : SUBSET T, chosen : T]

\* Decisions D went on as E, with one more at most
Extended(D, E) == E = D \/ \E e : E = Append(D, e)

LEMMA DecideFacts ==
    ASSUME NEW c \in ScenarioType, NEW s \in Seq(ThreadsOf(c)), NEW m \in Machine(ThreadsOf(c)),
           NEW t \in Runnable(m), Recorded(s, m), \A u \in ThreadsOf(c) : m.at[u] <= Len(Program(c)[u])
    PROVE  LET d == Decide(m, s, t)
               k == Len(m.decisions) + 1
           IN  /\ Ready(c, d) /\ Recorded(s, d)
               /\ d.decisions = Append(m.decisions, [runnable |-> Runnable(m), chosen |-> d.current])
               /\ Offered(s, k, Runnable(m)) => d.current = s[k]
               /\ ~Offered(s, k, Runnable(m)) => d.current = t
               /\ d.at = m.at /\ d.done = m.done /\ d.owner = m.owner /\ d.level = m.level
               /\ d.waiters = m.waiters /\ d.cell = m.cell /\ d.copy = m.copy
               /\ d.switches = m.switches /\ d.outcome = m.outcome
<1> DEFINE T == ThreadsOf(c)
           D == m.decisions
           k == Len(D) + 1
           A == Runnable(m)
<1>1. PICK d : d = Decide(m, s, t)
  OBVIOUS
<1>2. PICK x : x = Choice(m, s, t)
  OBVIOUS
<1>3. PICK e : e = [runnable |-> A, chosen |-> x]
  OBVIOUS
<1>4. /\ Len(s) \in Nat /\ D \in Seq(Decisions(T)) /\ Len(D) \in Nat /\ m.used \in Nat
      /\ m.exhausted \in BOOLEAN /\ m.notRunnable \in BOOLEAN /\ DOMAIN m.at = T
      /\ A \in SUBSET T /\ t \in T
  <2>1. Len(s) \in Nat
    OBVIOUS
  <2>2. D \in Seq(Decisions(T)) /\ m.used \in Nat /\ m.exhausted \in BOOLEAN /\ m.notRunnable \in BOOLEAN
    BY DEF Machine, Decisions
  <2>3. Len(D) \in Nat
    BY <2>2
  <2>4. DOMAIN m.at = T
    BY DEF Machine
  <2>5. A \in SUBSET T
    BY <2>4 DEF Runnable
  <2>6. QED
    BY <2>1, <2>2, <2>3, <2>4, <2>5
<1>5. /\ m.used < Len(s) <=> k <= Len(s)
      /\ m.used < Len(s) => m.used + 1 = k
  BY <1>4 DEF Recorded
<1>6. /\ Offered(s, k, A) => x = s[k]
      /\ ~Offered(s, k, A) => x = t
  BY <1>2, <1>4, <1>5 DEF Choice, Offered
<1>7. x \in A /\ x \in T
  BY <1>4, <1>6 DEF Offered
<1>8. PICK E : E = Append(D, e)
  OBVIOUS
<1>9. /\ E \in Seq(Decisions(T)) /\ Len(E) = k /\ E[k] = e
      /\ \A i \in 1 .. Len(D) : E[i] = D[i]
  <2>1. e \in Decisions(T)
    BY <1>3, <1>4, <1>7 DEF Decisions
  <2>2. QED
    BY <1>4, <1>8, <2>1
<1>10. PICK u : u = IF m.used < Len(s) THEN m.used + 1 ELSE m.used
  OBVIOUS
<1>11. PICK X : X = (m.exhausted \/ m.used >= Len(s))
  OBVIOUS
<1>12. PICK N : N = (m.notRunnable \/ (m.used < Len(s) /\ s[m.used + 1] \notin A))
  OBVIOUS
<1>13. d = [m EXCEPT !.current = x, !.used = u, !.exhausted = X, !.notRunnable = N, !.decisions = E]
  BY <1>1, <1>2, <1>3, <1>4, <1>8, <1>10, <1>11, <1>12 DEF Decide, Machine
<1>14. u \in Nat /\ X \in BOOLEAN /\ N \in BOOLEAN
  BY <1>4, <1>10, <1>11, <1>12
<1>15. /\ d \in Machine(T) /\ d.current = x /\ d.used = u /\ d.exhausted = X /\ d.notRunnable = N
       /\ d.decisions = E
       /\ d.at = m.at /\ d.done = m.done /\ d.owner = m.owner /\ d.level = m.level
       /\ d.waiters = m.waiters /\ d.cell = m.cell /\ d.copy = m.copy
       /\ d.switches = m.switches /\ d.outcome = m.outcome
  BY <1>7, <1>9, <1>13, <1>14 DEF Machine, Decisions
<1>16. Ready(c, d)
  <2>1. x \in Runnable(d)
    BY <1>7, <1>15 DEF Runnable
  <2>2. QED
    BY <1>15, <2>1 DEF Ready
<1>17. Recorded(s, d)
  <2>1. \A i \in 1 .. k : i \in 1 .. Len(D) \/ i = k
    BY <1>4
  <2>2. /\ k <= Len(s) => u = k
        /\ k > Len(s) => u = Len(s)
    BY <1>4, <1>5, <1>10 DEF Recorded
  <2>3. X <=> k > Len(s)
    <3>1. m.used >= Len(s) <=> k > Len(s)
      BY <1>4, <1>5
    <3>2. m.exhausted => k > Len(s)
      BY <1>4 DEF Recorded
    <3>3. X <=> m.exhausted \/ m.used >= Len(s)
      BY <1>11
    <3>4. QED
      BY <3>1, <3>2, <3>3
  <2>4. E[k].runnable = A /\ E[k].chosen = x
    BY <1>3, <1>9
  <2>5. N <=> \E i \in 1 .. k : i <= Len(s) /\ s[i] \notin E[i].runnable
    <3>1. N <=> m.notRunnable \/ (k <= Len(s) /\ s[k] \notin A)
      BY <1>5, <1>12
    <3>2. m.notRunnable <=> \E i \in 1 .. Len(D) : i <= Len(s) /\ s[i] \notin D[i].runnable
      BY DEF Recorded
    <3>3. \A i \in 1 .. Len(D) : i \in 1 .. k
      BY <1>4
    <3>4. k \in 1 .. k
      BY <1>4
    <3>5. QED
      BY <1>9, <2>1, <2>4, <3>1, <3>2, <3>3, <3>4
  <2>6. \A i \in 1 .. k :
            /\ E[i].chosen \in E[i].runnable
            /\ Offered(s, i, E[i].runnable) => E[i].chosen = s[i]
    BY <1>6, <1>7, <1>9, <2>1, <2>4 DEF Recorded
  <2>7. QED
    BY <1>9, <1>15, <2>2, <2>3, <2>5, <2>6 DEF Recorded
<1>18. QED
  BY <1>1, <1>3, <1>6, <1>8, <1>15, <1>16, <1>17

\* Machine b is m one instruction and one switch point further
OneSwitchOn(c, s, m, b) ==
    /\ b \in Machine(ThreadsOf(c)) /\ m.current \in Runnable(b) /\ Runnable(b) = Runnable(m)
    /\ Recorded(s, b) /\ b.decisions = m.decisions /\ b.outcome = m.outcome
    /\ b.at = [m.at EXCEPT ![m.current] = @ + 1] /\ b.switches = m.switches + 1
    /\ b.done = m.done /\ b.owner = m.owner /\ b.level = m.level
    /\ b.waiters = m.waiters /\ b.cell = m.cell /\ b.copy = m.copy /\ b.current = m.current
    /\ \A u \in ThreadsOf(c) : b.at[u] <= Len(Program(c)[u])

LEMMA AtSwitchFacts ==
    ASSUME NEW c \in ScenarioType, NEW s, NEW m, Ready(c, m), Recorded(s, m), Deciding(Program(c), m)
    PROVE  OneSwitchOn(c, s, m, AtSwitch(m))
<1> DEFINE T == ThreadsOf(c)
           t == m.current
<1>0. m.outcome = "running" /\ m.at[t] # Len(Program(c)[t])
  BY DEF Deciding
<1>1. /\ m \in Machine(T) /\ t \in T /\ t \in Runnable(m) /\ DOMAIN m.at = T
      /\ m.at[t] + 1 <= Len(Program(c)[t])
  BY <1>0, StepFacts
<1>2. PICK at : at = [m.at EXCEPT ![t] = @ + 1]
  OBVIOUS
<1>3. PICK w : w = m.switches + 1
  OBVIOUS
<1>4. PICK b : b = AtSwitch(m)
  OBVIOUS
<1>5. b = [m EXCEPT !.at = at, !.switches = w]
  BY <1>1, <1>2, <1>3, <1>4 DEF Machine, AtSwitch
<1>6. at \in [T -> Nat] /\ w \in Nat
  <2>1. m.at \in [T -> Nat] /\ m.switches \in Nat
    BY <1>1 DEF Machine
  <2>2. QED
    BY <1>1, <1>2, <1>3, <2>1
<1>7. /\ b \in Machine(T) /\ b.at = at /\ b.switches = w /\ RecordKept(m, b) /\ b.outcome = m.outcome
      /\ b.current = m.current
      /\ b.done = m.done /\ b.owner = m.owner /\ b.level = m.level
      /\ b.waiters = m.waiters /\ b.cell = m.cell /\ b.copy = m.copy
  BY <1>1, <1>5, <1>6 DEF Machine, RecordKept
<1>8. Runnable(b) = Runnable(m)
  BY <1>1, <1>6, <1>7 DEF Runnable
<1>9. Recorded(s, b)
  BY <1>7 DEF RecordKept, Recorded
<1>10. \A u \in T : b.at[u] <= Len(Program(c)[u])
  <2>1. \A u \in T : m.at[u] <= Len(Program(c)[u])
    BY DEF Ready
  <2>2. \A u \in T : b.at[u] = IF u = t THEN m.at[u] + 1 ELSE m.at[u]
    BY <1>1, <1>2, <1>7 DEF Machine
  <2>3. QED
    BY <1>1, <2>1, <2>2
<1>11. QED
  BY <1>1, <1>2, <1>3, <1>4, <1>7, <1>8, <1>9, <1>10 DEF RecordKept, OneSwitchOn

-----------------------------------------------------------------------------
(* A run is its steps one after the other; two runs of a scenario go the   *)
(* same way until a schedule makes a difference.                           *)

Good(c, s, m) == Ready(c, m) /\ Recorded(s, m) /\ FirstOfAll(c, m)

\* Decisions D and E were the same up to one that schedule s or z had a say in
Split(s, z, D, E) ==
    \E k \in (1 .. Len(D)) \cap (1 .. Len(E)) :
        /\ \A j \in 1 .. k - 1 : D[j] = E[j]
        /\ D[k].runnable = E[k].runnable
        /\ D[k].chosen # E[k].chosen
        /\ Offered(s, k, D[k].runnable) \/ Offered(z, k, D[k].runnable)

\* Two runs, under s and under z, are at one with each other or have split
Twins(s, z, m, n) == Same(m, n) \/ Split(s, z, m.decisions, n.decisions)

LEMMA ExtendedFacts ==
    ASSUME NEW A, NEW D \in Seq(A), NEW E, Extended(D, E)
    PROVE  Len(D) \in Nat /\ Len(E) \in Nat /\ Len(D) <= Len(E) /\ \A i \in 1 .. Len(D) : E[i] = D[i]
<1>1. CASE E = D
  BY <1>1
<1>2. CASE \E e : E = Append(D, e)
  <2>1. PICK e : E = Append(D, e)
    BY <1>2
  <2>2. PICK B : B = A \cup {e}
    OBVIOUS
  <2>3. D \in Seq(B) /\ e \in B
    BY <2>2
  <2>4. Len(D) \in Nat /\ Len(Append(D, e)) = Len(D) + 1 /\ \A i \in 1 .. Len(D) : Append(D, e)[i] = D[i]
    BY <2>3
  <2>5. QED
    BY <2>1, <2>4
<1>3. QED
  BY <1>1, <1>2 DEF Extended

LEMMA GoodDecisions ==
    ASSUME NEW c, NEW s, NEW m, Good(c, s, m)
    PROVE  /\ m \in Machine(ThreadsOf(c)) /\ m.decisions \in Seq(Decisions(ThreadsOf(c)))
           /\ Len(m.decisions) \in Nat \ {0} /\ m.decisions[1].runnable = ThreadsOf(c)
<1>1. m \in Machine(ThreadsOf(c)) /\ m.decisions # <<>> /\ m.decisions[1].runnable = ThreadsOf(c)
  BY DEF Good, Ready, FirstOfAll
<1>2. m.decisions \in Seq(Decisions(ThreadsOf(c)))
  BY <1>1 DEF Machine, Decisions
<1>3. QED
  BY <1>1, <1>2

LEMMA AdvanceGood ==
    ASSUME NEW c \in ScenarioType, NEW s \in Seq(ThreadsOf(c)), NEW m, Good(c, s, m)
    PROVE  /\ Good(c, s, Advance(c, Program(c), s, m))
           /\ Extended(m.decisions, Advance(c, Program(c), s, m).decisions)
<1> DEFINE p == Program(c)
<1>0. PICK a : a = Advance(c, p, s, m)
  OBVIOUS
<1>1. Ready(c, m) /\ Recorded(s, m) /\ FirstOfAll(c, m)
  BY DEF Good
<1>2. /\ Len(m.decisions) \in Nat \ {0} /\ m.decisions \in Seq(Decisions(ThreadsOf(c)))
      /\ m.decisions[1].runnable = ThreadsOf(c)
  BY GoodDecisions
<1>3. CASE Deciding(p, m)
  <2>1. PICK b : b = AtSwitch(m)
    OBVIOUS
  <2>2. a = Decide(b, s, m.current)
    BY <1>0, <1>3, <2>1, AdvanceDecides
  <2>3. /\ b \in Machine(ThreadsOf(c)) /\ m.current \in Runnable(b) /\ Recorded(s, b)
        /\ b.decisions = m.decisions /\ \A u \in ThreadsOf(c) : b.at[u] <= Len(p[u])
    <3>1. OneSwitchOn(c, s, m, b)
      BY <1>1, <1>3, <2>1, AtSwitchFacts
    <3>2. QED
      BY <3>1 DEF OneSwitchOn
  <2>4. /\ Ready(c, a) /\ Recorded(s, a)
        /\ a.decisions = Append(b.decisions, [runnable |-> Runnable(b), chosen |-> a.current])
    BY <2>2, <2>3, DecideFacts
  <2>5. Extended(m.decisions, a.decisions)
    BY <2>3, <2>4 DEF Extended
  <2>6. FirstOfAll(c, a)
    <3>1. Len(a.decisions) \in Nat /\ Len(a.decisions) # 0 /\ a.decisions[1] = m.decisions[1]
      BY <1>2, <2>5, ExtendedFacts
    <3>2. a.decisions # <<>>
      BY <3>1
    <3>3. QED
      BY <1>2, <3>1, <3>2 DEF FirstOfAll
  <2>7. QED
    BY <1>0, <2>4, <2>5, <2>6 DEF Good
<1>4. CASE ~Deciding(p, m)
  <2>1. Ready(c, a) /\ RecordKept(m, a)
    BY <1>0, <1>1, <1>4, AdvanceReady
  <2>2. Recorded(s, a) /\ FirstOfAll(c, a) /\ Extended(m.decisions, a.decisions)
    BY <1>1, <2>1 DEF RecordKept, Recorded, FirstOfAll, Extended
  <2>3. QED
    BY <1>0, <2>1, <2>2 DEF Good
<1>5. QED
  BY <1>3, <1>4

LEMMA DecideTwin ==
    ASSUME NEW c \in ScenarioType, NEW s \in Seq(ThreadsOf(c)), NEW z \in Seq(ThreadsOf(c)),
           NEW m \in Machine(ThreadsOf(c)), NEW n \in Machine(ThreadsOf(c)), NEW t \in Runnable(m),
           \A u \in ThreadsOf(c) : m.at[u] <= Len(Program(c)[u]),
           Recorded(s, m), Recorded(z, n), Same(m, n)
    PROVE  Twins(s, z, Decide(m, s, t), Decide(n, z, t))
<1>1. PICK d : d = Decide(m, s, t)
  OBVIOUS
<1>2. PICK e : e = Decide(n, z, t)
  OBVIOUS
<1>3. PICK k : k = Len(m.decisions) + 1
  OBVIOUS
<1>4. PICK A : A = Runnable(m)
  OBVIOUS
<1>5. Runnable(n) = A /\ n.decisions = m.decisions /\ n.at = m.at
  BY <1>4 DEF Same, Runnable
<1>6. /\ d.decisions = Append(m.decisions, [runnable |-> A, chosen |-> d.current])
      /\ Offered(s, k, A) => d.current = s[k]
      /\ ~Offered(s, k, A) => d.current = t
      /\ d.at = m.at /\ d.done = m.done /\ d.owner = m.owner /\ d.level = m.level
      /\ d.waiters = m.waiters /\ d.cell = m.cell /\ d.copy = m.copy
      /\ d.switches = m.switches /\ d.outcome = m.outcome /\ Ready(c, d)
  BY <1>1, <1>3, <1>4, DecideFacts
<1>7. /\ e.decisions = Append(m.decisions, [runnable |-> A, chosen |-> e.current])
      /\ Offered(z, k, A) => e.current = z[k]
      /\ ~Offered(z, k, A) => e.current = t
      /\ e.at = n.at /\ e.done = n.done /\ e.owner = n.owner /\ e.level = n.level
      /\ e.waiters = n.waiters /\ e.cell = n.cell /\ e.copy = n.copy
      /\ e.switches = n.switches /\ e.outcome = n.outcome /\ Ready(c, e)
  <2>1. t \in Runnable(n) /\ \A u \in ThreadsOf(c) : n.at[u] <= Len(Program(c)[u])
    BY <1>4, <1>5
  <2>2. /\ e.decisions = Append(n.decisions, [runnable |-> Runnable(n), chosen |-> e.current])
        /\ Offered(z, Len(n.decisions) + 1, Runnable(n)) => e.current = z[Len(n.decisions) + 1]
        /\ ~Offered(z, Len(n.decisions) + 1, Runnable(n)) => e.current = t
        /\ e.at = n.at /\ e.done = n.done /\ e.owner = n.owner /\ e.level = n.level
        /\ e.waiters = n.waiters /\ e.cell = n.cell /\ e.copy = n.copy
        /\ e.switches = n.switches /\ e.outcome = n.outcome /\ Ready(c, e)
    BY <1>2, <2>1, DecideFacts
  <2>3. QED
    BY <1>3, <1>5, <2>2
<1>8. CASE d.current = e.current
  BY <1>1, <1>2, <1>6, <1>7, <1>8 DEF Same, Twins
<1>9. CASE d.current # e.current
  <2>1. d.current \in ThreadsOf(c) /\ e.current \in ThreadsOf(c) /\ A \in SUBSET ThreadsOf(c)
    BY <1>4, <1>6, <1>7 DEF Ready, Machine, Runnable
  <2>2. PICK x : x = [runnable |-> A, chosen |-> d.current]
    OBVIOUS
  <2>3. PICK y : y = [runnable |-> A, chosen |-> e.current]
    OBVIOUS
  <2>4. x \in Decisions(ThreadsOf(c)) /\ y \in Decisions(ThreadsOf(c))
    BY <2>1, <2>2, <2>3 DEF Decisions
  <2>5. m.decisions \in Seq(Decisions(ThreadsOf(c)))
    BY DEF Machine, Decisions
  <2>6. PICK D : D = d.decisions
    OBVIOUS
  <2>7. PICK E : E = e.decisions
    OBVIOUS
  <2>8. D = Append(m.decisions, x) /\ E = Append(m.decisions, y)
    BY <1>6, <1>7, <2>2, <2>3, <2>6, <2>7
  <2>9. /\ Len(D) = k /\ Len(E) = k /\ D[k] = x /\ E[k] = y /\ k \in 1 .. k
        /\ \A j \in 1 .. k - 1 : D[j] = E[j]
    BY <1>3, <2>4, <2>5, <2>8
  <2>10. D[k].runnable = A /\ E[k].runnable = A /\ D[k].chosen = d.current /\ E[k].chosen = e.current
    BY <2>2, <2>3, <2>9
  <2>11. Offered(s, k, A) \/ Offered(z, k, A)
    BY <1>6, <1>7, <1>9
  <2>12. Split(s, z, D, E)
    BY <1>9, <2>9, <2>10, <2>11 DEF Split
  <2>13. QED
    BY <1>1, <1>2, <2>6, <2>7, <2>12 DEF Twins
<1>10. QED
  BY <1>8, <1>9

LEMMA SplitStays ==
    ASSUME NEW A, NEW s, NEW z, NEW D \in Seq(A), NEW E \in Seq(A), NEW F, NEW G,
           Split(s, z, D, E), Extended(D, F), Extended(E, G)
    PROVE  Split(s, z, F, G)
<1>1. Len(D) \in Nat /\ Len(F) \in Nat /\ Len(D) <= Len(F) /\ \A i \in 1 .. Len(D) : F[i] = D[i]
  BY ExtendedFacts
<1>2. Len(E) \in Nat /\ Len(G) \in Nat /\ Len(E) <= Len(G) /\ \A i \in 1 .. Len(E) : G[i] = E[i]
  BY ExtendedFacts
<1>3. PICK k \in (1 .. Len(D)) \cap (1 .. Len(E)) :
        /\ \A j \in 1 .. k - 1 : D[j] = E[j]
        /\ D[k].runnable = E[k].runnable
        /\ D[k].chosen # E[k].chosen
        /\ Offered(s, k, D[k].runnable) \/ Offered(z, k, D[k].runnable)
  BY DEF Split
<1>4. k \in (1 .. Len(F)) \cap (1 .. Len(G)) /\ F[k] = D[k] /\ G[k] = E[k]
  BY <1>1, <1>2, <1>3
<1>5. \A j \in 1 .. k - 1 : F[j] = G[j]
  BY <1>1, <1>2, <1>3
<1>6. QED
  BY <1>3, <1>4, <1>5 DEF Split

LEMMA AdvanceTwin ==
    ASSUME NEW c \in ScenarioType, NEW s \in Seq(ThreadsOf(c)), NEW z \in Seq(ThreadsOf(c)),
           NEW m, NEW n, Good(c, s, m), Good(c, z, n),
           Twins(s, z, m, n)
    PROVE  Twins(s, z, Advance(c, Program(c), s, m), Advance(c, Program(c), z, n))
<1> DEFINE p == Program(c)
           T == ThreadsOf(c)
<1>1. PICK a : a = Advance(c, p, s, m)
  OBVIOUS
<1>2. PICK b : b = Advance(c, p, z, n)
  OBVIOUS
<1>3. Extended(m.decisions, a.decisions) /\ Extended(n.decisions, b.decisions)
  BY <1>1, <1>2, AdvanceGood
<1>4. CASE Split(s, z, m.decisions, n.decisions)
  <2>1. m.decisions \in Seq(Decisions(T)) /\ n.decisions \in Seq(Decisions(T))
    BY GoodDecisions
  <2>2. QED
    BY <1>1, <1>2, <1>3, <1>4, <2>1, SplitStays DEF Twins
<1>5. CASE Same(m, n) /\ ~Deciding(p, m)
  <2>1. Ready(c, m) /\ Ready(c, n)
    BY DEF Good
  <2>2. Same(a, b)
    BY <1>1, <1>2, <1>5, <2>1, AdvanceSame
  <2>3. QED
    BY <1>1, <1>2, <2>2 DEF Twins
<1>6. CASE Same(m, n) /\ Deciding(p, m)
  <2>1. Ready(c, m) /\ Ready(c, n) /\ Recorded(s, m) /\ Recorded(z, n)
    BY DEF Good
  <2>2. Deciding(p, n) /\ n.current = m.current
    BY <1>6, DecidingSame DEF Same
  <2>3. PICK v : v = AtSwitch(m)
    OBVIOUS
  <2>4. PICK w : w = AtSwitch(n)
    OBVIOUS
  <2>5. a = Decide(v, s, m.current) /\ b = Decide(w, z, m.current)
    BY <1>1, <1>2, <1>6, <2>2, <2>3, <2>4, AdvanceDecides
  <2>6. OneSwitchOn(c, s, m, v) /\ OneSwitchOn(c, z, n, w)
    BY <1>6, <2>1, <2>2, <2>3, <2>4, AtSwitchFacts
  <2>9. Same(v, w)
    BY <1>6, <2>6 DEF Same, OneSwitchOn
  <2>10. /\ v \in Machine(T) /\ w \in Machine(T) /\ m.current \in Runnable(v)
         /\ Recorded(s, v) /\ Recorded(z, w) /\ \A u \in T : v.at[u] <= Len(p[u])
    BY <2>6 DEF OneSwitchOn
  <2>11. Twins(s, z, a, b)
    BY <2>5, <2>9, <2>10, DecideTwin
  <2>12. QED
    BY <1>1, <1>2, <2>11
<1>7. QED
  BY <1>4, <1>5, <1>6 DEF Twins

LEMMA StartFacts ==
    ASSUME NEW c \in ScenarioType, NEW s \in Seq(ThreadsOf(c)), NEW z \in Seq(ThreadsOf(c))
    PROVE  Good(c, s, Start(c, s)) /\ Twins(s, z, Start(c, s), Start(c, z))
<1> DEFINE T == ThreadsOf(c)
           m == [at |-> [t \in T |-> 0], done |-> {}, owner |-> NoThread, level |-> 0, waiters |-> <<>>,
                 cell |-> Increments(c.init), copy |-> [t \in T |-> 0], current |-> 0, used |-> 0,
                 switches |-> 0, decisions |-> <<>>, exhausted |-> FALSE, notRunnable |-> FALSE,
                 outcome |-> "running"]
<1>1. /\ 0 \in T /\ Increments(c.init) \in Nat
      /\ \A t \in T : Len(Program(c)[t]) \in Nat
  <2>1. 0 \in T /\ \A t \in T : Program(c)[t] \in Seq(Instructions)
    <3>1. Len(c.parallel) \in Nat \ {0} /\ T = 0 .. Len(c.parallel) - 1
      BY ScenarioFacts
    <3>2. 0 \in T
      BY <3>1
    <3>3. QED
      BY <3>2, ScenarioFacts
  <2>2. c.init \in Seq(Seq(Instructions))
    BY DEF ScenarioType, Actors
  <2>3. ASSUME NEW t \in T PROVE Len(Program(c)[t]) \in Nat
    <3>1. PICK q \in Seq(Instructions) : q = Program(c)[t]
      BY <2>1
    <3>2. QED
      BY <3>1
  <2>4. QED
    BY <2>1, <2>2, <2>3, IncrementsType
<1>2. m \in Machine(T)
  <2>1. <<>> \in Seq(T) /\ <<>> \in Seq([runnable : SUBSET T, chosen : T])
    OBVIOUS
  <2>2. [t \in T |-> 0] \in [T -> Nat]
    OBVIOUS
  <2>3. "running" \in Outcomes
    BY DEF Outcomes
  <2>4. QED
    BY <1>1, <2>1, <2>2, <2>3 DEF Machine
<1>3. Runnable(m) = T
  BY DEF Runnable, ToSet
<1>4. \A t \in T : m.at[t] <= Len(Program(c)[t])
  BY <1>1
<1>5. \A y \in Seq(T) : Recorded(y, m)
  <2> SUFFICES ASSUME NEW y \in Seq(T) PROVE Recorded(y, m)
    OBVIOUS
  <2>1. m.decisions = <<>> /\ m.used = 0 /\ m.exhausted = FALSE /\ m.notRunnable = FALSE /\ Len(y) \in Nat
    OBVIOUS
  <2> HIDE DEF m
  <2>2. QED
    BY <2>1 DEF Recorded
<1>6. Start(c, s) = Decide(m, s, 0) /\ Start(c, z) = Decide(m, z, 0)
  BY DEF Start
<1>7. m.decisions = <<>>
  OBVIOUS
<1> HIDE DEF m
<1>8. Twins(s, z, Start(c, s), Start(c, z))
  <2>1. Same(m, m)
    BY DEF Same
  <2>2. QED
    BY <1>1, <1>2, <1>3, <1>4, <1>5, <1>6, <2>1, DecideTwin
<1>9. PICK d : d = Decide(m, s, 0)
  OBVIOUS
<1>10. /\ Ready(c, d) /\ Recorded(s, d)
       /\ d.decisions = Append(m.decisions, [runnable |-> Runnable(m), chosen |-> d.current])
  BY <1>1, <1>2, <1>3, <1>4, <1>5, <1>9, DecideFacts
<1>11. FirstOfAll(c, d)
  <2>1. PICK x : x = [runnable |-> T, chosen |-> d.current]
    OBVIOUS
  <2>2. d.decisions = <<x>> /\ x.runnable = T
    BY <1>3, <1>7, <1>10, <2>1
  <2>3. QED
    BY <2>2 DEF FirstOfAll
<1>12. QED
  BY <1>6, <1>8, <1>9, <1>10, <1>11 DEF Good

\* Run, step by step
RunsAs(M, c, s) ==
    /\ M[0] = Start(c, s)
    /\ \A i \in 1 .. Steps(c) : M[i] = Advance(c, Program(c), s, M[i - 1])
    /\ \A i \in 0 .. Steps(c) : Good(c, s, M[i])
    /\ Run(c, s) = M[Steps(c)]

LEMMA RunLoop ==
    ASSUME NEW c \in ScenarioType, NEW s \in Seq(ThreadsOf(c))
    PROVE  \E M : RunsAs(M, c, s)
<1> DEFINE T == ThreadsOf(c)
           p == Program(c)
           n == Steps(c)
<1>1. n \in Nat /\ DOMAIN p = T
  BY ScenarioFacts
<1>2. PICK S : S = {m \in Machine(T) : Good(c, s, m)}
  OBVIOUS
<1>3. Start(c, s) \in S
  BY <1>2, StartFacts, GoodDecisions
<1>4. \A m \in S : Advance(c, p, s, m) \in S
  BY <1>2, AdvanceGood, GoodDecisions
<1>5. PICK step : step = [i \in 1 .. n |-> [m \in S |-> Advance(c, p, s, m)]]
  OBVIOUS
<1>6. step \in Rounds(n, S)
  BY <1>4, <1>5 DEF Rounds
<1>7. PICK M : Follows(M, n, S, Start(c, s), step)
  BY <1>1, <1>3, <1>6, Iterate
<1>8. M \in [0 .. n -> S] /\ M[0] = Start(c, s)
  BY <1>7 DEF Follows
<1>9. \A i \in 1 .. n : M[i - 1] \in S /\ i # 0
  <2>1. \A i \in 1 .. n : i - 1 \in 0 .. n /\ i # 0
    BY <1>1
  <2>2. QED
    BY <1>8, <2>1
<1>10. \A i \in 1 .. n : M[i] = Advance(c, p, s, M[i - 1])
  BY <1>5, <1>7, <1>9 DEF Follows
<1> DEFINE advance == [m \in Machine(T) |-> Advance(c, p, s, m)]
           Loop(g) == g = [i \in 0 .. n |-> IF i = 0 THEN Start(c, s) ELSE advance[g[i - 1]]]
           h == CHOOSE g : Loop(g)
<1>11. \A m \in S : advance[m] = Advance(c, p, s, m)
  BY <1>2
<1>12. Run(c, s) = h[n]
  BY <1>1 DEF Run
<1> HIDE DEF advance
<1>13. Loop(M)
  <2>1. \A i \in 0 .. n : M[i] = IF i = 0 THEN Start(c, s) ELSE advance[M[i - 1]]
    <3>1. \A i \in 0 .. n : i = 0 \/ i \in 1 .. n
      BY <1>1
    <3>2. QED
      BY <1>8, <1>9, <1>10, <1>11, <3>1
  <2>2. QED
    BY <1>8, <2>1
<1>14. Loop(h)
  BY <1>13
<1> HIDE DEF h
<1>15. n \in {i \in 0 .. n : h[i] = M[i]}
  <2> DEFINE U == {i \in 0 .. n : h[i] = M[i]}
  <2>1. \A i \in 0 .. n : h[i] = IF i = 0 THEN Start(c, s) ELSE advance[h[i - 1]]
    BY <1>14
  <2>2. 0 \in U
    BY <1>1, <1>8, <2>1
  <2>3. ASSUME NEW i \in 1 .. n, i - 1 \in U PROVE i \in U
    <3>1. i \in 0 .. n /\ i # 0
      BY <1>1
    <3>2. h[i] = advance[h[i - 1]] /\ h[i - 1] = M[i - 1]
      BY <2>1, <2>3, <3>1
    <3>3. h[i] = M[i]
      BY <1>9, <1>10, <1>11, <3>2
    <3>4. QED
      BY <3>1, <3>3
  <2>4. 0 .. n \subseteq U
    <3> HIDE DEF U
    <3>1. QED
      BY <1>1, <2>2, <2>3, Climb
  <2>5. QED
    BY <1>1, <2>4
<1>16. \A i \in 0 .. n : Good(c, s, M[i])
  BY <1>2, <1>8
<1>17. QED
  BY <1>8, <1>10, <1>12, <1>15, <1>16 DEF RunsAs

LEMMA RunGood ==
    ASSUME NEW c \in ScenarioType, NEW s \in Seq(ThreadsOf(c))
    PROVE  Good(c, s, Run(c, s))
<1>1. PICK M : RunsAs(M, c, s)
  BY RunLoop
<1>2. Steps(c) \in 0 .. Steps(c)
  BY ScenarioFacts
<1>3. QED
  BY <1>1, <1>2 DEF RunsAs

\* Two runs split, or they are the same but for what they know of their schedules
LEMMA Determined ==
    ASSUME NEW c \in ScenarioType, NEW s \in Seq(ThreadsOf(c)), NEW z \in Seq(ThreadsOf(c))
    PROVE  Twins(s, z, Run(c, s), Run(c, z))
<1>1. PICK M : RunsAs(M, c, s)
  BY RunLoop
<1>2. PICK N : RunsAs(N, c, z)
  BY RunLoop
<1>3. PICK n : n = Steps(c) /\ n \in Nat
  BY ScenarioFacts
<1> DEFINE U == {i \in 0 .. n : Twins(s, z, M[i], N[i])}
<1>4. 0 \in U
  BY <1>1, <1>2, <1>3, StartFacts DEF RunsAs
<1>5. ASSUME NEW i \in 1 .. n, i - 1 \in U PROVE i \in U
  <2>1. i \in 0 .. n /\ i - 1 \in 0 .. n
    BY <1>3
  <2>2. Good(c, s, M[i - 1]) /\ Good(c, z, N[i - 1]) /\ Twins(s, z, M[i - 1], N[i - 1])
    BY <1>1, <1>2, <1>3, <1>5, <2>1 DEF RunsAs
  <2>3. M[i] = Advance(c, Program(c), s, M[i - 1]) /\ N[i] = Advance(c, Program(c), z, N[i - 1])
    BY <1>1, <1>2, <1>3 DEF RunsAs
  <2>4. QED
    BY <2>1, <2>2, <2>3, AdvanceTwin
<1>6. 0 .. n \subseteq U
  <2> HIDE DEF U
  <2>1. QED
    BY <1>3, <1>4, <1>5, Climb
<1>7. Twins(s, z, M[n], N[n])
  BY <1>3, <1>6
<1>8. QED
  BY <1>1, <1>2, <1>3, <1>7 DEF RunsAs

-----------------------------------------------------------------------------
(* Reports and replays.                                                    *)

LEMMA PrefixIs ==
    ASSUME NEW A, NEW s \in Seq(A), NEW t \in Seq(A)
    PROVE  IsPrefix(s, t) <=> Len(s) <= Len(t) /\ \A i \in 1 .. Len(s) : s[i] = t[i]
<1>1. Len(s) \in Nat /\ Len(t) \in Nat
  OBVIOUS
<1>2. SubSeq(s, 1, Len(s)) = s
  OBVIOUS
<1>3. ASSUME Len(s) <= Len(t)
      PROVE  s = SubSeq(t, 1, Len(s)) <=> \A i \in 1 .. Len(s) : s[i] = t[i]
  <2>1. /\ SubSeq(t, 1, Len(s)) \in Seq(A) /\ Len(SubSeq(t, 1, Len(s))) = Len(s)
        /\ \A i \in 1 .. Len(s) : SubSeq(t, 1, Len(s))[i] = t[i]
    BY <1>1, <1>3
  <2>2. PICK u \in Seq(A) : u = SubSeq(t, 1, Len(s))
    BY <2>1
  <2>3. Len(u) = Len(s) /\ \A i \in 1 .. Len(s) : u[i] = t[i]
    BY <2>1, <2>2
  <2>4. s = u <=> \A i \in 1 .. Len(s) : s[i] = u[i]
    BY <2>3
  <2>5. QED
    BY <2>2, <2>3, <2>4
<1>4. QED
  BY <1>2, <1>3 DEF IsPrefix

\* What is reported of a run, decision by decision
LEMMA ReportFacts ==
    ASSUME NEW c \in ScenarioType, NEW s \in Seq(ThreadsOf(c))
    PROVE  LET r == Run(c, s) IN
           /\ Recorded(s, r) /\ r.decisions \in Seq(Decisions(ThreadsOf(c)))
           /\ Len(r.decisions) \in Nat \ {0} /\ r.decisions[1].runnable = ThreadsOf(c)
           /\ Reported(r) \in Seq(ThreadsOf(c)) /\ Len(Reported(r)) = Len(r.decisions)
           /\ \A k \in 1 .. Len(r.decisions) :
                 /\ Reported(r)[k] = r.decisions[k].chosen
                 /\ Reported(r)[k] \in r.decisions[k].runnable
                 /\ r.decisions[k].runnable \in SUBSET ThreadsOf(c)
                 /\ Offered(s, k, r.decisions[k].runnable) => Reported(r)[k] = s[k]
<1> DEFINE T == ThreadsOf(c)
<1>1. PICK r : r = Run(c, s)
  OBVIOUS
<1>2. PICK D : D = r.decisions
  OBVIOUS
<1>3. Good(c, s, r)
  BY <1>1, RunGood
<1>4. D \in Seq(Decisions(T)) /\ Len(D) \in Nat \ {0} /\ D[1].runnable = T
  BY <1>2, <1>3, GoodDecisions
<1>5. \A k \in 1 .. Len(D) : D[k] \in Decisions(T) /\ D[k].chosen \in T /\ D[k].runnable \in SUBSET T
  <2>1. \A d \in Decisions(T) : d.chosen \in T /\ d.runnable \in SUBSET T
    BY DEF Decisions
  <2>2. \A k \in 1 .. Len(D) : D[k] \in Decisions(T)
    BY <1>4
  <2>3. QED
    BY <2>1, <2>2
<1>6. DOMAIN D = 1 .. Len(D)
  BY <1>4
<1>7. PICK R : R = [k \in 1 .. Len(D) |-> D[k].chosen]
  OBVIOUS
<1>8. R \in Seq(T) /\ Len(R) = Len(D) /\ \A k \in 1 .. Len(D) : R[k] = D[k].chosen
  BY <1>4, <1>5, <1>7
<1>9. Reported(r) = R
  BY <1>2, <1>6, <1>7 DEF Reported
<1>10. Recorded(s, r)
  BY <1>3 DEF Good
<1>11. \A k \in 1 .. Len(D) :
          /\ D[k].chosen \in D[k].runnable
          /\ Offered(s, k, D[k].runnable) => D[k].chosen = s[k]
  BY <1>2, <1>10 DEF Recorded
<1>12. QED
  BY <1>1, <1>2, <1>4, <1>5, <1>8, <1>9, <1>10, <1>11

\* A schedule replays exactly when it is what its run reports
LEMMA ExactReplay ==
    ASSUME NEW c \in ScenarioType, NEW s \in Seq(ThreadsOf(c))
    PROVE  ReplayError(Run(c, s), s) = "none" <=> Reported(Run(c, s)) = s
<1>1. PICK r : r = Run(c, s)
  OBVIOUS
<1>2. PICK D : D = r.decisions
  OBVIOUS
<1>3. PICK R : R = Reported(r)
  OBVIOUS
<1>4. /\ Recorded(s, r) /\ Len(D) \in Nat /\ R \in Seq(ThreadsOf(c)) /\ Len(R) = Len(D)
      /\ \A k \in 1 .. Len(D) :
            /\ R[k] \in D[k].runnable
            /\ Offered(s, k, D[k].runnable) => R[k] = s[k]
  BY <1>1, <1>2, <1>3, ReportFacts
<1>5. Len(s) \in Nat
  OBVIOUS
<1>6. /\ Len(D) <= Len(s) => r.used = Len(D)
      /\ Len(D) > Len(s) => r.used = Len(s)
      /\ r.exhausted <=> Len(D) > Len(s)
      /\ r.notRunnable <=> \E k \in 1 .. Len(D) : k <= Len(s) /\ s[k] \notin D[k].runnable
  BY <1>2, <1>4 DEF Recorded
<1>7. ReplayError(r, s) = "none" <=> ~r.exhausted /\ ~r.notRunnable /\ ~(r.used < Len(s))
  <2>1. CASE r.exhausted
    BY <2>1 DEF ReplayError
  <2>2. CASE ~r.exhausted /\ r.notRunnable
    BY <2>2 DEF ReplayError
  <2>3. CASE ~r.exhausted /\ ~r.notRunnable /\ r.used < Len(s)
    BY <2>3 DEF ReplayError
  <2>4. CASE ~r.exhausted /\ ~r.notRunnable /\ ~(r.used < Len(s))
    BY <2>4 DEF ReplayError
  <2>5. QED
    BY <2>1, <2>2, <2>3, <2>4
<1>8. ASSUME ~r.exhausted, ~r.notRunnable, ~(r.used < Len(s)) PROVE R = s
  <2>1. Len(D) = Len(s)
    BY <1>4, <1>5, <1>6, <1>8
  <2>2. \A k \in 1 .. Len(D) : R[k] = s[k]
    BY <1>4, <1>6, <1>8, <2>1 DEF Offered
  <2>3. QED
    BY <1>4, <2>1, <2>2
<1>9. ASSUME R = s PROVE ~r.exhausted /\ ~r.notRunnable /\ ~(r.used < Len(s))
  BY <1>4, <1>5, <1>6, <1>9
<1>10. QED
  BY <1>1, <1>3, <1>7, <1>8, <1>9

\* Where two runs split, schedule s or z wanted another thread
LEMMA SplitPoint ==
    ASSUME NEW c \in ScenarioType, NEW s \in Seq(ThreadsOf(c)), NEW z \in Seq(ThreadsOf(c))
    PROVE  LET r == Run(c, s)
               q == Run(c, z)
           IN  \/ q.decisions = r.decisions /\ q.outcome = r.outcome
               \/ \E k \in (1 .. Len(r.decisions)) \cap (1 .. Len(q.decisions)) :
                     /\ \A j \in 1 .. k - 1 : Reported(r)[j] = Reported(q)[j]
                     /\ r.decisions[k].runnable = q.decisions[k].runnable
                     /\ Reported(r)[k] # Reported(q)[k]
                     /\ \/ Offered(s, k, r.decisions[k].runnable) /\ Reported(r)[k] = s[k]
                        \/ Offered(z, k, r.decisions[k].runnable) /\ Reported(q)[k] = z[k]
<1>1. PICK r : r = Run(c, s)
  OBVIOUS
<1>2. PICK q : q = Run(c, z)
  OBVIOUS
<1>3. Twins(s, z, r, q)
  BY <1>1, <1>2, Determined
<1>4. CASE Same(r, q)
  BY <1>1, <1>2, <1>4 DEF Same
<1>5. CASE Split(s, z, r.decisions, q.decisions)
  <2>1. PICK k \in (1 .. Len(r.decisions)) \cap (1 .. Len(q.decisions)) :
            /\ \A j \in 1 .. k - 1 : r.decisions[j] = q.decisions[j]
            /\ r.decisions[k].runnable = q.decisions[k].runnable
            /\ r.decisions[k].chosen # q.decisions[k].chosen
            /\ Offered(s, k, r.decisions[k].runnable) \/ Offered(z, k, r.decisions[k].runnable)
    BY <1>5 DEF Split
  <2>2. \A j \in 1 .. Len(r.decisions) :
            /\ Reported(r)[j] = r.decisions[j].chosen
            /\ Offered(s, j, r.decisions[j].runnable) => Reported(r)[j] = s[j]
    BY <1>1, ReportFacts
  <2>3. \A j \in 1 .. Len(q.decisions) :
            /\ Reported(q)[j] = q.decisions[j].chosen
            /\ Offered(z, j, q.decisions[j].runnable) => Reported(q)[j] = z[j]
    BY <1>2, ReportFacts
  <2>4. \A j \in 1 .. k - 1 : j \in 1 .. Len(r.decisions) /\ j \in 1 .. Len(q.decisions)
    BY <2>1, ReportFacts, <1>1, <1>2
  <2>5. \A j \in 1 .. k - 1 : Reported(r)[j] = Reported(q)[j]
    BY <2>1, <2>2, <2>3, <2>4, SMTT(30)
  <2>6. Reported(r)[k] # Reported(q)[k]
    BY <2>1, <2>2, <2>3
  <2>7. \/ Offered(s, k, r.decisions[k].runnable) /\ Reported(r)[k] = s[k]
        \/ Offered(z, k, r.decisions[k].runnable) /\ Reported(q)[k] = z[k]
    BY <2>1, <2>2, <2>3
  <2>8. QED
    BY <1>1, <1>2, <2>1, <2>5, <2>6, <2>7
<1>6. QED
  BY <1>3, <1>4, <1>5 DEF Twins

\* What a run reports makes the same decisions again
LEMMA Replayed ==
    ASSUME NEW c \in ScenarioType, NEW s \in Seq(ThreadsOf(c))
    PROVE  LET r == Run(c, s)
               again == Run(c, Reported(r))
           IN  again.decisions = r.decisions /\ again.outcome = r.outcome
<1>1. PICK r : r = Run(c, s)
  OBVIOUS
<1>2. PICK z : z = Reported(r)
  OBVIOUS
<1>3. PICK q : q = Run(c, z)
  OBVIOUS
<1>4. /\ z \in Seq(ThreadsOf(c)) /\ Len(z) = Len(r.decisions) /\ Len(z) \in Nat
      /\ \A k \in 1 .. Len(r.decisions) : z[k] \in r.decisions[k].runnable
  BY <1>1, <1>2, ReportFacts
<1>5. ASSUME NEW k \in (1 .. Len(r.decisions)) \cap (1 .. Len(q.decisions)),
             r.decisions[k].runnable = q.decisions[k].runnable
      PROVE  Reported(q)[k] = z[k]
  <2>1. \A j \in 1 .. Len(q.decisions) : Offered(z, j, q.decisions[j].runnable) => Reported(q)[j] = z[j]
    BY <1>3, <1>4, ReportFacts
  <2>2. Offered(z, k, q.decisions[k].runnable)
    BY <1>4, <1>5 DEF Offered
  <2>3. QED
    BY <2>1, <2>2
<1>6. QED
  BY <1>1, <1>2, <1>3, <1>4, <1>5, SplitPoint, SMTT(30)

\* Where the run of a prefix q of schedule s leaves s, if s can be run: at an
\* alternative of the run, beyond q
LEMMA Branch ==
    ASSUME NEW c \in ScenarioType, NEW q \in Seq(ThreadsOf(c)), NEW s \in Seq(ThreadsOf(c)),
           IsPrefix(q, s), IsPrefix(s, Reported(Run(c, s)))
    PROVE  LET r == Run(c, q) IN
           \/ r.decisions = Run(c, s).decisions /\ r.outcome = Run(c, s).outcome
           \/ \E k \in 1 .. Len(r.decisions) :
                 /\ Len(q) < k /\ k <= Len(s)
                 /\ \A j \in 1 .. k - 1 : s[j] = Reported(r)[j]
                 /\ s[k] \in r.decisions[k].runnable \ {r.decisions[k].chosen}
<1>1. PICK r : r = Run(c, q)
  OBVIOUS
<1>2. PICK z : z = Run(c, s)
  OBVIOUS
<1>3. /\ Len(r.decisions) \in Nat /\ Reported(r) \in Seq(ThreadsOf(c))
      /\ \A k \in 1 .. Len(r.decisions) : Reported(r)[k] = r.decisions[k].chosen
  BY <1>1, ReportFacts
<1>4. /\ Len(z.decisions) \in Nat /\ Reported(z) \in Seq(ThreadsOf(c)) /\ Len(Reported(z)) = Len(z.decisions)
      /\ \A k \in 1 .. Len(z.decisions) : Reported(z)[k] \in z.decisions[k].runnable
  BY <1>2, ReportFacts
<1>5. Len(q) \in Nat /\ Len(s) \in Nat
  OBVIOUS
<1>6. Len(q) <= Len(s) /\ \A i \in 1 .. Len(q) : q[i] = s[i]
  BY PrefixIs
<1>7. Len(s) <= Len(z.decisions) /\ \A i \in 1 .. Len(s) : s[i] = Reported(z)[i]
  BY <1>2, <1>4, PrefixIs
<1>8. CASE z.decisions = r.decisions /\ z.outcome = r.outcome
  BY <1>1, <1>2, <1>8
<1>9. CASE \E k \in (1 .. Len(r.decisions)) \cap (1 .. Len(z.decisions)) :
              /\ \A j \in 1 .. k - 1 : Reported(r)[j] = Reported(z)[j]
              /\ r.decisions[k].runnable = z.decisions[k].runnable
              /\ Reported(r)[k] # Reported(z)[k]
              /\ \/ Offered(q, k, r.decisions[k].runnable) /\ Reported(r)[k] = q[k]
                 \/ Offered(s, k, r.decisions[k].runnable) /\ Reported(z)[k] = s[k]
  <2>1. PICK k \in (1 .. Len(r.decisions)) \cap (1 .. Len(z.decisions)) :
              /\ \A j \in 1 .. k - 1 : Reported(r)[j] = Reported(z)[j]
              /\ r.decisions[k].runnable = z.decisions[k].runnable
              /\ Reported(r)[k] # Reported(z)[k]
              /\ \/ Offered(q, k, r.decisions[k].runnable) /\ Reported(r)[k] = q[k]
                 \/ Offered(s, k, r.decisions[k].runnable) /\ Reported(z)[k] = s[k]
    BY <1>9
  <2>2. k <= Len(s)
    BY <1>5, <1>6, <2>1 DEF Offered
  <2>3. s[k] = Reported(z)[k]
    BY <1>5, <1>7, <2>1, <2>2
  <2>4. ~(k <= Len(q))
    <3> SUFFICES ASSUME k <= Len(q) PROVE FALSE
      OBVIOUS
    <3>1. q[k] = s[k]
      BY <1>5, <1>6, <2>1
    <3>2. Offered(q, k, r.decisions[k].runnable)
      BY <1>4, <2>1, <2>3, <3>1 DEF Offered
    <3>3. Reported(r)[k] = q[k]
      BY <1>1, <2>1, <3>2, ReportFacts
    <3>4. QED
      BY <2>1, <2>3, <3>1, <3>3
  <2>5. s[k] \in r.decisions[k].runnable \ {r.decisions[k].chosen}
    BY <1>3, <1>4, <2>1, <2>3
  <2>6. \A j \in 1 .. k - 1 : s[j] = Reported(r)[j]
    <3>1. \A j \in 1 .. k - 1 : j \in 1 .. Len(s)
      BY <1>5, <2>1, <2>2
    <3>2. QED
      BY <1>7, <2>1, <3>1
  <2>7. Len(q) < k
    BY <1>5, <2>1, <2>4
  <2>8. QED
    BY <1>1, <1>2, <2>1, <2>2, <2>5, <2>6, <2>7
<1>10. QED
  BY <1>1, <1>2, <1>8, <1>9, SplitPoint, SMTT(30)

-----------------------------------------------------------------------------
(* The prefixes of a search.                                               *)

LEMMA BoundedIs ==
    ASSUME NEW A, NEW n \in Nat, NEW s
    PROVE  s \in BoundedSeq(A, n) <=> s \in Seq(A) /\ Len(s) <= n
<1>1. ASSUME NEW m \in 0 .. n, s \in [1 .. m -> A] PROVE s \in Seq(A) /\ Len(s) <= n
  <2>1. m \in Nat
    OBVIOUS
  <2>2. s \in Seq(A) /\ Len(s) = m
    BY <1>1, <2>1
  <2>3. QED
    BY <2>2
<1>2. ASSUME s \in Seq(A), Len(s) <= n PROVE \E m \in 0 .. n : s \in [1 .. m -> A]
  <2>1. Len(s) \in 0 .. n /\ s \in [1 .. Len(s) -> A]
    BY <1>2
  <2>2. QED
    BY <2>1
<1>3. QED
  BY <1>1, <1>2 DEF BoundedSeq, SeqOf

LEMMA SwitchesFacts ==
    ASSUME NEW A, NEW s \in Seq(A)
    PROVE  /\ ContextSwitches(s) \in Nat
           /\ Len(s) <= 1 => ContextSwitches(s) = 0
           /\ Len(s) >= 1 => ContextSwitches(s) <= Len(s) - 1
           /\ \A z \in Seq(A) : IsPrefix(z, s) => ContextSwitches(z) <= ContextSwitches(s)
<1> DEFINE I == {i \in 2 .. Len(s) : s[i] # s[i - 1]}
<1>1. Len(s) \in Nat
  OBVIOUS
<1>2. IsFiniteSet(2 .. Len(s))
  BY <1>1, FS_Interval
<1>3. /\ IsFiniteSet(I) /\ Cardinality(I) \in Nat
      /\ Cardinality(I) <= Cardinality(2 .. Len(s))
  BY <1>2, FS_Subset, FS_CardinalityType
<1>4. ContextSwitches(s) = Cardinality(I)
  BY DEF ContextSwitches
<1>5. ASSUME Len(s) <= 1 PROVE ContextSwitches(s) = 0
  <2>1. I = {}
    BY <1>1, <1>5
  <2>2. QED
    BY <1>4, <2>1, FS_EmptySet
<1>6. ASSUME Len(s) >= 1 PROVE ContextSwitches(s) <= Len(s) - 1
  <2>1. Cardinality(2 .. Len(s)) = IF 2 > Len(s) THEN 0 ELSE Len(s) - 2 + 1
    BY <1>1, FS_Interval
  <2>2. QED
    BY <1>1, <1>3, <1>4, <1>6, <2>1
<1>7. ASSUME NEW z \in Seq(A), IsPrefix(z, s) PROVE ContextSwitches(z) <= ContextSwitches(s)
  <2>1. Len(z) \in Nat /\ Len(z) <= Len(s) /\ \A i \in 1 .. Len(z) : z[i] = s[i]
    BY <1>7, PrefixIs
  <2>2. \A i \in 2 .. Len(z) : i \in 2 .. Len(s) /\ z[i] = s[i] /\ z[i - 1] = s[i - 1]
    BY <1>1, <2>1
  <2>3. PICK J : J = {i \in 2 .. Len(z) : z[i] # z[i - 1]}
    OBVIOUS
  <2>4. J \subseteq I
    BY <2>2, <2>3
  <2>5. Cardinality(J) <= Cardinality(I)
    BY <1>3, <2>4, FS_Subset
  <2>6. QED
    BY <1>4, <2>3, <2>5 DEF ContextSwitches
<1>8. QED
  BY <1>3, <1>4, <1>5, <1>6, <1>7

LEMMA OptionFacts ==
    ASSUME config \in Configurations
    PROVE  config.length \in Nat \ {0} /\ config.switches \in Int /\ config.invocations \in Nat \ {0}
           /\ DepthLimit \in Nat
<1>1. config \in Options
  BY ConfigurationsAssumption
<1>2. config.length \in Nat \ {0} /\ config.switches \in Int /\ config.invocations \in Nat \ {0}
  BY <1>1 DEF Options
<1>3. QED
  BY <1>2 DEF DepthLimit

\* The prefixes that may be queued are the schedules within the bounds
LEMMA AdmittedIs ==
    ASSUME config \in Configurations, NEW s \in Seq(Threads), s # <<>>
    PROVE  Admitted(s) <=> s \in Schedules(config.length) /\ ContextSwitches(s) <= DepthLimit
<1>1. config.length \in Nat \ {0} /\ config.switches \in Int
  BY OptionFacts
<1>2. Len(s) \in Nat /\ Len(s) >= 1
  OBVIOUS
<1>3. ContextSwitches(s) \in Nat /\ ContextSwitches(s) <= Len(s) - 1
  BY <1>2, SwitchesFacts
<1>4. s \in Schedules(config.length) <=> Len(s) <= config.length
  BY <1>1, BoundedIs DEF Schedules
<1>5. QED
  BY <1>1, <1>2, <1>3, <1>4 DEF Admitted, DepthLimit

LEMMA FirstFacts ==
    ASSUME NEW c \in ScenarioType
    PROVE  /\ FirstPrefixes(c) \in Seq(Seq(ThreadsOf(c)))
           /\ ToSet(FirstPrefixes(c)) = {<<t>> : t \in ThreadsOf(c)}
           /\ IsInjective(FirstPrefixes(c))
<1>1. /\ DOMAIN c.parallel = 1 .. Len(c.parallel) /\ Len(c.parallel) \in Nat
      /\ ThreadsOf(c) = 0 .. Len(c.parallel) - 1
  <2>1. c.parallel \in Seq(Seq(Seq(Instructions)))
    BY DEF ScenarioType, Actors
  <2>2. QED
    BY <2>1, ScenarioFacts
<1>2. PICK f : f = [i \in 1 .. Len(c.parallel) |-> <<i - 1>>]
  OBVIOUS
<1>3. FirstPrefixes(c) = f
  BY <1>1, <1>2 DEF FirstPrefixes
<1>4. \A i \in 1 .. Len(c.parallel) : i - 1 \in ThreadsOf(c) /\ <<i - 1>> \in Seq(ThreadsOf(c))
  BY <1>1
<1>5. f \in Seq(Seq(ThreadsOf(c)))
  BY <1>1, <1>2, <1>4
<1>6. ToSet(f) = {<<t>> : t \in ThreadsOf(c)}
  <2>1. \A t \in ThreadsOf(c) : t + 1 \in 1 .. Len(c.parallel) /\ (t + 1) - 1 = t
    BY <1>1
  <2>2. \A t \in ThreadsOf(c) : f[t + 1] = <<t>>
    BY <1>2, <2>1
  <2>3. DOMAIN f = 1 .. Len(c.parallel)
    BY <1>2
  <2>4. ToSet(f) \subseteq {<<t>> : t \in ThreadsOf(c)}
    BY <1>2, <1>4, <2>3 DEF ToSet
  <2>5. {<<t>> : t \in ThreadsOf(c)} \subseteq ToSet(f)
    BY <2>1, <2>2, <2>3 DEF ToSet
  <2>6. QED
    BY <2>4, <2>5
<1>7. IsInjective(f)
  <2> SUFFICES ASSUME NEW i \in 1 .. Len(c.parallel), NEW j \in 1 .. Len(c.parallel), f[i] = f[j]
               PROVE  i = j
    BY <1>2 DEF IsInjective
  <2>1. <<i - 1>> = <<j - 1>>
    BY <1>2
  <2>2. i - 1 = j - 1
    BY <2>1
  <2>3. QED
    BY <1>1, <2>2
<1>8. QED
  BY <1>3, <1>5, <1>6, <1>7

LEMMA OrderFacts ==
    ASSUME scenario \in ScenarioType
    PROVE  ThreadOrder \in Seq(Threads) /\ ToSet(ThreadOrder) = Threads /\ IsInjective(ThreadOrder)
<1>1. /\ DOMAIN scenario.parallel = 1 .. Len(scenario.parallel) /\ Len(scenario.parallel) \in Nat
      /\ Threads = 0 .. Len(scenario.parallel) - 1
  <2>1. scenario.parallel \in Seq(Seq(Seq(Instructions)))
    BY DEF ScenarioType, Actors
  <2>2. QED
    BY <2>1, ScenarioFacts DEF Threads
<1>2. PICK f : f = [i \in 1 .. Len(scenario.parallel) |-> i - 1]
  OBVIOUS
<1>3. ThreadOrder = f
  BY <1>1, <1>2 DEF ThreadOrder
<1>4. \A i \in 1 .. Len(scenario.parallel) : i - 1 \in Threads
  BY <1>1
<1>5. f \in Seq(Threads)
  BY <1>1, <1>2, <1>4
<1>6. ToSet(f) = Threads
  <2>1. \A t \in Threads : t + 1 \in 1 .. Len(scenario.parallel) /\ (t + 1) - 1 = t
    BY <1>1
  <2>2. \A t \in Threads : f[t + 1] = t
    BY <1>2, <2>1
  <2>3. DOMAIN f = 1 .. Len(scenario.parallel)
    BY <1>2
  <2>4. QED
    BY <1>2, <1>4, <2>1, <2>2, <2>3 DEF ToSet
<1>7. IsInjective(f)
  BY <1>1, <1>2 DEF IsInjective
<1>8. QED
  BY <1>3, <1>5, <1>6, <1>7

\* Report R up to its i-th decision, and thread x there
Turned(R, i, x) == Append(SubSeq(R, 1, i - 1), x)

LEMMA TurnedFacts ==
    ASSUME NEW A, NEW R \in Seq(A), NEW i \in 1 .. Len(R), NEW x \in A
    PROVE  /\ Turned(R, i, x) \in Seq(A) /\ Turned(R, i, x) # <<>>
           /\ Len(Turned(R, i, x)) = i /\ Turned(R, i, x)[i] = x
           /\ \A j \in 1 .. i - 1 : Turned(R, i, x)[j] = R[j]
<1>1. PICK b : b = SubSeq(R, 1, i - 1)
  OBVIOUS
<1>2. b \in Seq(A) /\ Len(b) = i - 1 /\ \A j \in 1 .. i - 1 : b[j] = R[j]
  BY <1>1
<1>3. PICK a : a = Append(b, x)
  OBVIOUS
<1>4. a \in Seq(A) /\ Len(a) = i /\ a[i] = x /\ \A j \in 1 .. i - 1 : a[j] = b[j]
  BY <1>2, <1>3
<1>5. a # <<>>
  BY <1>4
<1>6. QED
  BY <1>1, <1>2, <1>3, <1>4, <1>5 DEF Turned

\* At each decision of run r, each other thread that could run
AlternativesOf(r) ==
    UNION {{Turned(Reported(r), i, x) : x \in r.decisions[i].runnable \ {r.decisions[i].chosen}} :
              i \in 1 .. Len(r.decisions)}

LEMMA AlternativesFacts ==
    ASSUME scenario \in ScenarioType, NEW q \in Seq(Threads)
    PROVE  /\ Alternatives(Run(scenario, q), q) \in Seq(Seq(Threads))
           /\ IsInjective(Alternatives(Run(scenario, q), q))
           /\ ToSet(Alternatives(Run(scenario, q), q)) = AlternativesOf(Run(scenario, q))
<1>1. PICK r : r = Run(scenario, q)
  OBVIOUS
<1>2. PICK D : D = r.decisions
  OBVIOUS
<1>3. PICK R : R = Reported(r)
  OBVIOUS
<1>4. PICK n : n = Len(D)
  OBVIOUS
<1>5. /\ n \in Nat /\ R \in Seq(Threads) /\ Len(R) = n
      /\ \A i \in 1 .. n : D[i].runnable \in SUBSET Threads
  <2>1. q \in Seq(ThreadsOf(scenario))
    BY DEF Threads
  <2>2. QED
    BY <1>1, <1>2, <1>3, <1>4, <2>1, ReportFacts DEF Threads
<1>5a. ASSUME NEW i \in 1 .. n, NEW x \in Threads
       PROVE  /\ Turned(R, i, x) \in Seq(Threads) /\ Turned(R, i, x)[i] = x
              /\ Len(Turned(R, i, x)) = i
  <2>1. R \in Seq(Threads) /\ i \in 1 .. Len(R)
    BY <1>5
  <2>2. QED
    BY <2>1, TurnedFacts
<1>6. PICK C : C = [i \in 1 .. n |-> Kept(ThreadOrder, D[i].runnable \ {D[i].chosen})]
  OBVIOUS
<1>7. \A i \in 1 .. n : /\ C[i] \in Seq(Threads) /\ IsInjective(C[i])
                       /\ ToSet(C[i]) = D[i].runnable \ {D[i].chosen}
  <2> SUFFICES ASSUME NEW i \in 1 .. n
               PROVE  /\ C[i] \in Seq(Threads) /\ IsInjective(C[i])
                      /\ ToSet(C[i]) = D[i].runnable \ {D[i].chosen}
    OBVIOUS
  <2>1. C[i] = Kept(ThreadOrder, D[i].runnable \ {D[i].chosen})
    BY <1>6
  <2>2. /\ C[i] \in Seq(Threads) /\ IsInjective(C[i])
        /\ ToSet(C[i]) = Threads \cap (D[i].runnable \ {D[i].chosen})
    BY <2>1, OrderFacts, KeptFacts
  <2>3. D[i].runnable \in SUBSET Threads
    BY <1>5
  <2>4. QED
    BY <2>2, <2>3
<1>8. PICK ss : ss = [i \in 1 .. n |-> [k \in DOMAIN C[i] |-> Turned(R, i, C[i][k])]]
  OBVIOUS
<1>9. Alternatives(r, q) = FlattenSeq(ss)
  BY <1>2, <1>3, <1>4, <1>6, <1>8 DEF Alternatives, Turned
<1>10. \A i \in 1 .. n : /\ ss[i] \in Seq(Seq(Threads)) /\ IsInjective(ss[i])
                        /\ ToSet(ss[i]) = {Turned(R, i, x) : x \in D[i].runnable \ {D[i].chosen}}
  <2> SUFFICES ASSUME NEW i \in 1 .. n
               PROVE  /\ ss[i] \in Seq(Seq(Threads)) /\ IsInjective(ss[i])
                      /\ ToSet(ss[i]) = {Turned(R, i, x) : x \in D[i].runnable \ {D[i].chosen}}
    OBVIOUS
  <2>1. PICK g : g = C[i]
    OBVIOUS
  <2>2. /\ g \in Seq(Threads) /\ IsInjective(g) /\ ToSet(g) = D[i].runnable \ {D[i].chosen}
        /\ Len(g) \in Nat /\ DOMAIN g = 1 .. Len(g)
    BY <1>7, <2>1
  <2>3. PICK h : h = [k \in 1 .. Len(g) |-> Turned(R, i, g[k])]
    OBVIOUS
  <2>4. ss[i] = h
    BY <1>8, <2>1, <2>2, <2>3
  <2>5. \A k \in 1 .. Len(g) : /\ g[k] \in Threads /\ Turned(R, i, g[k]) \in Seq(Threads)
                              /\ Turned(R, i, g[k])[i] = g[k]
    <3>1. \A k \in 1 .. Len(g) : g[k] \in Threads
      BY <2>2
    <3>2. QED
      BY <1>5a, <3>1
  <2>6. h \in Seq(Seq(Threads))
    BY <2>2, <2>3, <2>5
  <2>7. IsInjective(h)
    <3> SUFFICES ASSUME NEW k \in 1 .. Len(g), NEW l \in 1 .. Len(g), h[k] = h[l] PROVE k = l
      BY <2>3 DEF IsInjective
    <3>1. Turned(R, i, g[k]) = Turned(R, i, g[l])
      BY <2>3
    <3>2. g[k] = g[l]
      BY <2>5, <3>1
    <3>3. QED
      BY <2>2, <3>2 DEF IsInjective
  <2>8. ToSet(h) = {Turned(R, i, x) : x \in ToSet(g)}
    BY <2>2, <2>3 DEF ToSet
  <2>9. QED
    BY <2>2, <2>4, <2>6, <2>7, <2>8
<1>11. ss \in Seq(Seq(Seq(Threads))) /\ Len(ss) = n
  BY <1>5, <1>8, <1>10
<1>12. \A i, j \in 1 .. Len(ss) : i # j => ToSet(ss[i]) \cap ToSet(ss[j]) = {}
  <2> SUFFICES ASSUME NEW i \in 1 .. n, NEW j \in 1 .. n, i # j,
                      NEW a, a \in ToSet(ss[i]), a \in ToSet(ss[j])
               PROVE  FALSE
    BY <1>11
  <2>1. D[i].runnable \in SUBSET Threads /\ D[j].runnable \in SUBSET Threads
    BY <1>5
  <2>2. \E x \in Threads : a = Turned(R, i, x)
    BY <1>10, <2>1
  <2>3. \E x \in Threads : a = Turned(R, j, x)
    BY <1>10, <2>1
  <2>4. Len(a) = i
    BY <1>5a, <2>2
  <2>5. Len(a) = j
    BY <1>5a, <2>3
  <2>6. QED
    BY <2>4, <2>5
<1>13. PICK F : F = FlattenSeq(ss)
  OBVIOUS
<1>14. /\ F \in Seq(Seq(Threads)) /\ IsInjective(F)
       /\ ToSet(F) = UNION {ToSet(ss[i]) : i \in 1 .. n}
  BY <1>10, <1>11, <1>12, <1>13, FlattenFacts
<1>15. ToSet(F) = AlternativesOf(r)
  <2>1. PICK G : G = [i \in 1 .. n |-> {Turned(R, i, x) : x \in D[i].runnable \ {D[i].chosen}}]
    OBVIOUS
  <2>2. \A i \in 1 .. n : ToSet(ss[i]) = G[i]
    BY <1>10, <2>1
  <2>3. ToSet(F) = UNION {G[i] : i \in 1 .. n}
    BY <1>14, <2>2
  <2>4. ASSUME NEW a PROVE a \in AlternativesOf(r) <=> \E i \in 1 .. n : a \in G[i]
    <3>1. a \in AlternativesOf(r)
             <=> \E i \in 1 .. Len(r.decisions) :
                    \E x \in r.decisions[i].runnable \ {r.decisions[i].chosen} : a = Turned(Reported(r), i, x)
      BY DEF AlternativesOf
    <3>2. a \in AlternativesOf(r)
             <=> \E i \in 1 .. n : \E x \in D[i].runnable \ {D[i].chosen} : a = Turned(R, i, x)
      BY <1>2, <1>3, <1>4, <3>1
    <3>3. \A i \in 1 .. n : a \in G[i] <=> \E x \in D[i].runnable \ {D[i].chosen} : a = Turned(R, i, x)
      BY <2>1
    <3>4. QED
      BY <3>2, <3>3
  <2>5. QED
    BY <2>3, <2>4
<1>16. QED
  BY <1>1, <1>9, <1>13, <1>14, <1>15

LEMMA SeqOfPart ==
    ASSUME NEW A, NEW s \in Seq(A), NEW B, ToSet(s) \subseteq B
    PROVE  s \in Seq(B)
<1>1. Len(s) \in Nat /\ DOMAIN s = 1 .. Len(s) /\ \A i \in 1 .. Len(s) : s[i] \in B
  BY DEF ToSet
<1>2. s = [i \in 1 .. Len(s) |-> s[i]]
  OBVIOUS
<1>3. [i \in 1 .. Len(s) |-> s[i]] \in Seq(B)
  BY <1>1
<1>4. QED
  BY <1>2, <1>3

\* A scenario with one actor less is a scenario
LEMMA SmallerType ==
    ASSUME NEW c \in ScenarioType
    PROVE  Smaller(c) \in Seq(ScenarioType) /\ Len(Smaller(c)) \in Nat
<1> DEFINE Loose == [init : Actors, post : Actors, parallel : Seq(Actors)]
           fewer == FlattenSeq([t \in DOMAIN c.parallel |->
                        [i \in DOMAIN c.parallel[t] |-> WithoutActor(c, t, i)]])
           f == [i \in DOMAIN c.init |-> [c EXCEPT !.init = RemoveAt(@, i)]]
           g == [i \in DOMAIN c.post |-> [c EXCEPT !.post = RemoveAt(@, i)]]
           h == Kept(fewer, {d \in ToSet(fewer) : d.parallel # <<>>})
<1>1. c.init \in Actors /\ c.post \in Actors /\ c.parallel \in Seq(Actors)
  BY DEF ScenarioType
<1>2. \A a \in Actors : DOMAIN a = 1 .. Len(a) /\ Len(a) \in Nat
  BY DEF Actors
<1>3. \A a \in Actors : \A i \in DOMAIN a : RemoveAt(a, i) \in Actors
  BY Removed DEF Actors
<1>4. f \in Seq(ScenarioType)
  <2>1. \A i \in DOMAIN c.init : [c EXCEPT !.init = RemoveAt(@, i)] \in ScenarioType
    <3> SUFFICES ASSUME NEW i \in DOMAIN c.init PROVE [c EXCEPT !.init = RemoveAt(@, i)] \in ScenarioType
      OBVIOUS
    <3>1. PICK a : a = RemoveAt(c.init, i)
      OBVIOUS
    <3>2. a \in Actors
      BY <1>1, <1>3, <3>1
    <3>3. [c EXCEPT !.init = a] \in ScenarioType
      BY <3>2 DEF ScenarioType
    <3>4. QED
      BY <3>1, <3>3
  <2>2. DOMAIN c.init = 1 .. Len(c.init) /\ Len(c.init) \in Nat
    BY <1>1, <1>2
  <2>3. QED
    BY <2>1, <2>2
<1>5. g \in Seq(ScenarioType)
  <2>1. \A i \in DOMAIN c.post : [c EXCEPT !.post = RemoveAt(@, i)] \in ScenarioType
    <3> SUFFICES ASSUME NEW i \in DOMAIN c.post PROVE [c EXCEPT !.post = RemoveAt(@, i)] \in ScenarioType
      OBVIOUS
    <3>1. PICK a : a = RemoveAt(c.post, i)
      OBVIOUS
    <3>2. a \in Actors
      BY <1>1, <1>3, <3>1
    <3>3. [c EXCEPT !.post = a] \in ScenarioType
      BY <3>2 DEF ScenarioType
    <3>4. QED
      BY <3>1, <3>3
  <2>2. DOMAIN c.post = 1 .. Len(c.post) /\ Len(c.post) \in Nat
    BY <1>1, <1>2
  <2>3. QED
    BY <2>1, <2>2
<1>6. ASSUME NEW t \in DOMAIN c.parallel, NEW i \in DOMAIN c.parallel[t] PROVE WithoutActor(c, t, i) \in Loose
  <2>1. PICK a : a = RemoveAt(c.parallel[t], i)
    OBVIOUS
  <2>2. c.parallel[t] \in Actors
    BY <1>1
  <2>3. a \in Actors
    BY <1>3, <2>1, <2>2
  <2>4. PICK threads : threads = [c.parallel EXCEPT ![t] = a]
    OBVIOUS
  <2>5. threads \in Seq(Actors)
    BY <1>1, <2>3, <2>4
  <2>6. PICK k : k = Kept(threads, ToSet(threads) \ {<<>>})
    OBVIOUS
  <2>7. k \in Seq(Actors)
    BY <2>5, <2>6, KeptFacts
  <2>8. WithoutActor(c, t, i) = [c EXCEPT !.parallel = k]
    BY <2>1, <2>4, <2>6 DEF WithoutActor
  <2>9. QED
    BY <2>7, <2>8 DEF ScenarioType
<1>7. fewer \in Seq(Loose)
  <2>1. ASSUME NEW t \in DOMAIN c.parallel
        PROVE  [i \in DOMAIN c.parallel[t] |-> WithoutActor(c, t, i)] \in Seq(Loose)
    <3>1. c.parallel[t] \in Actors
      BY <1>1
    <3>2. DOMAIN c.parallel[t] = 1 .. Len(c.parallel[t]) /\ Len(c.parallel[t]) \in Nat
      BY <1>2, <3>1
    <3>3. \A i \in 1 .. Len(c.parallel[t]) : WithoutActor(c, t, i) \in Loose
      BY <1>6, <3>2
    <3> HIDE DEF Loose
    <3>4. QED
      BY <3>2, <3>3
  <2>2. PICK ss : ss = [t \in DOMAIN c.parallel |-> [i \in DOMAIN c.parallel[t] |-> WithoutActor(c, t, i)]]
    OBVIOUS
  <2>3. DOMAIN c.parallel = 1 .. Len(c.parallel) /\ Len(c.parallel) \in Nat
    BY <1>1
  <2>4. ss \in Seq(Seq(Loose))
    <3> HIDE DEF Loose
    <3>1. QED
      BY <2>1, <2>2, <2>3
  <2>5. QED
    <3> HIDE DEF Loose
    <3>1. QED
      BY <2>2, <2>4, FlattenFacts
<1> HIDE DEF fewer
<1>8. h \in Seq(ScenarioType)
  <2>1. h \in Seq(Loose) /\ ToSet(h) = ToSet(fewer) \cap {d \in ToSet(fewer) : d.parallel # <<>>}
    <3> HIDE DEF Loose
    <3>1. QED
      BY <1>7, KeptFacts
  <2>2. ToSet(fewer) \subseteq Loose
    <3> HIDE DEF Loose
    <3>1. QED
      BY <1>7 DEF ToSet
  <2>3. \A d \in Loose : d.parallel # <<>> => d \in ScenarioType
    BY DEF ScenarioType
  <2>4. ToSet(h) \subseteq ScenarioType
    BY <2>1, <2>2, <2>3
  <2> HIDE DEF h, Loose
  <2>5. QED
    BY <2>1, <2>4, SeqOfPart
<1>9. Smaller(c) = f \o g \o h
  BY DEF Smaller, fewer
<1> HIDE DEF f, g, h
<1>10. f \o g \in Seq(ScenarioType)
  BY <1>4, <1>5
<1>11. Smaller(c) \in Seq(ScenarioType)
  BY <1>8, <1>9, <1>10
<1>12. QED
  BY <1>11

-----------------------------------------------------------------------------
(* The inductive invariant.                                                *)

Ran(s) == Reported(Run(scenario, s)) \in Executed

\* What has failed is a scenario, and fails as it says
BestInv ==
    best = <<>> \/ \E b : /\ best = <<b>>
                          /\ b.scenario \in ScenarioType
                          /\ Run(b.scenario, b.schedule).outcome = b.outcome

\* Nothing is queued twice or after it was run, and nothing run twice
QueueInv ==
    /\ IsInjective(frontier)
    /\ ToSet(frontier) \subseteq seen
    /\ ToSet(frontier) \cap runs = {}
    /\ IsFiniteSet(runs) /\ explored = Cardinality(runs)
    /\ \A t \in Threads : <<t>> \in seen

\* A schedule that goes on from a prefix that was seen was run, or is still to come
CoverInv ==
    phase # "failed" =>
        \A a \in seen, s \in Schedules(config.length) :
            Feasible(s) /\ IsPrefix(a, s) =>
                Ran(s) \/ \E q \in ToSet(frontier) : IsPrefix(a, q) /\ IsPrefix(q, s)

\* What has fewer context switches than the search has come to was run
SweptInv ==
    \A s \in Schedules(config.length) : Feasible(s) /\ ContextSwitches(s) < depth => Ran(s)

PhaseInv ==
    /\ phase # "failed" => \A s \in runs : Run(scenario, s).outcome = "passed"
    /\ phase = "passed" => frontier = <<>>
    /\ phase = "cut" => explored >= config.invocations /\ frontier # <<>>

\* No schedule of scenario c within the bounds fails, if they do not cut it short
AllPass(c) ==
    Exhaustive(c) => \A s \in BoundedSeq(ThreadsOf(c), config.length) \ {<<>>} :
                        FeasibleIn(c, s) => Run(c, s).outcome = "passed"

\* The smaller scenarios that were searched do not fail; the next is being searched
MinimizeInv ==
    /\ phase = "failed" => best # <<>> /\ candidate = 0
    /\ best # <<>> =>
          /\ phase # "failed" => candidate >= 1 /\ scenario = Smaller(Head(best).scenario)[candidate]
          /\ \A k \in 1 .. candidate :
                k < candidate \/ phase # "exploring" => AllPass(Smaller(Head(best).scenario)[k])

ExploreInv ==
    TypeOK /\ BestInv /\ QueueInv /\ CoverInv /\ SweptInv /\ PhaseInv /\ MinimizeInv

-----------------------------------------------------------------------------
(* A turn of the search that runs a schedule.                              *)

OneRun(q, new) ==
    /\ q \in ToSet(frontier) /\ q \in Seq(Threads) /\ ContextSwitches(q) <= depth
    /\ UNCHANGED <<scenario, config, depth>>
    /\ runs' = runs \cup {q} /\ explored' = explored + 1
    /\ new \subseteq Schedules(config.length) /\ new \cap seen = {}
    /\ \A a \in new : ContextSwitches(a) <= DepthLimit
    /\ seen' = seen \cup new
    /\ frontier' \in Seq(Seq(Threads)) /\ IsInjective(frontier')
    /\ ToSet(frontier') = (ToSet(frontier) \ {q}) \cup new
    /\ phase = "exploring"
    /\ \/ /\ Run(scenario, q).outcome # "passed" /\ new = {} /\ phase' = "failed"
          /\ best' = <<[scenario |-> scenario, schedule |-> q, outcome |-> Run(scenario, q).outcome]>>
          /\ candidate' = 0
       \/ /\ Run(scenario, q).outcome = "passed" /\ UNCHANGED <<phase, best, candidate>>
          /\ \A a \in AlternativesOf(Run(scenario, q)) :
                a \in Schedules(config.length) /\ ContextSwitches(a) <= DepthLimit => a \in seen'

LEMMA SchedulesIn ==
    ASSUME config \in Configurations, NEW s
    PROVE  s \in Schedules(config.length)
              <=> s \in Seq(Threads) /\ Len(s) <= config.length /\ s # <<>>
BY OptionFacts, BoundedIs DEF Schedules

LEMMA RunIsOneRun ==
    ASSUME TypeOK, QueueInv, RunSchedule
    PROVE  \E q, new : OneRun(q, new)
<1>1. PICK i \in DOMAIN frontier : \E r \in {Run(scenario, frontier[i])} :
        /\ Selectable(i)
        /\ runs' = runs \cup {frontier[i]}
        /\ \/ /\ r.outcome # "passed"
              /\ phase' = "failed"
              /\ frontier' = RemoveAt(frontier, i)
              /\ best' = <<[scenario |-> scenario, schedule |-> frontier[i], outcome |-> r.outcome]>>
              /\ candidate' = 0
              /\ UNCHANGED seen
           \/ /\ r.outcome = "passed"
              /\ \E prefixes \in {Alternatives(r, frontier[i])} : \E new \in {New(prefixes)} :
                    /\ frontier' = RemoveAt(frontier, i) \o Kept(prefixes, new)
                    /\ seen' = seen \cup new
              /\ UNCHANGED <<phase, minimizeVars>>
  BY DEF RunSchedule
<1>2. PICK q : q = frontier[i]
  OBVIOUS
<1>3. PICK r : r = Run(scenario, q)
  OBVIOUS
<1>4. /\ scenario \in ScenarioType /\ config \in Configurations /\ frontier \in Seq(Seq(Threads))
      /\ seen \subseteq Schedules(config.length) /\ phase = "exploring"
      /\ IsInjective(frontier) /\ ToSet(frontier) \subseteq seen
  BY DEF TypeOK, QueueInv, RunSchedule
<1>5. q \in Seq(Threads) /\ q \in ToSet(frontier) /\ ContextSwitches(q) <= depth
  BY <1>1, <1>2, <1>4 DEF ToSet, Selectable, Shallow
<1>6. /\ UNCHANGED <<scenario, config, depth>> /\ explored' = explored + 1
      /\ runs' = runs \cup {q}
  BY <1>1, <1>2 DEF RunSchedule
<1>7. PICK rest : rest = RemoveAt(frontier, i)
  OBVIOUS
<1>8. rest \in Seq(Seq(Threads)) /\ IsInjective(rest) /\ ToSet(rest) = ToSet(frontier) \ {q}
  <2>1. /\ rest \in Seq(Seq(Threads)) /\ IsInjective(rest)
        /\ ToSet(rest) = {frontier[j] : j \in (DOMAIN frontier) \ {i}}
    BY <1>4, <1>7, Removed
  <2>2. \A j \in DOMAIN frontier : frontier[j] = q => j = i
    BY <1>2, <1>4 DEF IsInjective
  <2>3. ToSet(rest) = ToSet(frontier) \ {q}
    BY <1>2, <2>1, <2>2 DEF ToSet
  <2>4. QED
    BY <2>1, <2>3
<1>9. CASE /\ r.outcome # "passed"
           /\ phase' = "failed"
           /\ frontier' = rest
           /\ best' = <<[scenario |-> scenario, schedule |-> q, outcome |-> r.outcome]>>
           /\ candidate' = 0
           /\ UNCHANGED seen
  <2>1. OneRun(q, {})
    BY <1>3, <1>4, <1>5, <1>6, <1>8, <1>9 DEF OneRun
  <2>2. QED
    BY <2>1
<1>10. CASE /\ r.outcome = "passed"
            /\ \E prefixes \in {Alternatives(r, q)} : \E new \in {New(prefixes)} :
                    /\ frontier' = rest \o Kept(prefixes, new)
                    /\ seen' = seen \cup new
            /\ UNCHANGED <<phase, minimizeVars>>
  <2>1. PICK prefixes : prefixes = Alternatives(r, q)
    OBVIOUS
  <2>2. PICK new : new = New(prefixes)
    OBVIOUS
  <2>3. frontier' = rest \o Kept(prefixes, new) /\ seen' = seen \cup new
    BY <1>10, <2>1, <2>2
  <2>4. /\ prefixes \in Seq(Seq(Threads)) /\ IsInjective(prefixes)
        /\ ToSet(prefixes) = AlternativesOf(r)
    BY <1>3, <1>4, <1>5, <2>1, AlternativesFacts
  <2>5. new = {a \in AlternativesOf(r) : Admitted(a) /\ a \notin seen}
    BY <2>2, <2>4 DEF New
  <2>6. \A a \in AlternativesOf(r) : a \in Seq(Threads) /\ a # <<>>
    <3> SUFFICES ASSUME NEW a \in AlternativesOf(r) PROVE a \in Seq(Threads) /\ a # <<>>
      OBVIOUS
    <3>1. a \in Seq(Threads)
      BY <2>4 DEF ToSet
    <3>2. PICK k \in 1 .. Len(r.decisions) : \E x \in r.decisions[k].runnable : a = Turned(Reported(r), k, x)
      BY DEF AlternativesOf
    <3>3. q \in Seq(ThreadsOf(scenario))
      BY <1>5 DEF Threads
    <3>4. /\ Reported(r) \in Seq(Threads) /\ Len(Reported(r)) = Len(r.decisions)
          /\ r.decisions[k].runnable \in SUBSET Threads
      BY <1>3, <1>4, <3>3, ReportFacts DEF Threads
    <3>5. PICK x \in Threads : a = Turned(Reported(r), k, x)
      BY <3>2, <3>4
    <3>6. Reported(r) \in Seq(Threads) /\ k \in 1 .. Len(Reported(r)) /\ x \in Threads
      BY <3>4
    <3>7. a # <<>>
      BY <3>5, <3>6, TurnedFacts
    <3>8. QED
      BY <3>1, <3>7
  <2>7. \A a \in AlternativesOf(r) :
            Admitted(a) <=> a \in Schedules(config.length) /\ ContextSwitches(a) <= DepthLimit
    BY <1>4, <2>6, AdmittedIs
  <2>8. PICK kept : kept = Kept(prefixes, new)
    OBVIOUS
  <2>9. kept \in Seq(Seq(Threads)) /\ IsInjective(kept) /\ ToSet(kept) = new
    <3>1. /\ kept \in Seq(Seq(Threads)) /\ IsInjective(kept)
          /\ ToSet(kept) = ToSet(prefixes) \cap new
      BY <2>4, <2>8, KeptFacts
    <3>2. QED
      BY <2>4, <2>5, <3>1
  <2>10. ToSet(rest) \cap ToSet(kept) = {}
    BY <1>4, <1>8, <2>5, <2>9
  <2>11. /\ frontier' \in Seq(Seq(Threads)) /\ IsInjective(frontier')
         /\ ToSet(frontier') = (ToSet(frontier) \ {q}) \cup new
    <3>1. /\ rest \o kept \in Seq(Seq(Threads)) /\ IsInjective(rest \o kept)
          /\ ToSet(rest \o kept) = ToSet(rest) \cup ToSet(kept)
      BY <1>8, <2>9, <2>10, Joined
    <3>2. QED
      BY <1>8, <2>3, <2>8, <2>9, <3>1
  <2>12. /\ new \subseteq Schedules(config.length) /\ new \cap seen = {}
         /\ \A a \in new : ContextSwitches(a) <= DepthLimit
         /\ \A a \in AlternativesOf(r) :
                a \in Schedules(config.length) /\ ContextSwitches(a) <= DepthLimit => a \in seen'
    BY <2>3, <2>5, <2>7
  <2>13. UNCHANGED <<phase, best, candidate>>
    BY <1>10 DEF minimizeVars
  <2>14. OneRun(q, new)
    BY <1>3, <1>4, <1>5, <1>6, <1>10, <2>3, <2>11, <2>12, <2>13 DEF OneRun
  <2>15. QED
    BY <2>14
<1>11. QED
  BY <1>1, <1>2, <1>3, <1>7, <1>9, <1>10

-----------------------------------------------------------------------------
(* Each step keeps the invariant: the types, and what is queued.           *)

LEMMA MinFacts ==
    ASSUME NEW S \in SUBSET Nat, S # {}
    PROVE  Min(S) \in S /\ \A x \in S : Min(S) <= x
<1>1. \E m \in S : \A x \in S : m <= x
  BY Least
<1>2. QED
  BY <1>1 DEF Min

LEMMA MaxFacts ==
    ASSUME NEW n \in Nat, NEW S \in SUBSET (0 .. n), S # {}
    PROVE  Max(S) \in S /\ \A x \in S : x <= Max(S)
<1> DEFINE R == {n - x : x \in S}
<1>1. R \in SUBSET Nat /\ R # {}
  <2>1. \A x \in S : n - x \in Nat
    OBVIOUS
  <2>2. QED
    BY <2>1
<1>2. PICK k \in R : \A x \in R : k <= x
  <2> HIDE DEF R
  <2>1. QED
    BY <1>1, Least
<1>3. PICK m \in S : k = n - m
  BY <1>2
<1>4. \A x \in S : m >= x
  BY <1>2, <1>3
<1>5. Max(S) \in S /\ \A x \in S : Max(S) >= x
  BY <1>3, <1>4 DEF Max
<1>6. QED
  BY <1>5

\* A search begins with a prefix of one choice for each thread
LEMMA FreshFacts ==
    ASSUME NEW c \in ScenarioType, config \in Configurations
    PROVE  /\ FirstPrefixes(c) \in Seq(Seq(ThreadsOf(c)))
           /\ \A s \in ToSet(FirstPrefixes(c)) :
                 /\ s \in BoundedSeq(ThreadsOf(c), config.length) \ {<<>>}
                 /\ ContextSwitches(s) = 0
<1>1. /\ FirstPrefixes(c) \in Seq(Seq(ThreadsOf(c)))
      /\ ToSet(FirstPrefixes(c)) = {<<t>> : t \in ThreadsOf(c)}
  BY FirstFacts
<1>2. ASSUME NEW t \in ThreadsOf(c)
      PROVE  /\ <<t>> \in BoundedSeq(ThreadsOf(c), config.length) \ {<<>>}
             /\ ContextSwitches(<<t>>) = 0
  <2>1. PICK s : s = <<t>>
    OBVIOUS
  <2>2. s \in Seq(ThreadsOf(c)) /\ Len(s) = 1 /\ s # <<>>
    BY <2>1
  <2>3. s \in BoundedSeq(ThreadsOf(c), config.length)
    <3>1. config.length \in Nat /\ 1 <= config.length
      BY OptionFacts
    <3>2. s \in Seq(ThreadsOf(c)) /\ Len(s) <= config.length
      BY <2>2, <3>1
    <3>3. QED
      BY <3>1, <3>2, BoundedIs
  <2>4. ContextSwitches(s) = 0
    <3>1. s \in Seq(ThreadsOf(c)) /\ Len(s) <= 1
      BY <2>2
    <3>2. QED
      BY <3>1, SwitchesFacts
  <2>5. QED
    BY <2>1, <2>2, <2>3, <2>4
<1>3. QED
  BY <1>1, <1>2

\* The scenario that is searched next
LEMMA UntriedFacts ==
    ASSUME TypeOK, BestInv, Minimizing
    PROVE  /\ Smaller(Head(best).scenario) \in Seq(ScenarioType)
           /\ candidate + 1 \in 1 .. Len(Smaller(Head(best).scenario))
           /\ Head(Untried) = Smaller(Head(best).scenario)[candidate + 1]
           /\ Head(Untried) \in ScenarioType
<1>1. PICK sm : sm = Smaller(Head(best).scenario)
  OBVIOUS
<1>2. best # <<>> /\ Untried # <<>>
  BY DEF Minimizing
<1>3. sm \in Seq(ScenarioType) /\ Len(sm) \in Nat
  BY <1>1, <1>2, SmallerType DEF BestInv
<1>4. candidate \in 0 .. Len(sm)
  BY <1>1, <1>2 DEF TypeOK
<1>5. PICK u : u = SubSeq(sm, candidate + 1, Len(sm))
  OBVIOUS
<1>6. Untried = u
  BY <1>1, <1>5 DEF Untried
<1>7. candidate + 1 \in 1 .. Len(sm)
  <2>1. CASE candidate = Len(sm)
    <3>1. u = <<>>
      BY <1>3, <1>5, <2>1
    <3>2. QED
      BY <1>2, <1>6, <3>1
  <2>2. QED
    BY <1>3, <1>4, <2>1
<1>8. Head(u) = sm[candidate + 1] /\ sm[candidate + 1] \in ScenarioType
  BY <1>3, <1>5, <1>7
<1>9. QED
  BY <1>1, <1>3, <1>6, <1>7, <1>8

LEMMA InitTypes == Init => TypeOK /\ BestInv
<1> SUFFICES ASSUME Init PROVE TypeOK /\ BestInv
  OBVIOUS
<1>1. scenario \in ScenarioType /\ config \in Configurations
  BY ScenariosAssumption DEF Init
<1>2. /\ FirstPrefixes(scenario) \in Seq(Seq(ThreadsOf(scenario)))
      /\ \A s \in ToSet(FirstPrefixes(scenario)) :
                 /\ s \in BoundedSeq(ThreadsOf(scenario), config.length) \ {<<>>}
                 /\ ContextSwitches(s) = 0
  BY <1>1, FreshFacts
<1>3. DepthLimit \in Nat
  BY <1>1, OptionFacts
<1>4. frontier \in Seq(Seq(Threads))
  BY <1>2 DEF Init, Threads
<1>5. seen \subseteq Schedules(config.length) /\ \A s \in seen : ContextSwitches(s) <= DepthLimit
  BY <1>2, <1>3 DEF Init, Threads, Schedules
<1>6. QED
  BY <1>1, <1>3, <1>4, <1>5 DEF Init, TypeOK, BestInv

LEMMA DepthFacts ==
    ASSUME TypeOK, QueueInv, frontier # <<>>
    PROVE  /\ NextDepth \in 0 .. DepthLimit
           /\ \A q \in ToSet(frontier) : NextDepth <= ContextSwitches(q)
<1>1. /\ frontier \in Seq(Seq(Threads)) /\ config \in Configurations
      /\ \A s \in seen : ContextSwitches(s) <= DepthLimit
      /\ ToSet(frontier) \subseteq seen
  BY DEF TypeOK, QueueInv
<1>2. DOMAIN frontier # {} /\ FrontierDepths = {ContextSwitches(q) : q \in ToSet(frontier)}
  <2>1. DOMAIN frontier # {}
    <3>1. PICK f \in Seq(Seq(Threads)) : f = frontier /\ f # <<>>
      BY <1>1
    <3>2. Len(f) \in Nat \ {0} /\ DOMAIN f = 1 .. Len(f)
      BY <3>1
    <3>3. 1 \in DOMAIN f
      BY <3>2
    <3>4. QED
      BY <3>1, <3>3
  <2>2. QED
    BY <2>1 DEF FrontierDepths, ToSet
<1>3. \A q \in ToSet(frontier) : ContextSwitches(q) \in Nat
  <2>1. \A q \in ToSet(frontier) : q \in Seq(Threads)
    BY <1>1 DEF ToSet
  <2>2. QED
    BY <2>1, SwitchesFacts
<1>4. FrontierDepths \in SUBSET Nat /\ FrontierDepths # {}
  BY <1>2, <1>3 DEF FrontierDepths
<1>5. NextDepth \in FrontierDepths /\ \A x \in FrontierDepths : NextDepth <= x
  BY <1>4, MinFacts DEF NextDepth
<1>6. DepthLimit \in Nat
  BY <1>1, OptionFacts
<1>7. QED
  BY <1>1, <1>2, <1>3, <1>5, <1>6

LEMMA TypesStep ==
    ASSUME TypeOK, BestInv, QueueInv, [Next]_vars
    PROVE  TypeOK' /\ BestInv'
<1>0. /\ scenario \in ScenarioType /\ config \in Configurations /\ DepthLimit \in Nat
      /\ explored \in Nat
  BY OptionFacts DEF TypeOK
<1>1. ASSUME RunSchedule PROVE TypeOK' /\ BestInv'
  <2>1. PICK q, new : OneRun(q, new)
    BY <1>1, RunIsOneRun
  <2>2. scenario' = scenario /\ config' = config /\ depth' = depth
    BY <2>1 DEF OneRun
  <2>3. frontier' \in Seq(Seq(Threads')) /\ explored' \in Nat
    BY <1>0, <2>1, <2>2 DEF OneRun, Threads
  <2>4. /\ seen' \subseteq Schedules(config.length) /\ \A s \in seen' : ContextSwitches(s) <= DepthLimit
        /\ runs' \subseteq seen'
    BY <2>1 DEF OneRun, TypeOK, QueueInv
  <2>5. /\ seen' \subseteq Schedules(config.length)' /\ DepthLimit' = DepthLimit
        /\ \A s \in seen' : ContextSwitches(s) <= DepthLimit'
    BY <2>2, <2>4 DEF Schedules, Threads, DepthLimit
  <2>6. phase' \in {"exploring", "failed", "cut", "passed"}
    BY <2>1 DEF OneRun
  <2>7. depth' \in 0 .. DepthLimit'
    BY <2>2, <2>5 DEF TypeOK
  <2>8. /\ candidate' \in 0 .. (IF best' = <<>> THEN 0 ELSE Len(Smaller(Head(best').scenario)))
        /\ BestInv'
    <3>1. CASE /\ best' = <<[scenario |-> scenario, schedule |-> q, outcome |-> Run(scenario, q).outcome]>>
               /\ candidate' = 0
      <4>1. PICK b : b = [scenario |-> scenario, schedule |-> q, outcome |-> Run(scenario, q).outcome]
        OBVIOUS
      <4>2. /\ b.scenario = scenario /\ b.schedule = q /\ b.outcome = Run(scenario, q).outcome
            /\ best' = <<b>>
        BY <3>1, <4>1
      <4>3. BestInv'
        BY <1>0, <4>2 DEF BestInv
      <4>4. Head(best').scenario = scenario /\ best' # <<>>
        BY <4>2
      <4>5. Len(Smaller(Head(best').scenario)) \in Nat
        BY <1>0, <4>4, SmallerType
      <4>6. QED
        BY <3>1, <4>3, <4>4, <4>5
    <3>2. CASE UNCHANGED <<best, candidate>>
      BY <3>2 DEF TypeOK, BestInv
    <3>3. QED
      BY <2>1, <3>1, <3>2 DEF OneRun
  <2>9. QED
    BY <1>0, <2>2, <2>3, <2>4, <2>5, <2>6, <2>7, <2>8 DEF TypeOK
<1>2. ASSUME UNCHANGED <<scenario, config, frontier, seen, explored, runs, minimizeVars>>,
             depth' \in 0 .. DepthLimit, phase' \in {"exploring", "failed", "cut", "passed"}
      PROVE  TypeOK' /\ BestInv'
  BY <1>2 DEF TypeOK, BestInv, Threads, Schedules, DepthLimit, minimizeVars
<1>3. ASSUME BudgetSpent PROVE TypeOK' /\ BestInv'
  <2>1. depth \in 0 .. DepthLimit
    BY DEF TypeOK
  <2>2. QED
    BY <1>2, <1>3, <2>1 DEF BudgetSpent
<1>4. ASSUME Deepen PROVE TypeOK' /\ BestInv'
  <2>1. NextDepth \in 0 .. DepthLimit
    BY <1>4, DepthFacts DEF Deepen
  <2>2. phase \in {"exploring", "failed", "cut", "passed"}
    BY DEF TypeOK
  <2>3. QED
    BY <1>2, <1>4, <2>1, <2>2 DEF Deepen
<1>5. ASSUME Stop PROVE TypeOK' /\ BestInv'
  <2>1. depth \in 0 .. DepthLimit
    BY DEF TypeOK
  <2>2. QED
    BY <1>2, <1>5, <2>1 DEF Stop
<1>6. ASSUME TryCandidate PROVE TypeOK' /\ BestInv'
  <2>1. /\ scenario' = Head(Untried) /\ Head(Untried) \in ScenarioType
        /\ candidate' = candidate + 1 /\ best # <<>> /\ best' = best
        /\ candidate + 1 \in 1 .. Len(Smaller(Head(best).scenario))
        /\ config' = config /\ frontier' = FirstPrefixes(scenario') /\ seen' = ToSet(frontier')
        /\ depth' = 0 /\ explored' = 0 /\ runs' = {} /\ phase' = "exploring"
    BY <1>6, UntriedFacts DEF TryCandidate, Minimizing
  <2>2. PICK c \in ScenarioType : c = scenario'
    BY <2>1
  <2>3. /\ FirstPrefixes(c) \in Seq(Seq(ThreadsOf(c)))
        /\ \A s \in ToSet(FirstPrefixes(c)) :
                 /\ s \in BoundedSeq(ThreadsOf(c), config.length) \ {<<>>}
                 /\ ContextSwitches(s) = 0
    BY <1>0, FreshFacts
  <2>4. DepthLimit' = DepthLimit
    BY <2>1 DEF DepthLimit
  <2>5. Threads' = ThreadsOf(c) /\ Schedules(config.length)' = BoundedSeq(ThreadsOf(c), config.length) \ {<<>>}
    BY <2>1, <2>2 DEF Threads, Schedules
  <2>6. /\ frontier' \in Seq(Seq(Threads')) /\ seen' \subseteq Schedules(config.length)'
        /\ \A s \in seen' : ContextSwitches(s) <= DepthLimit'
    BY <1>0, <2>1, <2>2, <2>3, <2>4, <2>5
  <2>7. candidate' \in 0 .. (IF best' = <<>> THEN 0 ELSE Len(Smaller(Head(best').scenario)))
    BY <2>1
  <2>8. BestInv'
    BY <2>1 DEF BestInv
  <2>9. 0 \in 0 .. DepthLimit' /\ 0 \in Nat
    BY <1>0, <2>4
  <2>10. QED
    BY <1>0, <2>1, <2>6, <2>7, <2>8, <2>9 DEF TypeOK
<1>7. ASSUME UNCHANGED vars PROVE TypeOK' /\ BestInv'
  BY <1>7 DEF TypeOK, BestInv, Threads, Schedules, DepthLimit, vars, searchVars, minimizeVars
<1>8. QED
  BY <1>1, <1>3, <1>4, <1>5, <1>6, <1>7 DEF Next, Done

LEMMA QueueStep ==
    ASSUME TypeOK, BestInv, QueueInv, [Next]_vars
    PROVE  QueueInv'
<1>1. ASSUME RunSchedule PROVE QueueInv'
  <2>1. PICK q, new : OneRun(q, new)
    BY <1>1, RunIsOneRun
  <2>2. /\ q \in ToSet(frontier) /\ runs' = runs \cup {q} /\ explored' = explored + 1
        /\ new \cap seen = {} /\ seen' = seen \cup new /\ IsInjective(frontier')
        /\ ToSet(frontier') = (ToSet(frontier) \ {q}) \cup new /\ scenario' = scenario
    BY <2>1 DEF OneRun
  <2>3. /\ ToSet(frontier) \subseteq seen /\ ToSet(frontier) \cap runs = {}
        /\ IsFiniteSet(runs) /\ explored = Cardinality(runs) /\ runs \subseteq seen
        /\ \A t \in Threads : <<t>> \in seen
    BY DEF QueueInv, TypeOK
  <2>4. IsFiniteSet(runs') /\ explored' = Cardinality(runs')
    BY <2>2, <2>3, FS_AddElement
  <2>5. ToSet(frontier') \subseteq seen' /\ ToSet(frontier') \cap runs' = {}
    BY <2>2, <2>3
  <2>6. \A t \in Threads' : <<t>> \in seen'
    BY <2>2, <2>3 DEF Threads
  <2>7. QED
    BY <2>2, <2>4, <2>5, <2>6 DEF QueueInv
<1>2. ASSUME UNCHANGED <<scenario, frontier, seen, explored, runs>> PROVE QueueInv'
  BY <1>2 DEF QueueInv, Threads
<1>3. ASSUME TryCandidate PROVE QueueInv'
  <2>1. /\ scenario' \in ScenarioType /\ frontier' = FirstPrefixes(scenario') /\ seen' = ToSet(frontier')
        /\ explored' = 0 /\ runs' = {}
    BY <1>3, UntriedFacts DEF TryCandidate
  <2>2. PICK c \in ScenarioType : c = scenario'
    BY <2>1
  <2>3. ToSet(FirstPrefixes(c)) = {<<t>> : t \in ThreadsOf(c)} /\ IsInjective(FirstPrefixes(c))
    BY FirstFacts
  <2>4. IsInjective(frontier') /\ \A t \in Threads' : <<t>> \in seen'
    BY <2>1, <2>2, <2>3 DEF Threads
  <2>5. IsFiniteSet(runs') /\ explored' = Cardinality(runs')
    BY <2>1, FS_EmptySet
  <2>6. QED
    BY <2>1, <2>4, <2>5 DEF QueueInv
<1>4. QED
  BY <1>1, <1>2, <1>3 DEF Next, BudgetSpent, Deepen, Stop, Done, vars, searchVars

LEMMA InitQueue == Init => QueueInv
<1> SUFFICES ASSUME Init PROVE QueueInv
  OBVIOUS
<1>1. /\ scenario \in ScenarioType /\ frontier = FirstPrefixes(scenario) /\ seen = ToSet(frontier)
      /\ explored = 0 /\ runs = {}
  BY ScenariosAssumption DEF Init
<1>2. /\ ToSet(FirstPrefixes(scenario)) = {<<t>> : t \in ThreadsOf(scenario)}
      /\ IsInjective(FirstPrefixes(scenario))
  BY <1>1, FirstFacts
<1>3. QED
  BY <1>1, <1>2, FS_EmptySet DEF QueueInv, Threads

-----------------------------------------------------------------------------
(* Nothing is missed.                                                      *)

LEMMA PrefixFacts ==
    ASSUME NEW A, NEW a \in Seq(A), NEW b \in Seq(A), NEW s \in Seq(A)
    PROVE  /\ IsPrefix(a, a)
           /\ IsPrefix(a, b) /\ IsPrefix(b, s) => IsPrefix(a, s)
           /\ IsPrefix(a, s) /\ IsPrefix(b, s) /\ Len(a) <= Len(b) => IsPrefix(a, b)
<1>1. Len(a) \in Nat /\ Len(b) \in Nat /\ Len(s) \in Nat
  OBVIOUS
<1>2. IsPrefix(a, a)
  BY <1>1, PrefixIs
<1>3. /\ IsPrefix(a, b) <=> Len(a) <= Len(b) /\ \A i \in 1 .. Len(a) : a[i] = b[i]
      /\ IsPrefix(b, s) <=> Len(b) <= Len(s) /\ \A i \in 1 .. Len(b) : b[i] = s[i]
      /\ IsPrefix(a, s) <=> Len(a) <= Len(s) /\ \A i \in 1 .. Len(a) : a[i] = s[i]
  BY PrefixIs
<1>4. Len(a) <= Len(b) => \A i \in 1 .. Len(a) : i \in 1 .. Len(b)
  BY <1>1
<1>5. QED
  BY <1>1, <1>2, <1>3, <1>4

\* The run of a prefix q of schedule s either is that of s, or has an alternative on the way to s
LEMMA OnTheWay ==
    ASSUME scenario \in ScenarioType, config \in Configurations, NEW q \in Seq(Threads),
           NEW s \in Schedules(config.length), Feasible(s), IsPrefix(q, s)
    PROVE  \/ Reported(Run(scenario, s)) = Reported(Run(scenario, q))
           \/ \E b \in AlternativesOf(Run(scenario, q)) :
                 /\ b \in Schedules(config.length) /\ ContextSwitches(b) <= DepthLimit
                 /\ IsPrefix(q, b) /\ IsPrefix(b, s) /\ Len(q) < Len(b)
<1>1. PICK r : r = Run(scenario, q)
  OBVIOUS
<1>2. PICK D : D = r.decisions
  OBVIOUS
<1>3. PICK R : R = Reported(r)
  OBVIOUS
<1>4. /\ s \in Seq(Threads) /\ Len(s) <= config.length /\ Len(s) \in Nat /\ Len(q) \in Nat
      /\ IsPrefix(s, Reported(Run(scenario, s))) /\ ContextSwitches(s) <= DepthLimit
      /\ config.length \in Nat /\ DepthLimit \in Nat
  BY SchedulesIn, OptionFacts DEF Feasible, FeasibleIn
<1>5. /\ R \in Seq(Threads) /\ Len(R) = Len(D) /\ Len(D) \in Nat
      /\ \A k \in 1 .. Len(D) : D[k].runnable \in SUBSET Threads
  BY <1>1, <1>2, <1>3, ReportFacts DEF Threads
<1>6. \/ D = Run(scenario, s).decisions
      \/ \E k \in 1 .. Len(D) :
                 /\ Len(q) < k /\ k <= Len(s)
                 /\ \A j \in 1 .. k - 1 : s[j] = R[j]
                 /\ s[k] \in D[k].runnable \ {D[k].chosen}
  <2>1. q \in Seq(ThreadsOf(scenario)) /\ s \in Seq(ThreadsOf(scenario))
    BY <1>4 DEF Threads
  <2>2. IsPrefix(s, Reported(Run(scenario, s)))
    BY <1>4
  <2>3. \/ Run(scenario, q).decisions = Run(scenario, s).decisions
        \/ \E k \in 1 .. Len(Run(scenario, q).decisions) :
                 /\ Len(q) < k /\ k <= Len(s)
                 /\ \A j \in 1 .. k - 1 : s[j] = Reported(Run(scenario, q))[j]
                 /\ s[k] \in Run(scenario, q).decisions[k].runnable \ {Run(scenario, q).decisions[k].chosen}
    BY <2>1, <2>2, Branch
  <2>4. QED
    BY <1>1, <1>2, <1>3, <2>3
<1>7. CASE D = Run(scenario, s).decisions
  BY <1>1, <1>2, <1>7 DEF Reported
<1>8. CASE \E k \in 1 .. Len(D) :
                 /\ Len(q) < k /\ k <= Len(s)
                 /\ \A j \in 1 .. k - 1 : s[j] = R[j]
                 /\ s[k] \in D[k].runnable \ {D[k].chosen}
  <2>1. PICK k \in 1 .. Len(D) :
                 /\ Len(q) < k /\ k <= Len(s)
                 /\ \A j \in 1 .. k - 1 : s[j] = R[j]
                 /\ s[k] \in D[k].runnable \ {D[k].chosen}
    BY <1>8
  <2>2. PICK b : b = Turned(R, k, s[k])
    OBVIOUS
  <2>3. k \in 1 .. Len(R) /\ s[k] \in Threads
    BY <1>5, <2>1
  <2>4. b \in Seq(Threads) /\ b # <<>> /\ Len(b) = k /\ b[k] = s[k] /\ \A j \in 1 .. k - 1 : b[j] = R[j]
    BY <1>5, <2>2, <2>3, TurnedFacts
  <2>5. IsPrefix(b, s)
    <3>1. \A j \in 1 .. k : j \in 1 .. k - 1 \/ j = k
      BY <2>1
    <3>2. \A j \in 1 .. k : b[j] = s[j]
      BY <2>1, <2>4, <3>1
    <3>3. QED
      BY <1>4, <2>1, <2>4, <3>2, PrefixIs
  <2>6. Len(q) < Len(b) /\ Len(q) <= Len(b)
    BY <1>4, <2>1, <2>4
  <2>7. IsPrefix(q, b)
    BY <1>4, <2>4, <2>5, <2>6, PrefixFacts
  <2>8. Len(b) <= config.length
    BY <1>4, <2>1, <2>4
  <2>9. b \in Schedules(config.length)
    BY <2>4, <2>8, SchedulesIn
  <2>10. ContextSwitches(b) <= ContextSwitches(s)
    BY <1>4, <2>4, <2>5, SwitchesFacts
  <2>11. ContextSwitches(b) \in Nat /\ ContextSwitches(s) \in Nat
    BY <1>4, <2>4, SwitchesFacts
  <2>12. ContextSwitches(b) <= DepthLimit
    BY <1>4, <2>10, <2>11
  <2>13. b \in AlternativesOf(r)
    BY <1>2, <1>3, <2>1, <2>2 DEF AlternativesOf
  <2>14. QED
    BY <1>1, <2>5, <2>6, <2>7, <2>9, <2>12, <2>13
<1>9. QED
  BY <1>6, <1>7, <1>8

\* More runs, more that was run
LEMMA RanStays ==
    ASSUME scenario' = scenario, runs \subseteq runs', NEW s, Ran(s)
    PROVE  Ran(s)'
BY DEF Ran, Executed

LEMMA CoverStep ==
    ASSUME TypeOK, BestInv, QueueInv, CoverInv, [Next]_vars
    PROVE  CoverInv'
<1>0. /\ scenario \in ScenarioType /\ config \in Configurations
      /\ seen \subseteq Schedules(config.length) /\ ToSet(frontier) \subseteq seen
  BY DEF TypeOK, QueueInv
<1>1. ASSUME RunSchedule PROVE CoverInv'
  <2>1. PICK q, new : OneRun(q, new)
    BY <1>1, RunIsOneRun
  <2>2. /\ q \in ToSet(frontier) /\ q \in Seq(Threads)
        /\ scenario' = scenario /\ config' = config
        /\ runs' = runs \cup {q} /\ seen' = seen \cup new /\ new \subseteq Schedules(config.length)
        /\ ToSet(frontier') = (ToSet(frontier) \ {q}) \cup new /\ phase = "exploring"
    BY <2>1 DEF OneRun
  <2>3. \A s : Schedules(s)' = Schedules(s)
    BY <2>2 DEF Schedules, Threads
  <2>4. CASE phase' = "failed"
    BY <2>4 DEF CoverInv
  <2>5. CASE \A a \in AlternativesOf(Run(scenario, q)) :
                a \in Schedules(config.length) /\ ContextSwitches(a) <= DepthLimit => a \in seen'
    <3> SUFFICES ASSUME NEW a \in seen', NEW s \in Schedules(config.length), Feasible(s), IsPrefix(a, s)
                 PROVE  Ran(s)' \/ \E f \in ToSet(frontier') : IsPrefix(a, f) /\ IsPrefix(f, s)
      <4>1. Schedules(config.length)' = Schedules(config.length)
        BY <2>2 DEF Schedules, Threads
      <4>2. \A s : Feasible(s)' <=> Feasible(s)
        BY <2>2 DEF Feasible, FeasibleIn, DepthLimit
      <4>3. QED
        BY <4>1, <4>2 DEF CoverInv
    <3>1. s \in Seq(Threads) /\ \A b \in Schedules(config.length) : b \in Seq(Threads) /\ Len(b) \in Nat
      BY <1>0, SchedulesIn
    <3>2. \A b \in ToSet(frontier) : b \in Seq(Threads) /\ Len(b) \in Nat
      BY <1>0, <3>1
    <3>3. a \in Seq(Threads) /\ Len(q) \in Nat
      BY <1>0, <2>2, <3>1, <3>2
    <3>4. ASSUME NEW b \in seen', IsPrefix(b, s), Len(q) < Len(b)
          PROVE  Ran(s)' \/ \E f \in ToSet(frontier') : IsPrefix(b, f) /\ IsPrefix(f, s)
      <4>1. b \in Seq(Threads) /\ Len(b) \in Nat
        BY <1>0, <2>2, <3>1
      <4>2. CASE b \in new
        <5>1. IsPrefix(b, b)
          BY <4>1, PrefixFacts
        <5>2. QED
          BY <2>2, <3>4, <4>2, <5>1
      <4>3. CASE b \in seen
        <5>1. Ran(s) \/ \E f \in ToSet(frontier) : IsPrefix(b, f) /\ IsPrefix(f, s)
          BY <2>2, <3>4, <4>3 DEF CoverInv
        <5>2. CASE Ran(s)
          BY <2>2, <5>2, RanStays
        <5>3. CASE \E f \in ToSet(frontier) : IsPrefix(b, f) /\ IsPrefix(f, s)
          <6>1. PICK f \in ToSet(frontier) : IsPrefix(b, f) /\ IsPrefix(f, s)
            BY <5>3
          <6>2. f \in Seq(Threads) /\ Len(f) \in Nat
            BY <3>2
          <6>3. Len(b) <= Len(f)
            BY <4>1, <6>1, <6>2, PrefixIs
          <6>4. f # q
            BY <3>3, <3>4, <4>1, <6>2, <6>3
          <6>5. QED
            BY <2>2, <6>1, <6>4
        <5>4. QED
          BY <5>1, <5>2, <5>3
      <4>4. QED
        BY <2>2, <4>2, <4>3
    <3>5. CASE a \in new
      <4>1. IsPrefix(a, a)
        BY <3>3, PrefixFacts
      <4>2. QED
        BY <2>2, <3>5, <4>1
    <3>6. CASE a \in seen
      <4>1. Ran(s) \/ \E f \in ToSet(frontier) : IsPrefix(a, f) /\ IsPrefix(f, s)
        BY <2>2, <3>6 DEF CoverInv
      <4>2. CASE Ran(s)
        BY <2>2, <4>2, RanStays
      <4>3. CASE \E f \in ToSet(frontier) : IsPrefix(a, f) /\ IsPrefix(f, s)
        <5>1. PICK f \in ToSet(frontier) : IsPrefix(a, f) /\ IsPrefix(f, s)
          BY <4>3
        <5>2. CASE f # q
          BY <2>2, <5>1, <5>2
        <5>3. CASE f = q
          <6>1. \/ Reported(Run(scenario, s)) = Reported(Run(scenario, q))
                \/ \E b \in AlternativesOf(Run(scenario, q)) :
                      /\ b \in Schedules(config.length) /\ ContextSwitches(b) <= DepthLimit
                      /\ IsPrefix(q, b) /\ IsPrefix(b, s) /\ Len(q) < Len(b)
            BY <1>0, <2>2, <5>1, <5>3, OnTheWay
          <6>2. CASE Reported(Run(scenario, s)) = Reported(Run(scenario, q))
            BY <2>2, <6>2 DEF Ran, Executed
          <6>3. CASE \E b \in AlternativesOf(Run(scenario, q)) :
                      /\ b \in Schedules(config.length) /\ ContextSwitches(b) <= DepthLimit
                      /\ IsPrefix(q, b) /\ IsPrefix(b, s) /\ Len(q) < Len(b)
            <7>1. PICK b \in AlternativesOf(Run(scenario, q)) :
                      /\ b \in Schedules(config.length) /\ ContextSwitches(b) <= DepthLimit
                      /\ IsPrefix(q, b) /\ IsPrefix(b, s) /\ Len(q) < Len(b)
              BY <6>3
            <7>2. b \in seen' /\ b \in Seq(Threads)
              BY <2>5, <3>1, <7>1
            <7>3. IsPrefix(a, b)
              BY <2>2, <3>3, <5>1, <5>3, <7>1, <7>2, PrefixFacts
            <7>4. CASE Ran(s)'
              BY <7>4
            <7>5. CASE \E g \in ToSet(frontier') : IsPrefix(b, g) /\ IsPrefix(g, s)
              <8>1. PICK g \in ToSet(frontier') : IsPrefix(b, g) /\ IsPrefix(g, s)
                BY <7>5
              <8>2. g \in Seq(Threads)
                BY <2>2, <3>1, <3>2, <8>1
              <8>3. IsPrefix(a, g)
                BY <3>3, <7>2, <7>3, <8>1, <8>2, PrefixFacts
              <8>4. QED
                BY <8>1, <8>3
            <7>6. QED
              BY <3>4, <7>1, <7>2, <7>4, <7>5
          <6>4. QED
            BY <6>1, <6>2, <6>3
        <5>4. QED
          BY <5>2, <5>3
      <4>4. QED
        BY <4>1, <4>2, <4>3
    <3>7. QED
      BY <2>2, <3>5, <3>6
  <2>6. QED
    BY <2>1, <2>4, <2>5 DEF OneRun
<1>2. ASSUME UNCHANGED <<scenario, config, frontier, seen, runs>>, phase' # "failed" => phase # "failed"
      PROVE  CoverInv'
  <2>1. Schedules(config.length)' = Schedules(config.length)
    BY <1>2 DEF Schedules, Threads
  <2>2. \A s : (Feasible(s)' <=> Feasible(s)) /\ (Ran(s)' <=> Ran(s))
    BY <1>2 DEF Feasible, FeasibleIn, DepthLimit, Ran, Executed
  <2>3. QED
    BY <1>2, <2>1, <2>2 DEF CoverInv
<1>3. ASSUME TryCandidate PROVE CoverInv'
  <2>1. seen' = ToSet(frontier') /\ TypeOK'
    BY <1>3, TypesStep DEF TryCandidate, Next
  <2>2. ASSUME NEW a \in seen' PROVE IsPrefix(a, a)
    <3>1. a \in Schedules(config.length)' /\ (config \in Configurations)'
      BY <2>1 DEF TypeOK
    <3>2. a \in Seq(Threads')
      <4>1. PICK n : n = config'.length
        OBVIOUS
      <4>2. n \in Nat
        BY <3>1, ConfigurationsAssumption, <4>1 DEF Options
      <4>3. a \in BoundedSeq(Threads', n)
        BY <3>1, <4>1 DEF Schedules
      <4>4. QED
        BY <4>2, <4>3, BoundedIs
    <3>3. QED
      BY <3>2, PrefixFacts
  <2>3. QED
    BY <2>1, <2>2 DEF CoverInv
<1>4. QED
  BY <1>1, <1>2, <1>3 DEF Next, BudgetSpent, Deepen, Stop, Done, vars, searchVars

LEMMA InitCover == Init => CoverInv
<1> SUFFICES ASSUME Init PROVE CoverInv
  OBVIOUS
<1>1. seen = ToSet(frontier) /\ TypeOK
  BY InitTypes DEF Init
<1>2. ASSUME NEW a \in seen PROVE IsPrefix(a, a)
  <2>1. a \in Seq(Threads)
    BY <1>1, SchedulesIn DEF TypeOK
  <2>2. QED
    BY <2>1, PrefixFacts
<1>3. QED
  BY <1>1, <1>2 DEF CoverInv

\* As far as the search has come
LEMMA SweepFacts ==
    ASSUME TypeOK, QueueInv, CoverInv, phase # "failed",
           NEW s \in Schedules(config.length), Feasible(s),
           \A q \in ToSet(frontier) : ~(ContextSwitches(q) <= ContextSwitches(s))
    PROVE  Ran(s)
<1>0. /\ scenario \in ScenarioType /\ config \in Configurations
      /\ seen \subseteq Schedules(config.length) /\ ToSet(frontier) \subseteq seen
      /\ \A t \in Threads : <<t>> \in seen
  BY DEF TypeOK, QueueInv
<1>1. s \in Seq(Threads) /\ s # <<>>
  BY <1>0, SchedulesIn
<1>2. PICK a : a = <<s[1]>>
  OBVIOUS
<1>3. s[1] \in Threads /\ 1 <= Len(s) /\ Len(s) \in Nat
  BY <1>1
<1>4. a \in seen /\ a \in Seq(Threads)
  BY <1>0, <1>2, <1>3
<1>5. IsPrefix(a, s)
  <2>1. Len(a) = 1 /\ a[1] = s[1]
    BY <1>2
  <2>2. \A i \in 1 .. Len(a) : a[i] = s[i]
    BY <2>1
  <2>3. QED
    BY <1>1, <1>3, <1>4, <2>1, <2>2, PrefixIs
<1>6. Ran(s) \/ \E q \in ToSet(frontier) : IsPrefix(q, s)
  BY <1>4, <1>5 DEF CoverInv
<1>7. \A q \in ToSet(frontier) : IsPrefix(q, s) => ContextSwitches(q) <= ContextSwitches(s)
  <2>1. \A q \in ToSet(frontier) : q \in Seq(Threads)
    BY <1>0, SchedulesIn
  <2>2. QED
    BY <1>1, <2>1, SwitchesFacts
<1>8. QED
  BY <1>6, <1>7

LEMMA SweptStep ==
    ASSUME TypeOK, BestInv, QueueInv, CoverInv, SweptInv, [Next]_vars
    PROVE  SweptInv'
<1>0. config \in Configurations
  BY DEF TypeOK
<1>1. ASSUME RunSchedule PROVE SweptInv'
  <2>1. PICK q, new : OneRun(q, new)
    BY <1>1, RunIsOneRun
  <2>2. scenario' = scenario /\ config' = config /\ depth' = depth /\ runs \subseteq runs'
    BY <2>1 DEF OneRun
  <2>3. Schedules(config.length)' = Schedules(config.length)
    BY <2>2 DEF Schedules, Threads
  <2>4. \A s : Feasible(s)' <=> Feasible(s)
    BY <2>2 DEF Feasible, FeasibleIn, DepthLimit
  <2>5. \A s : Ran(s) => Ran(s)'
    BY <2>2, RanStays
  <2>6. QED
    BY <2>2, <2>3, <2>4, <2>5 DEF SweptInv
<1>2. ASSUME UNCHANGED <<scenario, config, depth, runs>> PROVE SweptInv'
  <2>1. Schedules(config.length)' = Schedules(config.length)
    BY <1>2 DEF Schedules, Threads
  <2>2. \A s : (Feasible(s)' <=> Feasible(s)) /\ (Ran(s)' <=> Ran(s))
    BY <1>2 DEF Feasible, FeasibleIn, DepthLimit, Ran, Executed
  <2>3. QED
    BY <1>2, <2>1, <2>2 DEF SweptInv
<1>3. ASSUME Deepen PROVE SweptInv'
  <2>1. /\ UNCHANGED <<scenario, config, runs>> /\ depth' = NextDepth /\ frontier # <<>>
        /\ phase = "exploring"
    BY <1>3 DEF Deepen
  <2>2. NextDepth \in Nat /\ \A q \in ToSet(frontier) : NextDepth <= ContextSwitches(q)
    <3>1. DepthLimit \in Nat
      BY <1>0, OptionFacts
    <3>2. QED
      BY <2>1, <3>1, DepthFacts
  <2>3. ASSUME NEW s \in Schedules(config.length), Feasible(s), ContextSwitches(s) < NextDepth
        PROVE  Ran(s)
    <3>1. ContextSwitches(s) \in Nat /\ \A q \in ToSet(frontier) : ContextSwitches(q) \in Nat
      <4>1. s \in Seq(Threads) /\ \A q \in ToSet(frontier) : q \in Seq(Threads)
        BY <1>0, SchedulesIn DEF QueueInv, TypeOK
      <4>2. QED
        BY <4>1, SwitchesFacts
    <3>2. \A q \in ToSet(frontier) : ~(ContextSwitches(q) <= ContextSwitches(s))
      BY <2>2, <2>3, <3>1
    <3>3. QED
      BY <2>1, <2>3, <3>2, SweepFacts
  <2>4. Schedules(config.length)' = Schedules(config.length)
    BY <2>1 DEF Schedules, Threads
  <2>5. \A s : (Feasible(s)' <=> Feasible(s)) /\ (Ran(s)' <=> Ran(s))
    BY <2>1 DEF Feasible, FeasibleIn, DepthLimit, Ran, Executed
  <2>6. QED
    BY <2>1, <2>3, <2>4, <2>5 DEF SweptInv
<1>4. ASSUME TryCandidate PROVE SweptInv'
  <2>1. depth' = 0 /\ TypeOK'
    BY <1>4, TypesStep DEF TryCandidate, Next
  <2>2. ASSUME NEW s \in Schedules(config.length)' PROVE ~(ContextSwitches(s) < 0)
    <3>1. PICK n : n = config'.length
      OBVIOUS
    <3>2. n \in Nat
      BY <2>1, ConfigurationsAssumption, <3>1 DEF Options, TypeOK
    <3>3. s \in BoundedSeq(Threads', n)
      BY <2>2, <3>1 DEF Schedules
    <3>4. s \in Seq(Threads')
      BY <3>2, <3>3, BoundedIs
    <3>5. ContextSwitches(s) \in Nat
      BY <3>4, SwitchesFacts
    <3>6. QED
      BY <3>5
  <2>3. QED
    BY <2>1, <2>2 DEF SweptInv
<1>5. QED
  BY <1>1, <1>2, <1>3, <1>4 DEF Next, BudgetSpent, Stop, Done, vars, searchVars

LEMMA InitSwept == Init => SweptInv
<1> SUFFICES ASSUME Init PROVE SweptInv
  OBVIOUS
<1>1. depth = 0 /\ config \in Configurations
  BY DEF Init
<1>2. ASSUME NEW s \in Schedules(config.length) PROVE ~(ContextSwitches(s) < 0)
  <2>1. s \in Seq(Threads)
    BY <1>1, SchedulesIn
  <2>2. ContextSwitches(s) \in Nat
    BY <2>1, SwitchesFacts
  <2>3. QED
    BY <2>2
<1>3. QED
  BY <1>1, <1>2 DEF SweptInv

LEMMA PhaseStep ==
    ASSUME TypeOK, BestInv, QueueInv, PhaseInv, [Next]_vars
    PROVE  PhaseInv'
<1>1. ASSUME RunSchedule PROVE PhaseInv'
  <2>1. PICK q, new : OneRun(q, new)
    BY <1>1, RunIsOneRun
  <2>2. CASE phase' = "failed"
    BY <2>2 DEF PhaseInv
  <2>3. CASE Run(scenario, q).outcome = "passed" /\ phase' = phase
    <3>1. scenario' = scenario /\ runs' = runs \cup {q} /\ phase = "exploring"
      BY <2>1 DEF OneRun
    <3>2. \A s \in runs' : Run(scenario', s).outcome = "passed"
      BY <2>3, <3>1 DEF PhaseInv
    <3>3. QED
      BY <2>3, <3>1, <3>2 DEF PhaseInv
  <2>4. QED
    BY <2>1, <2>2, <2>3 DEF OneRun
<1>2. ASSUME BudgetSpent PROVE PhaseInv'
  <2>1. frontier # <<>>
    BY <1>2 DEF BudgetSpent
  <2>2. QED
    BY <1>2, <2>1 DEF BudgetSpent, PhaseInv
<1>3. ASSUME Deepen PROVE PhaseInv'
  BY <1>3 DEF Deepen, PhaseInv
<1>4. ASSUME Stop PROVE PhaseInv'
  <2>1. frontier = <<>>
    <3> SUFFICES ASSUME frontier # <<>> PROVE FALSE
      OBVIOUS
    <3>1. NextDepth > DepthLimit
      BY <1>4 DEF Stop
    <3>2. NextDepth \in 0 .. DepthLimit
      BY DepthFacts
    <3>3. DepthLimit \in Nat
      BY OptionFacts DEF TypeOK
    <3>4. QED
      BY <3>1, <3>2, <3>3
  <2>2. QED
    BY <1>4, <2>1 DEF Stop, PhaseInv
<1>5. ASSUME TryCandidate PROVE PhaseInv'
  BY <1>5 DEF TryCandidate, PhaseInv
<1>6. ASSUME UNCHANGED vars PROVE PhaseInv'
  BY <1>6 DEF PhaseInv, vars, searchVars
<1>7. QED
  BY <1>1, <1>2, <1>3, <1>4, <1>5, <1>6 DEF Next, Done

-----------------------------------------------------------------------------
(* What minimize has found out.                                            *)

LEMMA BoundedFinite ==
    ASSUME NEW A, IsFiniteSet(A), NEW n \in Nat
    PROVE  IsFiniteSet(BoundedSeq(A, n))
<1> DEFINE U == {m \in 0 .. n : IsFiniteSet(BoundedSeq(A, m))}
<1>1. 0 \in U
  <2>1. \A s \in BoundedSeq(A, 0) : s = <<>>
    <3> SUFFICES ASSUME NEW s \in BoundedSeq(A, 0) PROVE s = <<>>
      OBVIOUS
    <3>1. s \in Seq(A) /\ Len(s) <= 0
      BY BoundedIs
    <3>2. QED
      BY <3>1
  <2>2. IsFiniteSet({<<>>}) /\ BoundedSeq(A, 0) \in SUBSET {<<>>}
    BY <2>1, FS_Singleton
  <2>3. QED
    BY <2>2, FS_Subset
<1>2. ASSUME NEW m \in 1 .. n, m - 1 \in U PROVE m \in U
  <2>1. m - 1 \in Nat /\ m \in Nat /\ m \in 0 .. n /\ IsFiniteSet(BoundedSeq(A, m - 1))
    BY <1>2
  <2>2. PICK B : B = BoundedSeq(A, m - 1)
    OBVIOUS
  <2>3. \A b : b \in B <=> b \in Seq(A) /\ Len(b) <= m - 1
    BY <2>1, <2>2, BoundedIs
  <2>4. PICK P : P = B \X A
    OBVIOUS
  <2>5. IsFiniteSet(P)
    BY <2>1, <2>2, <2>4, FS_Product
  <2>6. PICK f : f = [x \in P |-> Append(x[1], x[2])]
    OBVIOUS
  <2>7. PICK F : F = {f[x] : x \in P}
    OBVIOUS
  <2>8. f \in Surjection(P, F)
    BY <2>6, <2>7 DEF Surjection
  <2>9. IsFiniteSet(F)
    BY <2>5, <2>8, FS_Surjection
  <2>10. IsFiniteSet(B \cup F)
    BY <2>1, <2>2, <2>9, FS_Union
  <2>11. ASSUME NEW s \in BoundedSeq(A, m) PROVE s \in B \cup F
    <3>1. s \in Seq(A) /\ Len(s) <= m
      BY <2>1, BoundedIs
    <3>2. CASE Len(s) <= m - 1
      BY <2>3, <3>1, <3>2
    <3>3. CASE Len(s) = m
      <4>1. PICK b : b = SubSeq(s, 1, m - 1)
        OBVIOUS
      <4>2. b \in Seq(A) /\ Len(b) = m - 1 /\ s[m] \in A /\ \A i \in 1 .. m - 1 : b[i] = s[i]
        BY <3>1, <3>3, <4>1
      <4>3. s = Append(b, s[m])
        <5>1. PICK z : z = Append(b, s[m])
          OBVIOUS
        <5>2. z \in Seq(A) /\ Len(z) = m /\ z[m] = s[m] /\ \A i \in 1 .. m - 1 : z[i] = b[i]
          BY <4>2, <5>1
        <5>3. \A i \in 1 .. m : i \in 1 .. m - 1 \/ i = m
          BY <2>1
        <5>4. \A i \in 1 .. m : z[i] = s[i]
          BY <4>2, <5>2, <5>3
        <5>5. QED
          BY <3>1, <3>3, <5>1, <5>2, <5>4
      <4>4. b \in B
        BY <2>1, <2>3, <4>2
      <4>5. <<b, s[m]>> \in P /\ f[<<b, s[m]>>] = s
        BY <2>4, <2>6, <4>2, <4>3, <4>4
      <4>6. QED
        BY <2>7, <4>5
    <3>4. Len(s) \in Nat
      BY <3>1
    <3>5. QED
      BY <2>1, <3>1, <3>2, <3>3, <3>4
  <2>12. BoundedSeq(A, m) \in SUBSET (B \cup F)
    BY <2>11
  <2>13. IsFiniteSet(BoundedSeq(A, m))
    BY <2>10, <2>12, FS_Subset
  <2>14. QED
    BY <2>1, <2>13
<1>3. 0 .. n \subseteq U
  <2> HIDE DEF U
  <2>1. QED
    BY <1>1, <1>2, Climb
<1>4. QED
  BY <1>3

\* When nothing is left to be run, everything was, and passed
LEMMA AllWasRun ==
    ASSUME TypeOK, QueueInv, CoverInv, PhaseInv, phase # "failed", frontier = <<>>,
           NEW s \in Schedules(config.length), Feasible(s)
    PROVE  Ran(s) /\ Run(scenario, s).outcome = "passed"
<1>1. /\ scenario \in ScenarioType /\ config \in Configurations
      /\ runs \subseteq Schedules(config.length)
      /\ \A q \in runs : Run(scenario, q).outcome = "passed"
  BY DEF TypeOK, PhaseInv
<1>2. ToSet(frontier) = {}
  BY DEF ToSet
<1>3. Ran(s)
  BY <1>2, SweepFacts
<1>4. PICK q \in runs : Reported(Run(scenario, s)) = Reported(Run(scenario, q))
  BY <1>3 DEF Ran, Executed
<1>5. s \in Seq(ThreadsOf(scenario)) /\ q \in Seq(ThreadsOf(scenario))
  BY <1>1, SchedulesIn DEF Threads
<1>6. Run(scenario, Reported(Run(scenario, s))).outcome = Run(scenario, s).outcome
  BY <1>1, <1>5, Replayed
<1>7. Run(scenario, Reported(Run(scenario, q))).outcome = Run(scenario, q).outcome
  BY <1>1, <1>5, Replayed
<1>8. QED
  BY <1>1, <1>3, <1>4, <1>6, <1>7

\* A search that its budget cuts short was not exhaustive
LEMMA CutFacts ==
    ASSUME TypeOK, QueueInv, explored >= config.invocations, frontier # <<>>
    PROVE  ~Exhaustive(scenario)
<1>1. /\ scenario \in ScenarioType /\ config \in Configurations /\ explored \in Nat
      /\ runs \subseteq seen /\ seen \subseteq Schedules(config.length)
      /\ IsFiniteSet(runs) /\ explored = Cardinality(runs)
      /\ frontier \in Seq(Seq(Threads))
  BY DEF TypeOK, QueueInv
<1>2. config.length \in Nat /\ config.invocations \in Nat
  BY <1>1, OptionFacts
<1>3. PICK B : B = BoundedSeq(ThreadsOf(scenario), config.length)
  OBVIOUS
<1>4. IsFiniteSet(B)
  BY <1>1, <1>2, <1>3, ScenarioFacts, BoundedFinite
<1>5. runs \in SUBSET B /\ <<>> \notin runs
  BY <1>1, <1>3 DEF Schedules, Threads
<1>6. <<>> \in B
  <2>1. <<>> \in Seq(ThreadsOf(scenario)) /\ Len(<<>>) <= config.length
    BY <1>2
  <2>2. QED
    BY <1>2, <1>3, <2>1, BoundedIs
<1>7. Cardinality(runs \cup {<<>>}) = Cardinality(runs) + 1
  BY <1>1, <1>5, FS_AddElement
<1>8. Cardinality(runs \cup {<<>>}) <= Cardinality(B) /\ Cardinality(B) \in Nat
  BY <1>4, <1>5, <1>6, FS_Subset, FS_CardinalityType
<1>9. ~(config.invocations >= Cardinality(B))
  BY <1>1, <1>2, <1>7, <1>8
<1>10. QED
  BY <1>3, <1>9 DEF Exhaustive

LEMMA MinimizeStep ==
    ASSUME TypeOK, BestInv, QueueInv, CoverInv, PhaseInv, MinimizeInv, [Next]_vars
    PROVE  MinimizeInv'
<1>0. /\ candidate \in Nat /\ config \in Configurations
      /\ phase = "failed" => best # <<>> /\ candidate = 0
  <2>1. best # <<>> => Len(Smaller(Head(best).scenario)) \in Nat
    BY SmallerType DEF BestInv
  <2>2. QED
    BY <2>1 DEF TypeOK, MinimizeInv
<1> DEFINE smaller == Smaller(Head(best).scenario)
<1>1. best # <<>> =>
          /\ phase # "failed" => candidate >= 1 /\ scenario = smaller[candidate]
          /\ \A k \in 1 .. candidate : k < candidate \/ phase # "exploring" => AllPass(smaller[k])
  BY DEF MinimizeInv
<1>2. config' = config => \A c : AllPass(c) => AllPass(c)'
  BY DEF AllPass, Exhaustive, FeasibleIn, DepthLimit
<1>3. ASSUME RunSchedule PROVE MinimizeInv'
  <2>1. PICK q, new : OneRun(q, new)
    BY <1>3, RunIsOneRun
  <2>2. scenario' = scenario /\ config' = config /\ phase = "exploring"
    BY <2>1 DEF OneRun
  <2>3. CASE phase' = "failed" /\ best' # <<>> /\ candidate' = 0
    <3>1. \A k \in 1 .. 0 : FALSE
      OBVIOUS
    <3>2. QED
      BY <2>3, <3>1 DEF MinimizeInv
  <2>4. CASE UNCHANGED <<phase, best, candidate>>
    BY <1>1, <1>2, <2>2, <2>4 DEF MinimizeInv
  <2>5. QED
    <3>1. best' = <<[scenario |-> scenario, schedule |-> q, outcome |-> Run(scenario, q).outcome]>> => best' # <<>>
      OBVIOUS
    <3>2. QED
      BY <2>1, <2>3, <2>4, <3>1 DEF OneRun
<1>4. ASSUME phase' \in {"cut", "passed"}, phase = "exploring",
             UNCHANGED <<scenario, config, minimizeVars>>, AllPass(scenario)
      PROVE  MinimizeInv'
  <2>1. best' = best /\ candidate' = candidate
    BY <1>4 DEF minimizeVars
  <2>2. ASSUME best # <<>>, NEW k \in 1 .. candidate PROVE AllPass(smaller[k])
    <3>1. k < candidate \/ k = candidate
      BY <1>0
    <3>2. QED
      BY <1>1, <1>4, <2>2, <3>1
  <2>3. QED
    BY <1>1, <1>2, <1>4, <2>1, <2>2 DEF MinimizeInv
<1>5. ASSUME BudgetSpent PROVE MinimizeInv'
  <2>1. explored >= config.invocations /\ frontier # <<>>
    BY <1>5 DEF BudgetSpent
  <2>2. AllPass(scenario)
    BY <2>1, CutFacts DEF AllPass
  <2>3. QED
    BY <1>4, <1>5, <2>2 DEF BudgetSpent
<1>6. ASSUME Deepen PROVE MinimizeInv'
  BY <1>1, <1>2, <1>6 DEF Deepen, MinimizeInv, minimizeVars
<1>7. ASSUME Stop PROVE MinimizeInv'
  <2>1. PhaseInv'
    BY <1>7, PhaseStep DEF Next
  <2>2. frontier = <<>> /\ phase # "failed"
    BY <1>7, <2>1 DEF Stop, PhaseInv
  <2>3. AllPass(scenario)
    BY <2>2, AllWasRun DEF AllPass, Feasible, Schedules, Threads
  <2>4. QED
    BY <1>4, <1>7, <2>3 DEF Stop
<1>8. ASSUME TryCandidate PROVE MinimizeInv'
  <2>1. /\ scenario' = smaller[candidate + 1] /\ candidate' = candidate + 1 /\ best' = best
        /\ best # <<>> /\ config' = config /\ phase # "exploring" /\ phase' = "exploring"
    BY <1>8, UntriedFacts DEF TryCandidate, Minimizing, Searched
  <2>2. ASSUME NEW k \in 1 .. candidate + 1, k < candidate + 1 PROVE AllPass(smaller[k])
    <3>1. k \in 1 .. candidate
      BY <1>0, <2>2
    <3>2. QED
      BY <1>1, <2>1, <3>1
  <2>3. candidate + 1 >= 1
    BY <1>0
  <2>4. QED
    BY <1>2, <2>1, <2>2, <2>3 DEF MinimizeInv
<1>9. ASSUME UNCHANGED vars PROVE MinimizeInv'
  BY <1>1, <1>2, <1>9 DEF MinimizeInv, vars, searchVars, minimizeVars
<1>10. QED
  BY <1>3, <1>5, <1>6, <1>7, <1>8, <1>9 DEF Next, Done

-----------------------------------------------------------------------------
(* The theorems.                                                           *)

LEMMA InitExplore == Init => ExploreInv
<1> SUFFICES ASSUME Init PROVE ExploreInv
  OBVIOUS
<1>1. /\ phase = "exploring" /\ runs = {} /\ best = <<>>
  BY DEF Init
<1>2. PhaseInv /\ MinimizeInv
  BY <1>1 DEF PhaseInv, MinimizeInv
<1>3. QED
  BY <1>2, InitTypes, InitQueue, InitCover, InitSwept DEF ExploreInv

LEMMA ExploreStep == ExploreInv /\ [Next]_vars => ExploreInv'
<1> SUFFICES ASSUME ExploreInv, [Next]_vars PROVE ExploreInv'
  OBVIOUS
<1>1. TypeOK' /\ BestInv' /\ QueueInv'
  BY TypesStep, QueueStep DEF ExploreInv
<1>2. CoverInv' /\ SweptInv' /\ PhaseInv' /\ MinimizeInv'
  BY CoverStep, SweptStep, PhaseStep, MinimizeStep DEF ExploreInv
<1>3. QED
  BY <1>1, <1>2 DEF ExploreInv

\* The invariant holds throughout a search and its minimization
THEOREM ExploreInvHolds == Spec => []ExploreInv
BY InitExplore, ExploreStep, PTL DEF Spec

\* The search's state keeps its types, and nothing beyond the bounds of the
\* options is ever queued, run or reached (check_scenario, enqueue_schedule_prefix)
THEOREM SearchTypesHold == Spec => []TypeOK
<1>1. ExploreInv => TypeOK
  BY DEF ExploreInv
<1>2. QED
  BY <1>1, ExploreInvHolds, PTL

\* A search that passes has run every schedule within the bounds of the options,
\* and none of them failed: whatever the number of threads, the programs, the
\* bounds and the weights, only unexplored alternatives need to be enqueued
\* (check_scenario, enqueue_observed_alternatives)
THEOREM PassedMeansComplete == Spec => []Complete
<1>1. ExploreInv => Complete
  <2> SUFFICES ASSUME ExploreInv, phase = "passed", NEW s \in Schedules(config.length), Feasible(s)
               PROVE  Reported(Run(scenario, s)) \in Executed /\ Run(scenario, s).outcome = "passed"
    BY DEF Complete
  <2>1. frontier = <<>>
    BY DEF ExploreInv, PhaseInv
  <2>2. Ran(s) /\ Run(scenario, s).outcome = "passed"
    BY <2>1, AllWasRun DEF ExploreInv
  <2>3. QED
    BY <2>2 DEF Ran
<1>2. QED
  BY <1>1, ExploreInvHolds, PTL

\* What is reported of a run is consumed exactly when it is replayed, and makes
\* the same decisions with the same outcome (replay, replay_schedule_error)
THEOREM ReportsReplay == Spec => []ReportReplays
<1>1. ExploreInv => ReportReplays
  <2> SUFFICES ASSUME ExploreInv, NEW s \in runs
               PROVE  LET r == Run(scenario, s)
                          again == Run(scenario, Reported(r))
                      IN  /\ ReplayError(again, Reported(r)) = "none"
                          /\ again.decisions = r.decisions /\ again.outcome = r.outcome
    BY DEF ReportReplays
  <2>1. scenario \in ScenarioType /\ s \in Seq(ThreadsOf(scenario))
    BY SchedulesIn DEF ExploreInv, TypeOK, Threads
  <2>2. PICK z : z = Reported(Run(scenario, s))
    OBVIOUS
  <2>3. z \in Seq(ThreadsOf(scenario))
    BY <2>1, <2>2, ReportFacts
  <2>4. /\ Run(scenario, z).decisions = Run(scenario, s).decisions
        /\ Run(scenario, z).outcome = Run(scenario, s).outcome
    BY <2>1, <2>2, Replayed
  <2>5. Reported(Run(scenario, z)) = z
    BY <2>2, <2>4 DEF Reported
  <2>6. ReplayError(Run(scenario, z), z) = "none"
    BY <2>1, <2>3, <2>5, ExactReplay
  <2>7. QED
    BY <2>2, <2>4, <2>6
<1>2. QED
  BY <1>1, ExploreInvHolds, PTL

\* A schedule that is not what its run reports is refused: it ends early, names a
\* thread that cannot run, or goes on after the end (replay_schedule_error)
THEOREM OthersAreRefused == Spec => []OthersRefused
<1>1. ExploreInv => OthersRefused
  <2> SUFFICES ASSUME ExploreInv, NEW s \in Schedules(config.length + 1)
               PROVE  ReplayError(Run(scenario, s), s) = "none" <=> Reported(Run(scenario, s)) = s
    BY DEF OthersRefused
  <2>1. scenario \in ScenarioType /\ config \in Configurations
    BY DEF ExploreInv, TypeOK
  <2>2. PICK n \in Nat : n = config.length + 1
    BY <2>1, OptionFacts
  <2>3. s \in BoundedSeq(ThreadsOf(scenario), n)
    BY <2>2 DEF Schedules, Threads
  <2>4. s \in Seq(ThreadsOf(scenario))
    BY <2>2, <2>3, BoundedIs
  <2>5. QED
    BY <2>1, <2>4, ExactReplay
<1>2. QED
  BY <1>1, ExploreInvHolds, PTL

\* What check reports fails as reported, on the scenario it is reported for, and
\* that scenario has no actor to spare (minimize)
THEOREM ReportIsMinimal == Spec => []MinimalReport
<1>1. ExploreInv => MinimalReport
  <2> SUFFICES ASSUME ExploreInv, Returned, best # <<>>
               PROVE  /\ Run(Head(best).scenario, Head(best).schedule).outcome = Head(best).outcome
                      /\ config.minimize => \A c \in ToSet(Smaller(Head(best).scenario)) : AllPass(c)
    BY DEF MinimalReport, AllPass
  <2>1. PICK b : /\ best = <<b>> /\ b.scenario \in ScenarioType
                 /\ Run(b.scenario, b.schedule).outcome = b.outcome
    BY DEF ExploreInv, BestInv
  <2>2. Run(Head(best).scenario, Head(best).schedule).outcome = Head(best).outcome
    BY <2>1
  <2>3. ASSUME config.minimize, NEW c \in ToSet(Smaller(Head(best).scenario)) PROVE AllPass(c)
    <3>1. PICK sm : sm = Smaller(Head(best).scenario)
      OBVIOUS
    <3>2. sm \in Seq(ScenarioType) /\ Len(sm) \in Nat
      BY <2>1, <3>1, SmallerType
    <3>3. candidate \in 0 .. Len(sm)
      BY <3>1 DEF ExploreInv, TypeOK
    <3>4. phase # "exploring" /\ Untried = <<>>
      BY <2>3 DEF Returned, Searched, Minimizing
    <3>5. candidate = Len(sm)
      <4>1. SubSeq(sm, candidate + 1, Len(sm)) = <<>>
        BY <3>1, <3>4 DEF Untried
      <4>2. CASE candidate < Len(sm)
        <5>1. PICK u : u = SubSeq(sm, candidate + 1, Len(sm))
          OBVIOUS
        <5>2. Len(u) = Len(sm) - candidate
          BY <3>2, <3>3, <4>2, <5>1
        <5>3. Len(u) = 0
          BY <4>1, <5>1
        <5>4. QED
          BY <3>2, <3>3, <4>2, <5>2, <5>3
      <4>3. QED
        BY <3>2, <3>3, <4>2
    <3>6. PICK k \in 1 .. Len(sm) : c = sm[k]
      BY <3>1, <3>2, <2>3 DEF ToSet
    <3>7. QED
      BY <3>1, <3>4, <3>5, <3>6 DEF ExploreInv, MinimizeInv
  <2>4. QED
    BY <2>2, <2>3
<1>2. QED
  BY <1>1, ExploreInvHolds, PTL

\* Before the first run with d context switches, whatever has fewer was run
\* (take_next_frontier_schedule, next_frontier_context_depth)
THEOREM ShallowRunsFirst == Spec => ShallowFirst
<1> DEFINE Step == MostSwitches(runs') > MostSwitches(runs) =>
               LET executed == Executed IN
               \A s \in Schedules(config.length) :
                  Feasible(s) /\ ContextSwitches(s) < MostSwitches(runs')
                      => Reported(Run(scenario, s)) \in executed
<1>1. ExploreInv /\ [Next]_vars => [Step]_vars
  <2> SUFFICES ASSUME ExploreInv, [Next]_vars, MostSwitches(runs') > MostSwitches(runs),
                      NEW s \in Schedules(config.length), Feasible(s),
                      ContextSwitches(s) < MostSwitches(runs')
               PROVE  Reported(Run(scenario, s)) \in Executed
    OBVIOUS
  <2>0. /\ config \in Configurations /\ runs \subseteq seen /\ seen \subseteq Schedules(config.length)
        /\ \A z \in seen : ContextSwitches(z) <= DepthLimit
        /\ depth \in 0 .. DepthLimit /\ DepthLimit \in Nat
    BY OptionFacts DEF ExploreInv, TypeOK
  <2>1. \A z \in seen : ContextSwitches(z) \in 0 .. DepthLimit
    <3>1. \A z \in seen : z \in Seq(Threads)
      BY <2>0, SchedulesIn
    <3>2. QED
      BY <2>0, <3>1, SwitchesFacts
  <2> DEFINE X == {ContextSwitches(z) : z \in runs} \cup {0}
  <2>2. MostSwitches(runs) \in X /\ \A x \in X : x <= MostSwitches(runs)
    <3>1. X \in SUBSET (0 .. DepthLimit) /\ X # {}
      BY <2>0, <2>1
    <3>2. MostSwitches(runs) = Max(X)
      BY DEF MostSwitches
    <3> HIDE DEF X
    <3>3. QED
      BY <2>0, <3>1, <3>2, MaxFacts
  <2>3. MostSwitches(runs) \in Nat
    BY <2>0, <2>1, <2>2
  <2>4. CASE UNCHANGED runs
    BY <2>3, <2>4
  <2>5. CASE RunSchedule
    <3>1. PICK q, new : OneRun(q, new)
      BY <2>5, RunIsOneRun DEF ExploreInv
    <3>2. runs' = runs \cup {q} /\ q \in seen /\ ContextSwitches(q) <= depth
      BY <3>1 DEF OneRun, ExploreInv, QueueInv
    <3> DEFINE Y == {ContextSwitches(z) : z \in runs'} \cup {0}
    <3>3. Y = X \cup {ContextSwitches(q)}
      BY <3>2
    <3>4. MostSwitches(runs') \in Y
      <4>1. Y \in SUBSET (0 .. DepthLimit) /\ Y # {}
        BY <2>0, <2>1, <3>2
      <4>2. MostSwitches(runs') = Max(Y)
        BY DEF MostSwitches
      <4> HIDE DEF Y
      <4>3. QED
        BY <2>0, <4>1, <4>2, MaxFacts
    <3>5. MostSwitches(runs') \notin X
      <4>1. \A x \in X : x \in Nat
        BY <2>0, <2>1
      <4> HIDE DEF X
      <4>2. QED
        BY <2>2, <2>3, <4>1
    <3>6. MostSwitches(runs') = ContextSwitches(q)
      BY <3>3, <3>4, <3>5
    <3>7. ContextSwitches(s) \in Nat
      <4>1. s \in Seq(Threads)
        BY <2>0, SchedulesIn
      <4>2. QED
        BY <4>1, SwitchesFacts
    <3>8. ContextSwitches(s) < depth
      BY <2>0, <2>1, <3>2, <3>6, <3>7
    <3>9. QED
      BY <3>8 DEF ExploreInv, SweptInv, Ran
  <2>6. CASE TryCandidate
    <3>1. runs' = {}
      BY <2>6 DEF TryCandidate
    <3>2. {ContextSwitches(z) : z \in runs'} \cup {0} = {0}
      BY <3>1
    <3>3. MostSwitches(runs') = 0
      BY <3>2 DEF MostSwitches, Max
    <3>4. QED
      BY <2>3, <3>3
  <2>7. QED
    BY <2>4, <2>5, <2>6 DEF Next, BudgetSpent, Deepen, Stop, Done, vars, searchVars
<1>2. Spec => [][Step]_vars
  BY <1>1, ExploreInvHolds, PTL DEF Spec
<1>3. QED
  BY <1>2 DEF ShallowFirst

=============================================================================
